---------------------------- MODULE MCChatStream ----------------------------
(* ChatStream for TLC.                                                     *)
EXTENDS ChatStream

\* Token counts reported with a reply, reasoning tokens among them.
MCTokenCounts == {u \in [completion: 0..4, thinking: 0..4] : u.thinking <= u.completion}

=============================================================================
