---------------------------- MODULE MCAgentLoop -----------------------------
(***************************************************************************)
(* A small instance of AgentLoop for TLC.                                  *)
(***************************************************************************)
EXTENDS AgentLoop

NoTokens == [input |-> 0, read |-> 0, write |-> 0, early |-> 0, output |-> 0, thinking |-> 0]
Tokens == [input |-> 3, read |-> 1, write |-> 1, early |-> 1, output |-> 3, thinking |-> 2]

\* An answer, one call without arguments, two calls side by side, and a text with a call.
MCReplies ==
  {[text |-> TRUE, calls |-> <<>>, usage |-> Tokens],
   [text |-> FALSE, calls |-> <<0>>, usage |-> NoTokens],
   [text |-> FALSE, calls |-> <<2, 1>>, usage |-> Tokens],
   [text |-> TRUE, calls |-> <<1>>, usage |-> Tokens]}

\* The fields of agent.js; fields V4 has too; one limit under two names; a script that
\* writes for the Messages or for the Responses API by hand, beside fields of its own.
MCBodies ==
  {{"messages", "tools", "seed"},
   {"messages", "temperature", "stop"},
   {"messages", "max_completion_tokens", "max_tokens"},
   {"messages", "response_format", "output_config"},
   {"messages", "instructions", "max_output_tokens", "max_tokens"},
   {"system", "stop", "stop_sequences"}}

=============================================================================
