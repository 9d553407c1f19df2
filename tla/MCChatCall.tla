----------------------------- MODULE MCChatCall -----------------------------
(* ChatCall for TLC: the kinds of request worth telling apart.             *)
EXTENDS ChatCall

Request(limits, slo) ==
  [valid |-> "invalid" \notin limits, supported |-> "unsupported" \notin limits,
   unary |-> "unary" \in limits, deadline |-> "deadline" \in limits,
   budget |-> "budget" \in limits, timeout |-> "timeout" \in limits, slo |-> slo]

Invalid     == Request({"invalid"}, TRUE)
Unsupported == Request({"unsupported", "timeout"}, TRUE)
Timed       == Request({"timeout"}, TRUE)
UnaryUnder  == Request({"unary", "deadline"}, TRUE)
UnaryTimed  == Request({"unary", "timeout"}, FALSE)
Limited     == Request({"budget", "deadline"}, FALSE)

MCRequests == {Invalid, Unsupported, Timed, UnaryUnder, UnaryTimed, Limited}

UnaryRequests == {Request({"unary", "deadline"}, FALSE)}

CONSTANTS c1, c2

\* Two calls meet in the SDK's queue, in a flush and at the VU's end only, none of which
\* looks at a request: each kind of request is given partners instead of every one.
MCPairs ==
  {<<Timed, UnaryUnder>>, <<UnaryTimed, Limited>>, <<Invalid, UnaryUnder>>,
   <<Unsupported, Timed>>, <<Invalid, Unsupported>>}

MCInit == Init /\ <<req[c1], req[c2]>> \in MCPairs

MCSpec == MCInit /\ [][Next]_vars /\ Fairness
=============================================================================
