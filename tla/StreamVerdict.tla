---------------------------- MODULE StreamVerdict ----------------------------
(***************************************************************************)
(* What doChat (client.go) promises of reading a reply, whatever the wire  *)
(* and the network do: one verdict, given once.  A reply is complete,      *)
(* aborted or failed.  It is aborted only under a limit the call had set:  *)
(* its token budget, or its deadline with the request's context done.      *)
(* ChatStream implements this, and ChatCall builds on it.                  *)
(***************************************************************************)
CONSTANT Calls  \* what a call may have set: [deadline, budget, timeout: BOOLEAN]

VARIABLES
  call,      \* the limits the call set
  ctxDone,   \* reqCtx.Err() # nil
  verdict

vars == <<call, ctxDone, verdict>>

\* The limits a reply may be cut at.
MayAbort(c, done) == c.budget \/ (c.deadline /\ done)

Init ==
  /\ call \in Calls
  /\ ctxDone = FALSE /\ verdict = "none"

ContextEnds ==
  /\ ~ctxDone
  /\ ctxDone' = TRUE
  /\ UNCHANGED <<call, verdict>>

Settle(v) ==
  /\ verdict = "none"
  /\ verdict' = v
  /\ UNCHANGED <<call, ctxDone>>

Complete == Settle("complete")
Abort    == MayAbort(call, ctxDone) /\ Settle("aborted")
Fail     == Settle("failed")

Next == ContextEnds \/ Complete \/ Abort \/ Fail

SafeSpec == Init /\ [][Next]_vars

\* A call that set a timer gets its verdict, even from a server that stalls.
VerdictUnderTimer == call.deadline \/ call.timeout => <>(verdict # "none")

Spec == SafeSpec /\ VerdictUnderTimer
==============================================================================
