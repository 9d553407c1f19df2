----------------------------- MODULE OutputTime -----------------------------
(***************************************************************************)
(* The time per output token of a streamed reply (client.go): r is its     *)
(* chatResult, u the token counts [completion, thinking] the provider      *)
(* reported.                                                               *)
(***************************************************************************)
EXTENDS Integers

\* Mutant: every billed token, from the first output of any kind.
BilledOutput(r, u) == [tokens |-> u.completion, from |-> r.TTFT]

\* The output tokens that arrived as events and when they began to: reasoning
\* tokens are billed but may come as one empty delta.
StreamedOutput(r, u) ==
  IF u.thinking = 0 THEN [tokens |-> u.completion, from |-> r.TTFT]
  ELSE [tokens |-> IF u.completion > u.thinking THEN u.completion - u.thinking ELSE 0,
        from |-> r.TTFText]

TPOTDerivable(r, u) ==
  LET o == StreamedOutput(r, u) IN o.tokens > 1 /\ o.from > 0 /\ r.Duration > o.from

\* What TPOT spreads over the tokens after the first.
TPOTWindow(r, u) == r.Duration - StreamedOutput(r, u).from

=============================================================================
