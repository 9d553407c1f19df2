----------------------------- MODULE ChatStream -----------------------------
(***************************************************************************)
(* Reading one streamed chat reply: the second half of doChat (client.go)  *)
(* from the moment the response headers are in, over the four wires'       *)
(* parsers (parseStream, parseAnthropicStream, parseResponsesStream and    *)
(* parseProviderWireV4Stream), finishScan and the drain of the body.       *)
(*                                                                         *)
(* The environment is the server, the clock, the abort deadline bound to   *)
(* the request context, the VU's own cancellation and http.Client.Timeout. *)
(* It runs concurrently with the parser and may act between any two of its *)
(* steps.  A line of the stream is abstracted to what a parser does with   *)
(* it: text, reasoning, tool-call fragments, a terminal event, an error    *)
(* envelope, undecodable JSON, or nothing.  Token usage, finish reasons    *)
(* and the fragments' text do not steer the parsers and are left out.      *)
(***************************************************************************)
EXTENDS Integers, Sequences, SequencesExt, OutputTime

CONSTANTS
  MaxDurations,  \* abort_after_ms of the calls considered, in clock ticks; 0 = disabled
  MaxTokens,     \* abort_after_tokens of the calls considered; 0 = disabled
  Timeouts,      \* http.Client.Timeout of the calls considered; 0 = none
  Wires,         \* the wires considered
  ToolIndexes,   \* tool-call indexes the model may use in one reply
  TokenCounts,   \* [completion, thinking]: token counts a provider may report
  MaxNow,        \* bound: the clock stops here
  MaxSegments,   \* bound: number of writes the server makes
  DrainLimit     \* io.LimitReader(resp.Body, 64<<10), in unread lines

ASSUME ConstantsAssumption ==
  /\ MaxDurations \subseteq Nat
  /\ MaxTokens \subseteq Nat
  /\ Timeouts \subseteq Nat
  /\ Wires \subseteq {"openai", "anthropic", "responses", "v4"}
  /\ TokenCounts \subseteq [completion: Nat, thinking: Nat]
  /\ MaxNow \in Nat \ {0}
  /\ MaxSegments \in Nat
  /\ DrainLimit \in Nat

VARIABLES
  conf,           \* the call's wire, abortPolicy and Client.Timeout
  now,            \* clock ticks since `start`
  ctx,            \* reqCtx.Err(): nil ("live"), DeadlineExceeded or Canceled
  body,           \* the response body: open, ended cleanly, or broken, by what broke it
  segments,       \* writes the server has made so far (only to bound the model)
  pending,        \* whole lines received and not yet scanned
  partial,        \* whether a line without its newline follows them
  pc,             \* where doChat is
  res,            \* chatResult
  gotFirstToken, lastContentT, toolOrder, stop,  \* the parsers' locals
  scErr,          \* sc.Err() # nil
  outcome,        \* what doChat returned: "ok" with res, or why it failed
  firstOutputAt,  \* auxiliary: when the first generated output was scanned
  replyEnded      \* auxiliary: a terminal event was scanned

envVars    == <<now, ctx, body, segments>>
bufferVars == <<pending, partial>>
parseVars  == <<res, gotFirstToken, lastContentT, toolOrder, stop>>
auxVars    == <<firstOutputAt, replyEnded>>
vars == <<conf, envVars, bufferVars, pc, parseVars, scErr, outcome, auxVars>>

-----------------------------------------------------------------------------
(* The lines of a stream, by what the wire's parser does with them.        *)

LineOf(kind, text, think, tools) ==
  [kind |-> kind, text |-> text, think |-> think, tools |-> tools]

Line(kind)  == LineOf(kind, FALSE, FALSE, {})
Text        == LineOf("event", TRUE, FALSE, {})
Think       == LineOf("event", FALSE, TRUE, {})
Tool(i)     == LineOf("event", FALSE, FALSE, {i})
ToolDone(i) == LineOf("toolDone", FALSE, FALSE, {i})
V4Reasoning == LineOf("skip", FALSE, TRUE, {})

\* An error envelope, a line that does not decode, and one that does not
\* because the body broke in the middle of it.
Failures == {"error", "bad", "cut"}

Lines ==
  [kind: {"skip", "event", "toolDone", "stop"} \cup Failures,
   text: BOOLEAN, think: BOOLEAN, tools: SUBSET ToolIndexes]

\* What generates output: the events TTFT is about.
Carries(l) == l.text \/ l.think \/ l.tools # {}

\* One OpenAI delta may carry text, reasoning and tool fragments at once.
OpenAILines ==
  {Line("skip"), Line("stop"), Line("error"), Line("bad")} \cup
  [kind: {"event"}, text: BOOLEAN, think: BOOLEAN, tools: SUBSET ToolIndexes]

\* message_start and message_delta only carry usage: skip.
AnthropicLines ==
  {Line("skip"), Line("stop"), Line("error"), Line("bad"), Text, Think} \cup
  {Tool(i) : i \in ToolIndexes}

\* function_call_arguments.done and output_item.done open a slot by toolAt
\* but are not counted as content.
ResponsesLines ==
  AnthropicLines \cup {ToolDone(i) : i \in ToolIndexes}

\* Only text-delta and error parts act.  A reasoning part is ignored, and
\* finish does not stop the reader.
V4Lines ==
  {Line("skip"), Line("error"), Line("bad"), Text, V4Reasoning}

LinesOf(w) ==
  CASE w = "openai"    -> OpenAILines
    [] w = "anthropic" -> AnthropicLines
    [] w = "responses" -> ResponsesLines
    [] w = "v4"        -> V4Lines

-----------------------------------------------------------------------------
(* The timing rules the parsers share.                                     *)

NoResult ==
  [TTFT |-> 0, TTFText |-> 0, ITL |-> <<>>, Chunks |-> 0,
   ThinkingChunks |-> 0, Duration |-> 0, Aborted |-> FALSE]

\* Mutants: operands swapped; the gate left out.
GapSwapped(r)   == IF lastContentT = 0 THEN r.ITL ELSE Append(r.ITL, lastContentT - now)
GapUngated(r)   == Append(r.ITL, now - lastContentT)

\* `if !lastContentT.IsZero()`: the gap to the previous content chunk.
Gap(r) == IF lastContentT = 0 THEN r.ITL ELSE Append(r.ITL, now - lastContentT)

TextDelta(r) ==
  [r EXCEPT !.TTFText = IF @ = 0 THEN now ELSE @,
            !.Chunks = @ + 1,
            !.ITL = Gap(r)]

Counted(r, l) ==
  LET r1 == IF l.think THEN [r EXCEPT !.ThinkingChunks = @ + 1] ELSE r
  IN  IF l.text THEN TextDelta(r1) ELSE r1

\* Mutant: TTFT taken again at every content event.
FirstTokenUngated(r, had) == IF had THEN [r EXCEPT !.TTFT = now] ELSE r

FirstToken(r, had) == IF had /\ ~gotFirstToken THEN [r EXCEPT !.TTFT = now] ELSE r

\* Mutants: `>` for `>=`; a budget of 0 taken for a limit.
OverBudgetLate(r)  == conf.maxTokens > 0 /\ r.Chunks + r.ThinkingChunks > conf.maxTokens
OverBudgetUnset(r) == r.Chunks + r.ThinkingChunks >= conf.maxTokens

\* `abort.MaxTokens > 0 && res.Chunks+res.ThinkingChunks >= abort.MaxTokens`
OverBudget(r) == conf.maxTokens > 0 /\ r.Chunks + r.ThinkingChunks >= conf.maxTokens

Fail(why) == pc' = "done" /\ outcome' = why

-----------------------------------------------------------------------------
(* One iteration of each wire's loop, on the line the scanner returned.    *)

\* parseStream: the budget check leaves the loop before the chunk's tool
\* fragments are read and before TTFT is taken.
OpenAIDelta(l) ==
  LET r == Counted(res, l) IN
  /\ lastContentT' = IF l.text THEN now ELSE lastContentT
  /\ UNCHANGED <<stop, outcome>>
  /\ \/ /\ OverBudget(r)
        /\ res' = [r EXCEPT !.Aborted = TRUE]
        /\ pc' = "finish"
        /\ UNCHANGED <<gotFirstToken, toolOrder>>
     \/ /\ ~OverBudget(r)
        /\ res' = FirstToken(r, Carries(l))
        /\ gotFirstToken' = (gotFirstToken \/ Carries(l))
        /\ toolOrder' = toolOrder \cup l.tools
        /\ pc' = "scan"

OpenAILine(l) ==
  \/ l.kind = "skip" /\ pc' = "scan" /\ UNCHANGED <<parseVars, outcome>>
  \/ l.kind = "stop" /\ pc' = "finish" /\ UNCHANGED <<parseVars, outcome>>
  \/ l.kind \in Failures /\ Fail(l.kind) /\ UNCHANGED parseVars
  \/ l.kind = "event" /\ OpenAIDelta(l)

\* parseAnthropicStream and parseResponsesStream: TTFT first, then the budget;
\* both ends only set `stop`, which the loop looks at after the next Scan.
EventLine(l, had) ==
  LET r == FirstToken(Counted(res, l), had) IN
  /\ lastContentT' = IF l.text THEN now ELSE lastContentT
  /\ res' = [r EXCEPT !.Aborted = @ \/ OverBudget(r)]
  /\ gotFirstToken' = (gotFirstToken \/ had)
  /\ toolOrder' = toolOrder \cup l.tools
  /\ stop' = (stop \/ OverBudget(r) \/ l.kind = "stop")
  /\ pc' = "scan"
  /\ UNCHANGED outcome

\* Mutant: the line scanned after `stop` is handled.
LoopWithoutStop(l, had) ==
  \/ l.kind \in Failures /\ Fail(l.kind) /\ UNCHANGED parseVars
  \/ l.kind \notin Failures /\ EventLine(l, had)

\* `for sc.Scan() && !stop`: the line scanned after `stop` is thrown away.
StoppingLoop(l, had) ==
  \/ stop /\ pc' = "finish" /\ UNCHANGED <<parseVars, outcome>>
  \/ ~stop /\ l.kind \in Failures /\ Fail(l.kind) /\ UNCHANGED parseVars
  \/ ~stop /\ l.kind \notin Failures /\ EventLine(l, had)

AnthropicLine(l) == StoppingLoop(l, Carries(l))
ResponsesLine(l) == StoppingLoop(l, l.kind = "event" /\ Carries(l))

\* parseProviderWireV4Stream: TTFText is never set, and the budget counts text.
V4Text ==
  LET r == [res EXCEPT !.TTFT = IF res.Chunks = 0 THEN now ELSE @,
                       !.ITL = IF res.Chunks = 0 THEN @ ELSE Append(@, now - lastContentT),
                       !.Chunks = @ + 1]
  IN
  /\ lastContentT' = now
  /\ res' = [r EXCEPT !.Aborted = OverBudget(r)]
  /\ pc' = IF OverBudget(r) THEN "finish" ELSE "scan"
  /\ UNCHANGED <<gotFirstToken, toolOrder, stop, outcome>>

V4Line(l) ==
  \/ l.kind = "skip" /\ pc' = "scan" /\ UNCHANGED <<parseVars, outcome>>
  \/ l.kind \in Failures /\ Fail(l.kind) /\ UNCHANGED parseVars
  \/ l.kind = "event" /\ V4Text

HandleLine(l) ==
  /\ \/ conf.wire = "openai" /\ OpenAILine(l)
     \/ conf.wire = "anthropic" /\ AnthropicLine(l)
     \/ conf.wire = "responses" /\ ResponsesLine(l)
     \/ conf.wire = "v4" /\ V4Line(l)
  /\ replyEnded' = (replyEnded \/ l.kind = "stop")
  /\ firstOutputAt' = IF firstOutputAt = 0 /\ ~stop /\ Carries(l) THEN now ELSE firstOutputAt

-----------------------------------------------------------------------------
(* bufio.Scanner over the response body.                                   *)

Broken    == body \notin {"open", "ended"}

\* Mutant: sc.Err() is not looked at.
ReadErrorIgnored == FALSE

\* sc.Err(), which is nil at io.EOF.
ReadError == Broken

\* A whole line is in the buffer.
ScanLine ==
  /\ pc = "scan" /\ pending > 0
  /\ pending' = pending - 1
  /\ \E l \in LinesOf(conf.wire) : HandleLine(l)
  /\ UNCHANGED <<conf, envVars, partial, scErr>>

\* At the end of the body, clean or not, ScanLines hands out what is left as
\* a last line: a complete event without its newline, or a cut one, which is
\* skipped when the cut falls inside the `data:` prefix and does not decode
\* otherwise.
ScanTail ==
  /\ pc = "scan" /\ pending = 0 /\ partial /\ body # "open"
  /\ partial' = FALSE
  /\ scErr' = ReadError
  /\ \E l \in LinesOf(conf.wire) \cup {Line("cut")} : HandleLine(l)
  /\ UNCHANGED <<conf, envVars, pending>>

\* Scan returns false: nothing is left, or (bufio.ErrTooLong) a line passes 1M.
ScanStops ==
  /\ pc = "scan" /\ pending = 0
  /\ \/ ~partial /\ body # "open" /\ scErr' = ReadError
     \/ partial /\ body = "open" /\ scErr' = TRUE
  /\ pc' = "finish"
  /\ UNCHANGED <<conf, envVars, bufferVars, parseVars, outcome, auxVars>>

-----------------------------------------------------------------------------
(* finishScan, the end of the parser, and the drain in doChat.             *)

\* Mutant: any read error under a done context counts as an abort.
IsAbortUnasked == ctx # "live"

\* A read error under an abort deadline is the abort, once reqCtx is done.
IsAbort == conf.maxDuration > 0 /\ ctx # "live"

FinishScan ==
  /\ pc = "finish"
  /\ \/ /\ scErr /\ ~IsAbort
        /\ Fail("read")
        /\ UNCHANGED res
     \/ /\ ~scErr \/ IsAbort
        /\ res' = [res EXCEPT !.Aborted = @ \/ scErr, !.Duration = now]
        /\ IF res'.Aborted THEN pc' = "done" /\ outcome' = "ok"
                           ELSE pc' = "drain" /\ UNCHANGED outcome
  /\ UNCHANGED <<conf, envVars, bufferVars, gotFirstToken, lastContentT,
                 toolOrder, stop, scErr, auxVars>>

\* io.Copy(io.Discard, io.LimitReader(resp.Body, 64<<10)) ends at the body's
\* end, on a read error, or after 64K; whichever, its error is dropped.
Drain ==
  /\ pc = "drain"
  /\ body # "open" \/ pending >= DrainLimit
  /\ pc' = "done" /\ outcome' = "ok"
  /\ UNCHANGED <<conf, envVars, bufferVars, parseVars, scErr, auxVars>>

-----------------------------------------------------------------------------
(* The environment.                                                        *)

\* The server writes: a whole line, the rest of one, or a part of one.
Deliver ==
  /\ body = "open" /\ pc # "done" /\ segments < MaxSegments
  /\ \/ pending' = pending + 1 /\ partial' \in BOOLEAN
     \/ ~partial /\ partial' = TRUE /\ UNCHANGED pending
  /\ segments' = segments + 1
  /\ UNCHANGED <<conf, now, ctx, body, pc, parseVars, scErr, outcome, auxVars>>

\* The server ends the body.
EndBody ==
  /\ body = "open" /\ pc # "done"
  /\ body' = "ended"
  /\ UNCHANGED <<conf, now, ctx, segments, bufferVars, pc, parseVars, scErr, outcome, auxVars>>

\* A failing connection loses any suffix of what was sent and not yet scanned.
LoseSuffix ==
  \/ UNCHANGED bufferVars
  \/ partial' = FALSE /\ UNCHANGED pending
  \/ pending' \in 0..(pending - 1) /\ partial' \in BOOLEAN

BreakBody(why) == body' = why /\ LoseSuffix

\* The connection is reset.
ResetConnection ==
  /\ body = "open" /\ pc # "done"
  /\ BreakBody("reset")
  /\ UNCHANGED <<conf, now, ctx, segments, pc, parseVars, scErr, outcome, auxVars>>

\* http.Client.Timeout: cancels the request, not reqCtx.
TimeOut ==
  /\ conf.timeout > 0 /\ now >= conf.timeout
  /\ body = "open" /\ pc # "done"
  /\ BreakBody("timeout")
  /\ UNCHANGED <<conf, now, ctx, segments, pc, parseVars, scErr, outcome, auxVars>>

DoneContext(why) ==
  /\ ctx = "live" /\ pc # "done"
  /\ ctx' = why
  /\ IF body = "open" THEN BreakBody(why) ELSE UNCHANGED <<body, bufferVars>>
  /\ UNCHANGED <<conf, now, segments, pc, parseVars, scErr, outcome, auxVars>>

\* Mutant: the deadline's context ends with the parser.
DeadlineOnlyScanning == conf.maxDuration > 0 /\ now >= conf.maxDuration /\ pc = "scan"

\* context.WithTimeout(ctx, req.abort.MaxDuration).
DeadlineDue == conf.maxDuration > 0 /\ now >= conf.maxDuration
AbortDeadline == DeadlineDue /\ DoneContext("expired")

\* The VU's context ends (end of the scenario, an interrupted iteration).
CancelVU == DoneContext("cancelled")

Tick ==
  /\ now < MaxNow /\ pc # "done"
  /\ now' = now + 1
  /\ UNCHANGED <<conf, ctx, body, segments, bufferVars, pc, parseVars, scErr, outcome, auxVars>>

-----------------------------------------------------------------------------

\* At the first Scan: send took one tick at least, so no duration is zero.
Init ==
  /\ conf \in [wire: Wires, maxDuration: MaxDurations, maxTokens: MaxTokens, timeout: Timeouts]
  /\ now = 1 /\ ctx = "live" /\ body = "open" /\ segments = 0
  /\ pending = 0 /\ partial = FALSE
  /\ pc = "scan"
  /\ res = NoResult
  /\ gotFirstToken = FALSE /\ lastContentT = 0 /\ toolOrder = {} /\ stop = FALSE
  /\ scErr = FALSE /\ outcome = "none"
  /\ firstOutputAt = 0 /\ replyEnded = FALSE

Reader == ScanLine \/ ScanTail \/ ScanStops \/ FinishScan \/ Drain

Environment ==
  Deliver \/ EndBody \/ ResetConnection \/ TimeOut \/ AbortDeadline \/ CancelVU \/ Tick

\* The call has returned.
Returned == pc = "done" /\ UNCHANGED vars

Next == Reader \/ Environment \/ Returned

\* The goroutine runs, time passes and timers fire; the server owes nothing.
Fairness ==
  /\ WF_vars(ScanLine \/ ScanTail) /\ WF_vars(ScanStops) /\ WF_vars(FinishScan) /\ WF_vars(Drain)
  /\ WF_vars(Tick) /\ WF_vars(TimeOut) /\ WF_vars(AbortDeadline)

Spec == Init /\ [][Next]_vars /\ Fairness

-----------------------------------------------------------------------------

ChatResult ==
  [TTFT: Nat, TTFText: Nat, ITL: Seq(Nat), Chunks: Nat,
   ThinkingChunks: Nat, Duration: Nat, Aborted: BOOLEAN]

TypeOK ==
  /\ conf \in [wire: Wires, maxDuration: MaxDurations, maxTokens: MaxTokens, timeout: Timeouts]
  /\ now \in 1..MaxNow
  /\ ctx \in {"live", "expired", "cancelled"}
  /\ body \in {"open", "ended", "reset", "timeout", "expired", "cancelled"}
  /\ segments \in 0..MaxSegments
  /\ pending \in Nat /\ partial \in BOOLEAN
  /\ pc \in {"scan", "finish", "drain", "done"}
  /\ res \in ChatResult
  /\ gotFirstToken \in BOOLEAN /\ lastContentT \in Nat
  /\ toolOrder \subseteq ToolIndexes /\ stop \in BOOLEAN
  /\ scErr \in BOOLEAN
  /\ outcome \in {"none", "ok", "read"} \cup Failures
  /\ firstOutputAt \in Nat /\ replyEnded \in BOOLEAN

\* The times of a result are in the order they happened: no TTFT before output
\* (and exactly at the first output on the wires that count every kind of it,
\* client.go:1026), text never before the first token, and a Duration that
\* covers the last content chunk.
TimesInOrder ==
  /\ res.TTFT # 0 =>
       /\ firstOutputAt \in 1..res.TTFT
       /\ conf.wire \in {"openai", "anthropic"} => res.TTFT = firstOutputAt
       /\ res.TTFText # 0 => res.TTFT <= res.TTFText
  /\ (res.Chunks > 0) = (lastContentT > 0)
  /\ res.TTFText <= lastContentT
  /\ conf.wire # "v4" => (res.Chunks > 0) = (res.TTFText > 0)
  /\ outcome = "ok" => res.TTFT <= res.Duration /\ lastContentT <= res.Duration

\* Each content chunk after the first gives one ITL sample and nothing else
\* does: a tool or reasoning delta in front adds none (client.go:983-991).
OneGapPerLaterChunk ==
  Len(res.ITL) = IF res.Chunks = 0 THEN 0 ELSE res.Chunks - 1

Plus(a, b) == a + b

Total(gaps) == FoldLeft(Plus, 0, gaps)

FirstTextAt == IF conf.wire = "v4" THEN res.TTFT ELSE res.TTFText

\* The ITL samples and TPOT measure one text phase: the samples cut it into
\* adjacent intervals that add up to the time from the first content chunk to the
\* last, whatever reasoning and tool deltas came in between, and the time TPOT
\* spreads over the tokens covers all of them; when there was reasoning it starts
\* at the text, and is not derived for a reply that had none
\* (client.go:263-324 and 978-993).
TextPhaseMeasured ==
  /\ res.Chunks > 0 => FirstTextAt + Total(res.ITL) = lastContentT
  /\ outcome = "ok" => \A u \in TokenCounts : TPOTDerivable(res, u) =>
       /\ TPOTWindow(res, u) >= Total(res.ITL)
       /\ u.thinking > 0 => res.Chunks > 0 /\ TPOTWindow(res, u) = res.Duration - FirstTextAt

\* abort_after_tokens: at most the budget is consumed (one more when an OpenAI
\* delta carries text and reasoning), and a reply that reached it says so.
BudgetHolds ==
  conf.maxTokens > 0 =>
    /\ res.Chunks + res.ThinkingChunks <=
         conf.maxTokens + (IF conf.wire = "openai" THEN 1 ELSE 0)
    /\ outcome = "ok" /\ res.Chunks + res.ThinkingChunks >= conf.maxTokens => res.Aborted

\* A result says `aborted` only when a limit the call had set tripped
\* (finishScan): never for a reset or a timeout alone, nor for a cancelled VU
\* when the call had no deadline.
AbortHasCause ==
  outcome = "ok" /\ res.Aborted =>
    \/ conf.maxTokens > 0 /\ res.Chunks + res.ThinkingChunks >= conf.maxTokens
    \/ conf.maxDuration > 0 /\ ctx # "live"

\* A connection that breaks before the reply is over never yields a complete
\* result: it is an error or an abort.
CompleteReplyEnded ==
  outcome = "ok" /\ ~res.Aborted /\ Broken => replyEnded

\* Nothing that arrives after the parser decided to stop is measured.
FrozenOnceStopped ==
  [][stop \/ pc # "scan" =>
       UNCHANGED <<res.Chunks, res.ThinkingChunks, res.TTFT, toolOrder>>]_vars

\* The abstract promise, with what the call set and what it returned.
Verdict ==
  INSTANCE StreamVerdict WITH
    Calls   <- [deadline: BOOLEAN, budget: BOOLEAN, timeout: BOOLEAN],
    call    <- [deadline |-> conf.maxDuration > 0, budget |-> conf.maxTokens > 0,
                timeout |-> conf.timeout > 0],
    ctxDone <- ctx # "live",
    verdict <- CASE outcome = "none" -> "none"
                 [] outcome = "ok" -> IF res.Aborted THEN "aborted" ELSE "complete"
                 [] OTHER -> "failed"

\* Reading gives one verdict, once, and aborts only under a limit that was set.
GivesOneVerdict == Verdict!SafeSpec

\* A call with a deadline or a timeout returns even from a server that stalls,
\* in the stream or in the drain after it.
ReturnsUnderALimit == Verdict!VerdictUnderTimer

\* README.md:128, of abort_after_ms: "Cut the stream short; the result resolves
\* with `aborted: true`": a stream the deadline cut is not an error.
DeadlineResolvesAborted ==
  body = "expired" => outcome \notin {"cut", "read"}

\* README.md:61: "TTFT at the first content-bearing event (reasoning included)".
EveryOutputIsTimed ==
  outcome = "ok" /\ firstOutputAt # 0 => res.TTFT = firstOutputAt

=============================================================================
