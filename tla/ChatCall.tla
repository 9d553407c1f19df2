------------------------------ MODULE ChatCall ------------------------------
(***************************************************************************)
(* The chat() calls of one VU (client.go): the synchronous half of Chat on *)
(* the event loop, the goroutine that runs doChat, emits the k6 samples,   *)
(* exports the generation record and settles the promise, and flush(),     *)
(* which blocks the event loop while the goroutines go on.                 *)
(*                                                                         *)
(* Reading a stream is StreamVerdict's one step here; ChatStream shows     *)
(* that the parsers implement it.  The SDK's queue, its worker and the     *)
(* collector are external.                                                 *)
(***************************************************************************)
EXTENDS Integers, Sequences, FiniteSets

CONSTANTS
  Calls,      \* bound: the chat() calls of the iteration
  Requests,   \* the requests considered
  Exporting,  \* whether the client has an `agento11y` option: a set of BOOLEAN
  QueueSize   \* records the SDK's queue holds

ASSUME CallAssumption ==
  /\ Requests \subseteq
       [valid: BOOLEAN, supported: BOOLEAN, unary: BOOLEAN, deadline: BOOLEAN,
        budget: BOOLEAN, timeout: BOOLEAN, slo: BOOLEAN]
  /\ Exporting \subseteq BOOLEAN
  /\ QueueSize \in Nat

VARIABLES
  req,        \* req[c]: what the script asked for
  exporting,  \* c.a11y # nil
  pc,         \* pc[c]: where the call is
  tripped,    \* tripped[c]: the call's timers that have fired
  res,        \* res[c]: the fields of chatResult that samples and records read
  outcome,    \* outcome[c]: "none", "ok" or the kind of the error
  samples,    \* samples[c]: batches pushed to state.Samples for the call
  record,     \* record[c]: the generation record handed to the SDK
  queue,      \* calls whose record is in the SDK's queue
  shipped,    \* calls whose record reached the collector
  dropped,    \* calls whose record End() found no room for
  lost,       \* calls whose record the SDK took and gave up on
  flush,      \* client.flush(): idle, or running with the records it covers
  vuDone      \* the VU's context is done

callVars == <<req, exporting, pc, tripped, res, outcome, samples, record>>
sdkVars  == <<queue, shipped, dropped, lost>>
vars == <<callVars, sdkVars, flush, vuDone>>

-----------------------------------------------------------------------------
(* Samples, records and results.                                           *)

\* quota is what the two rate-limit fields hold: 0 as allocated ("unset"), -1
\* ("absent") or a header's value ("reported").
NoResult == [aborted |-> FALSE, quota |-> "unset", allPass |-> FALSE]

NoFlush == [running |-> FALSE, covers |-> {}]
NoRecord == [error |-> "none", goodput |-> "none", made |-> FALSE]

Batch(metric, type, goodput, gauge) ==
  [metric |-> metric, type |-> type, goodput |-> goodput, gauge |-> gauge]

\* Mutant: a goodput miss sent on state.Samples whatever the context.
PushMissAnyway(c, batch) ==
  samples' = [samples EXCEPT ![c] =
                IF vuDone /\ batch.metric # "goodput" THEN @ ELSE Append(@, batch)]

\* metrics.PushIfNotDone: nothing is pushed once the VU's context is done.
Push(c, batch) ==
  samples' = [samples EXCEPT ![c] = IF vuDone THEN @ ELSE Append(@, batch)]

\* Both read sloOutcome(); the caller passes a result only with res.SLO set.
Goodput(c) ==
  IF ~req[c].slo THEN "none" ELSE IF res[c].allPass THEN "hit" ELSE "miss"

\* RateLimitRemaining* >= 0, which 0 satisfies.
GaugePushed(r) == r.quota # "absent"

At(c, step) == pc[c] = step
Goto(c, step) == pc' = [pc EXCEPT ![c] = step]

Fail(c, kind) ==
  /\ outcome' = [outcome EXCEPT ![c] = kind]
  /\ Goto(c, "sampling")
  /\ UNCHANGED res

Succeed(c, aborted, quota) ==
  /\ outcome' = [outcome EXCEPT ![c] = "ok"]
  /\ \E pass \in IF req[c].slo THEN BOOLEAN ELSE {TRUE} :
       res' = [res EXCEPT ![c] = [aborted |-> aborted, quota |-> quota, allPass |-> pass]]
  /\ Goto(c, "sampling")

\* readResponseHeaders: a header the provider omits is -1.
HeaderQuotas == {"absent", "reported"}

-----------------------------------------------------------------------------
(* doChat.                                                                 *)

\* reqCtx.Err() # nil: its own deadline, or the VU's context under it.
CtxDone(c) == vuDone \/ "deadline" \in tripped[c]

\* Something cuts the transport off: reqCtx or http.Client.Timeout.
Cut(c) == CtxDone(c) \/ "timeout" \in tripped[c]

\* Mutant: a failure that is no timeout left without a kind.
TransportKindsBlank == {"timeout", ""}

\* classifyTransportError.  A call's own deadline and Client.Timeout are timeouts, and
\* so are a dial, TLS handshake or socket timeout and a VU context that ended by a
\* deadline; a cancellation or another connection failure is not.  The network may
\* fail in either way at any time.
TransportKinds == {"network", "timeout"}

\* Every step of doChat leaves the samples, the records and the rest alone.
DoChatFrame ==
  UNCHANGED <<req, exporting, tripped, samples, record, sdkVars, flush, vuDone>>

\* The body switch, json.Marshal and http.NewRequestWithContext: a request that
\* the v4 wire cannot express, that JSON cannot, or whose URL does not parse.
BuildFailures == {"unsupported", "decode", "network"}

Build(c) ==
  /\ At(c, "building")
  /\ \/ req[c].supported /\ Goto(c, "sending") /\ UNCHANGED <<outcome, res>>
     \/ ~req[c].supported /\ \E kind \in BuildFailures : Fail(c, kind)
  /\ DoChatFrame

\* send: headers, a 4xx or 5xx, or a transport error, by its kind.  The abort
\* deadline is an error here, not an abort.
Send(c) ==
  /\ At(c, "sending")
  /\ \/ Goto(c, "reading") /\ UNCHANGED <<outcome, res>>
     \/ \E kind \in {"http_4xx", "http_5xx"} \cup TransportKinds : Fail(c, kind)
  /\ DoChatFrame

\* Mutant: a read cut off without an abort deadline counted as an abort.
UnaryAbortUnasked(c) == CtxDone(c)

\* `req.abort.MaxDuration > 0 && reqCtx.Err() != nil` on a read error.
UnaryAbort(c) == req[c].deadline /\ CtxDone(c)

\* readUnaryBody and the wire's parser.  An aborted read returns before the
\* response headers are looked at.
UnaryReply(c) ==
  \/ \E quota \in HeaderQuotas : Succeed(c, FALSE, quota)
  \/ Fail(c, "decode")
  \/ UnaryAbort(c) /\ Succeed(c, TRUE, "unset")
  \/ ~UnaryAbort(c) /\ \E kind \in TransportKinds : Fail(c, kind)

\* A stream may be cut at its token budget, or under its deadline.
MayAbort(c) == req[c].budget \/ (req[c].deadline /\ CtxDone(c))

\* The parser's verdict (ChatStream), then the response headers.
StreamReply(c) ==
  \/ \E quota \in HeaderQuotas : Succeed(c, FALSE, quota)
  \/ MayAbort(c) /\ \E quota \in HeaderQuotas : Succeed(c, TRUE, quota)
  \/ Fail(c, "stream")

Reply(c) ==
  /\ At(c, "reading")
  /\ \/ req[c].unary /\ UnaryReply(c)
     \/ ~req[c].unary /\ StreamReply(c)
  /\ DoChatFrame

-----------------------------------------------------------------------------
(* Chat around doChat: samples, record, promise.                           *)

\* Synchronous, on the event loop.  A request parseChatRequest refuses gives
\* an error sample and nothing else.
Chat(c) ==
  /\ At(c, "idle") /\ ~flush.running /\ ~vuDone
  /\ \/ /\ req[c].valid
        /\ Goto(c, "building")
        /\ UNCHANGED <<outcome, samples>>
     \/ /\ ~req[c].valid
        /\ Push(c, Batch("error", "decode", "none", FALSE))
        /\ outcome' = [outcome EXCEPT ![c] = "decode"]
        /\ Goto(c, "resolving")
  /\ UNCHANGED <<req, exporting, tripped, res, record, sdkVars, flush, vuDone>>

\* emit, or emitError with emitGoodputMiss still to come.  The record is made
\* before `resolve` and `reject`.
EmitOutcome(c) ==
  /\ At(c, "sampling")
  /\ \/ /\ outcome[c] = "ok"
        /\ Push(c, Batch("request", "none", Goodput(c), GaugePushed(res[c])))
        /\ Goto(c, "exporting")
     \/ /\ outcome[c] # "ok"
        /\ Push(c, Batch("error", outcome[c], "none", FALSE))
        /\ Goto(c, "missing")
  /\ UNCHANGED <<req, exporting, tripped, res, outcome, record, sdkVars, flush, vuDone>>

\* Mutant: a failed call is left out of goodput when it timed out.
MissesNoTimeout(c) == req[c].slo /\ outcome[c] # "timeout"

\* emitGoodputMiss returns early without an SLO.
Misses(c) == req[c].slo

EmitGoodputMiss(c) ==
  /\ At(c, "missing")
  /\ \/ Misses(c) /\ Push(c, Batch("goodput", "none", "miss", FALSE))
     \/ ~Misses(c) /\ UNCHANGED samples
  /\ Goto(c, "exporting")
  /\ UNCHANGED <<req, exporting, tripped, res, outcome, record, sdkVars, flush, vuDone>>

\* Mutant: the call's error is left out of the record.
RecordWithoutError(c) == [error |-> "none", goodput |-> Goodput(c), made |-> TRUE]

\* A failed call's record is made from a fresh chatResult, whose SLO is nil.
RecordOf(c) ==
  IF outcome[c] = "ok"
  THEN [error |-> "none", goodput |-> Goodput(c), made |-> TRUE]
  ELSE [error |-> outcome[c], goodput |-> "none", made |-> TRUE]

\* exportGeneration: the record joins the SDK's queue, or the SDK refuses it
\* and the loss is counted.
ExportGeneration(c) ==
  /\ At(c, "exporting")
  /\ \/ /\ ~exporting
        /\ UNCHANGED <<samples, record, sdkVars>>
     \/ /\ exporting
        /\ record' = [record EXCEPT ![c] = RecordOf(c)]
        /\ \/ /\ Cardinality(queue) < QueueSize
              /\ queue' = queue \cup {c}
              /\ UNCHANGED <<samples, shipped, dropped, lost>>
           \/ /\ Cardinality(queue) = QueueSize
              /\ dropped' = dropped \cup {c}
              /\ Push(c, Batch("error", "export", "none", FALSE))
              /\ UNCHANGED <<queue, shipped, lost>>
  /\ Goto(c, "resolving")
  /\ UNCHANGED <<req, exporting, tripped, res, outcome, flush, vuDone>>

\* resolve and reject queue a callback on the event loop, which runs it when
\* the script lets it.
Settle(c) ==
  /\ At(c, "resolving") /\ ~flush.running /\ ~vuDone
  /\ Goto(c, "settled")
  /\ UNCHANGED <<req, exporting, tripped, res, outcome, samples, record, sdkVars, flush, vuDone>>

-----------------------------------------------------------------------------
(* Timers, the VU, flush and the SDK.                                      *)

\* Mutant: abort_after_ms counted from the response headers.
OnTheWireReading(c) == At(c, "reading")

\* From `start`, before send, to the end of the parser.
OnTheWire(c) == pc[c] \in {"sending", "reading"}

TimerFires(c, timer) ==
  /\ OnTheWire(c) /\ timer \notin tripped[c]
  /\ IF timer = "deadline" THEN req[c].deadline ELSE req[c].timeout
  /\ tripped' = [tripped EXCEPT ![c] = @ \cup {timer}]
  /\ UNCHANGED <<req, exporting, pc, res, outcome, samples, record, sdkVars, flush, vuDone>>

EndVU ==
  /\ ~vuDone
  /\ vuDone' = TRUE
  /\ UNCHANGED <<callVars, sdkVars, flush>>

\* flush() runs on the event loop and blocks it.
StartFlush ==
  /\ ~flush.running /\ ~vuDone /\ exporting
  /\ flush' = [running |-> TRUE, covers |-> queue]
  /\ UNCHANGED <<callVars, sdkVars, vuDone>>

\* Mutant: the SDK's timeout is dropped.
FlushResultIgnored == "ok"

\* c.a11y.Flush(ctx) returns the SDK's error, or ctx's when flushTimeout cuts it.
FlushResult == IF flush.covers \subseteq shipped THEN "ok" ELSE "error"

EndFlush ==
  /\ flush.running
  /\ flush' = NoFlush
  /\ UNCHANGED <<callVars, sdkVars, vuDone>>

\* The SDK's worker, on its interval or for a flush: the collector takes the
\* batch, or the SDK gives up on it.
SDKExports ==
  /\ queue # {}
  /\ queue' = {}
  /\ \/ shipped' = shipped \cup queue /\ UNCHANGED lost
     \/ lost' = lost \cup queue /\ UNCHANGED shipped
  /\ UNCHANGED <<callVars, dropped, flush, vuDone>>

-----------------------------------------------------------------------------

Init ==
  /\ req \in [Calls -> Requests] /\ exporting \in Exporting
  /\ pc = [c \in Calls |-> "idle"]
  /\ tripped = [c \in Calls |-> {}]
  /\ res = [c \in Calls |-> NoResult]
  /\ outcome = [c \in Calls |-> "none"]
  /\ samples = [c \in Calls |-> <<>>]
  /\ record = [c \in Calls |-> NoRecord]
  /\ queue = {} /\ shipped = {} /\ dropped = {} /\ lost = {}
  /\ flush = NoFlush
  /\ vuDone = FALSE

\* The call's goroutine.
Goroutine(c) ==
  \/ Build(c) \/ Send(c) \/ Reply(c)
  \/ EmitOutcome(c) \/ EmitGoodputMiss(c) \/ ExportGeneration(c)

\* The VU's context is done and its goroutines have ended.
Ended ==
  /\ vuDone /\ ~flush.running /\ queue = {}
  /\ \A c \in Calls : pc[c] \in {"idle", "resolving", "settled"}
  /\ UNCHANGED vars

Next ==
  \/ \E c \in Calls :
       \/ Chat(c) \/ Goroutine(c) \/ Settle(c)
       \/ \E timer \in {"timeout", "deadline"} : TimerFires(c, timer)
  \/ EndVU \/ StartFlush \/ EndFlush \/ SDKExports \/ Ended

\* A goroutine is scheduled, timers fire, a flush times out and the event loop
\* runs its callbacks.  The server owes an answer to nobody: Send and Reply
\* are fair only once the transport is cut off.
Fairness ==
  /\ WF_vars(EndFlush)
  /\ \A c \in Calls :
       /\ WF_vars(Build(c)) /\ WF_vars(Cut(c) /\ Send(c)) /\ WF_vars(Cut(c) /\ Reply(c))
       /\ WF_vars(EmitOutcome(c)) /\ WF_vars(EmitGoodputMiss(c))
       /\ WF_vars(ExportGeneration(c)) /\ SF_vars(Settle(c))
       /\ \A timer \in {"timeout", "deadline"} : WF_vars(TimerFires(c, timer))

Spec == Init /\ [][Next]_vars /\ Fairness

-----------------------------------------------------------------------------

Kinds ==
  {"network", "timeout", "http_4xx", "http_5xx", "stream", "decode", "unsupported"}

TypeOK ==
  /\ req \in [Calls -> Requests] /\ exporting \in Exporting
  /\ pc \in [Calls -> {"idle", "building", "sending", "reading", "sampling",
                       "missing", "exporting", "resolving", "settled"}]
  /\ tripped \in [Calls -> SUBSET {"timeout", "deadline"}]
  /\ res \in [Calls -> [aborted: BOOLEAN, quota: {"unset", "absent", "reported"},
                        allPass: BOOLEAN]]
  /\ outcome \in [Calls -> {"none", "ok"} \cup Kinds]
  /\ samples \in [Calls -> Seq([metric: {"request", "error", "goodput"},
                                type: {"none", "export"} \cup Kinds,
                                goodput: {"none", "hit", "miss"}, gauge: BOOLEAN])]
  /\ record \in [Calls -> [error: {"none"} \cup Kinds, goodput: {"none", "hit", "miss"},
                           made: BOOLEAN]]
  /\ queue \subseteq Calls /\ shipped \subseteq Calls
  /\ dropped \subseteq Calls /\ lost \subseteq Calls
  /\ flush \in [running: BOOLEAN, covers: SUBSET Calls]
  /\ vuDone \in BOOLEAN

\* The positions of the batches of a call that satisfy P.
Where(c, P(_)) == {i \in 1..Len(samples[c]) : P(samples[c][i])}

Outcomes(c) ==
  Where(c, LAMBDA b : b.metric = "request" \/ (b.metric = "error" /\ b.type # "export"))
Credits(c) == Where(c, LAMBDA b : b.goodput # "none")

Losses(c) == Where(c, LAMBDA b : b.metric = "error" /\ b.type = "export")

\* The records the SDK was handed.
Handed == queue \cup shipped \cup dropped \cup lost

\* When the script sees a call's promise settle, the call has been accounted for once
\* and only once: one request or one error sample, of the promise's own fate and kind.
\* A call that was made has besides one goodput sample exactly when an SLO applies, a
\* miss if the call failed; with a client that exports, one record handed to the SDK;
\* and one export error exactly when the SDK had no room for that record, whatever
\* the call's own fate.  A call that parseChatRequest refuses has its error sample
\* and none of these, which EveryCallCounted holds against the README
\* (client.go:400-433, agento11y.go:442-445).
AccountedOnce ==
  \A c \in Calls : pc[c] = "settled" /\ ~vuDone =>
    /\ \E i \in Outcomes(c) :
         /\ Outcomes(c) = {i}
         /\ samples[c][i].type = IF outcome[c] = "ok" THEN "none" ELSE outcome[c]
    /\ \E i \in Credits(c) \cup {0} :
         /\ Credits(c) = {i} \ {0}
         /\ (i # 0) = (req[c].slo /\ req[c].valid)
         /\ i # 0 /\ outcome[c] # "ok" => samples[c][i].goodput = "miss"
    /\ (c \in Handed) = (exporting /\ req[c].valid)
    /\ \E i \in Losses(c) \cup {0} : Losses(c) = {i} \ {0} /\ (i # 0) = (c \in dropped)

\* Wherever the VU's end falls between a goroutine's pushes, no goodput miss and no
\* export error is ever seen without the error or request it is about: the outcome is
\* a call's first batch, and its only one (client.go:413-430, metrics.go:247).
OutcomeComesFirst ==
  \A c \in Calls : \A i \in DOMAIN samples[c] : (i \in Outcomes(c)) = (i = 1)

\* The record a consumer of generations sees and the samples a dashboard sees
\* tell the same story: the same error, and for a call that succeeded the same
\* goodput verdict (client.go:250, agento11y.go:389 and 573).
RecordMatchesSamples ==
  \A c \in Calls : record[c].made /\ ~vuDone =>
    \A i \in Outcomes(c) :
      /\ record[c].error = samples[c][i].type
      /\ record[c].error = "none" => record[c].goodput = samples[c][i].goodput

\* A flush that returns without an error leaves no record of a settled call in
\* the queue, however many calls were in flight when it started
\* (agento11y.go:839).
FlushCoversSettled ==
  [][flush.running /\ ~flush'.running /\ FlushResult = "ok" =>
       \A c \in Calls : pc[c] = "settled" /\ req[c].valid =>
         c \in shipped \cup dropped \cup lost]_vars

\* Each call's reading gives one verdict, as ChatStream's does: an aborted call
\* had asked for the limit that cut it, unary calls too (client.go:737).
ReadingOf(c) ==
  INSTANCE StreamVerdict WITH
    Calls <- Requests, call <- req[c], ctxDone <- CtxDone(c),
    verdict <- CASE outcome[c] = "none" -> "none"
                 [] outcome[c] = "ok" -> IF res[c].aborted THEN "aborted" ELSE "complete"
                 [] OTHER -> "failed"

EachGivesOneVerdict ==
  /\ \A c \in Calls : ReadingOf(c)!Init
  /\ [][\A c \in Calls : [ReadingOf(c)!Next]_(ReadingOf(c)!vars)]_vars

\* A call with a timer settles, whatever the server does and whatever a flush
\* blocks meanwhile, unless the VU ends first.
TimedCallsSettle ==
  \A c \in Calls :
    (~At(c, "idle") /\ (req[c].timeout \/ req[c].deadline)) ~> (At(c, "settled") \/ vuDone)

\* README.md:79: "A failed or timed-out call counts as a miss"; README.md:210: "every
\* `chat()` call exports one generation record [...] including failed calls".  A call
\* that parseChatRequest refuses has failed, and has neither.
EveryCallCounted ==
  \A c \in Calls : pc[c] = "settled" /\ ~vuDone =>
    /\ req[c].slo => Credits(c) # {}
    /\ exporting => c \in Handed

\* client.go:250: "Both the k6 Rate samples and the Agent Observability goodput
\* metadata read this, so the two can never disagree".  They do for a call that
\* failed: the sample says miss, the record says nothing.
GoodputAgrees ==
  \A c \in Calls : record[c].made /\ ~vuDone =>
    \A i \in Credits(c) : record[c].goodput = samples[c][i].goodput

\* README.md:88: the rate-limit gauges are "Emitted only when the provider sends
\* the header".  An aborted unary call pushes the zero it was allocated with.
QuotaOnlyWhenSent ==
  \A c \in Calls : \A i \in Where(c, LAMBDA b : b.gauge) : res[c].quota = "reported"

=============================================================================
