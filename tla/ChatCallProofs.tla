--------------------------- MODULE ChatCallProofs ---------------------------
(***************************************************************************)
(* For any set of calls, of requests and any queue: a call is accounted    *)
(* for once in its samples, its record and its promise, its outcome comes  *)
(* first wherever the VU ends, a flush covers every settled call, and each *)
(* call implements StreamVerdict.                                          *)
(***************************************************************************)
EXTENDS ChatCall, SequenceTheorems, TLAPS

\* The batches a call pushes.
RequestBatch(c) == Batch("request", "none", Goodput(c), GaugePushed(res[c]))
ErrorBatch(c)   == Batch("error", outcome[c], "none", FALSE)
MissBatch       == Batch("goodput", "none", "miss", FALSE)
RefusedBatch    == Batch("error", "decode", "none", FALSE)
LossBatch       == Batch("error", "export", "none", FALSE)

\* What has been pushed once the call's outcome has.
Sampled(c) ==
  IF ~req[c].valid THEN <<RefusedBatch>>
  ELSE IF outcome[c] = "ok" THEN <<RequestBatch(c)>>
  ELSE IF req[c].slo THEN <<ErrorBatch(c), MissBatch>> ELSE <<ErrorBatch(c)>>

\* ... at each step of the call, in a VU that is not done.
SamplesAt(c) ==
  CASE pc[c] = "missing"   -> samples[c] = <<ErrorBatch(c)>>
    [] pc[c] = "exporting" -> samples[c] = Sampled(c)
    [] pc[c] \in {"resolving", "settled"} ->
         samples[c] = IF c \in dropped THEN Append(Sampled(c), LossBatch) ELSE Sampled(c)
    [] OTHER               -> samples[c] = <<>>

SamplesInv == ~vuDone => \A c \in Calls : SamplesAt(c)

\* A call has an outcome once it is read, and a refused one has its own.
StageInv ==
  \A c \in Calls :
    /\ (outcome[c] = "none") = (pc[c] \in {"idle", "building", "sending", "reading"})
    /\ pc[c] = "missing" => outcome[c] # "ok"
    /\ ~req[c].valid => pc[c] \in {"idle", "resolving", "settled"} /\ outcome[c] \in {"none", "decode"}

\* A record is the call's, and is made before the promise is settled.
RecordInv ==
  \A c \in Calls : record[c].made =>
    pc[c] \in {"resolving", "settled"} /\ req[c].valid /\ record[c] = RecordOf(c)

\* The SDK has the records of the calls that have exported theirs.
HeldInv ==
  \A c \in Calls :
    (c \in Handed) =
      (exporting /\ req[c].valid /\ pc[c] \in {"resolving", "settled"})

\* A flush covers what the settled calls have left in the queue.
FlushInv ==
  flush.running =>
    exporting /\ \A c \in Calls : pc[c] = "settled" /\ req[c].valid =>
                   c \in shipped \cup dropped \cup lost \cup flush.covers

IInv ==
  /\ TypeOK /\ StageInv /\ SamplesInv
  /\ RecordInv /\ HeldInv /\ FlushInv

-----------------------------------------------------------------------------
(* Types.                                                                  *)

Verdicts == {"none", "hit", "miss"}
Results == [aborted: BOOLEAN, quota: {"unset", "absent", "reported"}, allPass: BOOLEAN]
Batches == [metric: {"request", "error", "goodput"}, type: {"none", "export"} \cup Kinds,
            goodput: Verdicts, gauge: BOOLEAN]
Records == [error: {"none"} \cup Kinds, goodput: Verdicts, made: BOOLEAN]

\* TypeOK in three parts: the call's progress, its data, and what it shares.
CallTypes ==
  /\ req \in [Calls -> Requests] /\ exporting \in Exporting
  /\ pc \in [Calls -> {"idle", "building", "sending", "reading", "sampling",
                       "missing", "exporting", "resolving", "settled"}]
  /\ tripped \in [Calls -> SUBSET {"timeout", "deadline"}]
  /\ outcome \in [Calls -> {"none", "ok"} \cup Kinds]
DataTypes ==
  /\ res \in [Calls -> Results]
  /\ samples \in [Calls -> Seq(Batches)]
  /\ record \in [Calls -> Records]
SDKTypes ==
  /\ queue \subseteq Calls /\ shipped \subseteq Calls
  /\ dropped \subseteq Calls /\ lost \subseteq Calls
  /\ flush \in [running: BOOLEAN, covers: SUBSET Calls]
  /\ vuDone \in BOOLEAN

LEMMA Types == TypeOK <=> CallTypes /\ DataTypes /\ SDKTypes
BY DEF TypeOK, CallTypes, DataTypes, SDKTypes, Results, Batches, Records, Verdicts

LEMMA TypesNext == CallTypes' /\ DataTypes' /\ SDKTypes' => TypeOK'
BY DEF TypeOK, CallTypes, DataTypes, SDKTypes, Results, Batches, Records, Verdicts

LEMMA AppendSecond == ASSUME NEW a, NEW b  PROVE Append(<<a>>, b) = <<a, b>>
<1>1. <<a>> \in Seq({a, b}) /\ <<a, b>> \in Seq({a, b})
  OBVIOUS
<1>2. Append(<<a>>, b) \in Seq({a, b}) /\ Len(Append(<<a>>, b)) = 2
  BY <1>1
<1>3. Append(<<a>>, b)[1] = a /\ Append(<<a>>, b)[2] = b
  BY <1>1
<1>4. Len(<<a, b>>) = 2 /\ \A i \in 1..2 : Append(<<a>>, b)[i] = <<a, b>>[i]
  BY <1>3
<1>. QED BY <1>1, <1>2, <1>4, SeqEqual

LEMMA AppendThird == ASSUME NEW a, NEW b, NEW c  PROVE Append(<<a, b>>, c) = <<a, b, c>>
<1>1. <<a, b>> \in Seq({a, b, c}) /\ <<a, b, c>> \in Seq({a, b, c})
  OBVIOUS
<1>2. Append(<<a, b>>, c) \in Seq({a, b, c}) /\ Len(Append(<<a, b>>, c)) = 3
  BY <1>1
<1>3. Append(<<a, b>>, c)[1] = a /\ Append(<<a, b>>, c)[2] = b /\ Append(<<a, b>>, c)[3] = c
  BY <1>1
<1>4. Len(<<a, b, c>>) = 3 /\ \A i \in 1..3 : Append(<<a, b>>, c)[i] = <<a, b, c>>[i]
  BY <1>3
<1>. QED BY <1>1, <1>2, <1>4, SeqEqual

\* What the sample sequences of two and of three batches hold.
LEMMA TwoOf ==
  ASSUME NEW s, NEW a, NEW b, s = <<a, b>>
  PROVE  /\ Len(s) = 2 /\ s[1] = a /\ s[2] = b
         /\ \A i \in 1..Len(s) : i = 1 \/ i = 2
<1>1. Len(s) = 2 /\ s[1] = a /\ s[2] = b
  OBVIOUS
<1>2. \A i \in 1..2 : i = 1 \/ i = 2
  OBVIOUS
<1>. QED BY <1>1, <1>2, Zenon

LEMMA ThreeOf ==
  ASSUME NEW s, NEW a, NEW b, NEW d, s = <<a, b, d>>
  PROVE  /\ Len(s) = 3 /\ s[1] = a /\ s[2] = b /\ s[3] = d
         /\ \A i \in 1..Len(s) : i = 1 \/ i = 2 \/ i = 3
<1>1. Len(s) = 3 /\ s[1] = a /\ s[2] = b /\ s[3] = d
  OBVIOUS
<1>2. \A i \in 1..3 : i = 1 \/ i = 2 \/ i = 3
  OBVIOUS
<1>. QED BY <1>1, <1>2, Zenon

\* Every verdict and batch is one the metrics know.
LEMMA GoodputType == ASSUME NEW c \in Calls  PROVE Goodput(c) \in Verdicts
BY DEF Goodput, Verdicts

LEMMA BatchType ==
  ASSUME NEW m \in {"request", "error", "goodput"}, NEW t \in {"none", "export"} \cup Kinds,
         NEW g \in Verdicts, NEW u \in BOOLEAN
  PROVE  Batch(m, t, g, u) \in Batches
BY DEF Batch, Batches

LEMMA PushType ==
  ASSUME samples \in [Calls -> Seq(Batches)], NEW c \in Calls, NEW b \in Batches, Push(c, b)
  PROVE  samples' \in [Calls -> Seq(Batches)]
<1>1. Append(samples[c], b) \in Seq(Batches)
  OBVIOUS
<1>. QED BY <1>1 DEF Push

LEMMA RecordType ==
  ASSUME CallTypes, NEW c \in Calls, outcome[c] # "none"
  PROVE  RecordOf(c) \in Records
<1>1. CASE outcome[c] = "ok"
  BY <1>1, GoodputType DEF RecordOf, Records
<1>2. CASE outcome[c] # "ok"
  <2>1. outcome[c] \in Kinds
    BY <1>2 DEF CallTypes
  <2>. QED BY <1>2, <2>1 DEF RecordOf, Records, Verdicts
<1>. QED BY <1>1, <1>2

-----------------------------------------------------------------------------

\* The invariant holds at the start.
LEMMA InitInv == Init => IInv
<1>. SUFFICES ASSUME Init  PROVE IInv
  OBVIOUS
<1>. USE CallAssumption
<1>1. TypeOK
  <2>1. CallTypes
    BY DEF Init, CallTypes
  <2>2. DataTypes
    <3>1. NoResult \in Results /\ NoRecord \in Records /\ <<>> \in Seq(Batches)
      BY DEF NoResult, Results, NoRecord, Records, Verdicts
    <3>. QED BY <3>1 DEF Init, DataTypes
  <2>3. SDKTypes
    BY DEF Init, SDKTypes, NoFlush
  <2>. QED BY <2>1, <2>2, <2>3, Types
<1>2. StageInv
  BY DEF Init, StageInv
<1>4. SamplesInv
  BY DEF Init, SamplesInv, SamplesAt
<1>5. RecordInv
  BY DEF Init, RecordInv, NoRecord
<1>6. HeldInv
  BY DEF Init, HeldInv, Handed
<1>7. FlushInv
  BY DEF Init, FlushInv, NoFlush
<1>. QED BY <1>1, <1>2, <1>4, <1>5, <1>6, <1>7 DEF IInv

-----------------------------------------------------------------------------
(* doChat: the samples, the record and the SDK are not touched, and the    *)
(* call comes nearer to its outcome.                                       *)

\* A step of doChat: on to the next stage, or an outcome.
DoChatStep(c) ==
  /\ \/ pc' = [pc EXCEPT ![c] = "sending"] /\ UNCHANGED <<outcome, res>>
     \/ pc' = [pc EXCEPT ![c] = "reading"] /\ UNCHANGED <<outcome, res>>
     \/ /\ pc' = [pc EXCEPT ![c] = "sampling"]
        /\ \E o \in {"ok"} \cup Kinds, r \in Results :
             /\ outcome' = [outcome EXCEPT ![c] = o] /\ res' = [res EXCEPT ![c] = r]
             /\ o = "ok" /\ r.aborted => MayAbort(c)

LEMMA FailSteps ==
  ASSUME TypeOK, NEW c \in Calls, NEW kind \in Kinds, Fail(c, kind)
  PROVE  DoChatStep(c)
<1>1. res[c] \in Results /\ res = [res EXCEPT ![c] = res[c]]
  BY Types DEF DataTypes
<1>2. kind # "ok"
  BY DEF Kinds
<1>3. \E o \in {"ok"} \cup Kinds, r \in Results :
        /\ outcome' = [outcome EXCEPT ![c] = o] /\ res' = [res EXCEPT ![c] = r]
        /\ o = "ok" /\ r.aborted => MayAbort(c)
  <2>. res[c] \in Results
    BY <1>1
  <2>. WITNESS kind \in {"ok"} \cup Kinds, res[c] \in Results
  <2>. QED BY <1>1, <1>2 DEF Fail
<1>. QED BY <1>3 DEF Fail, Goto, DoChatStep

LEMMA SucceedSteps ==
  ASSUME NEW c \in Calls, NEW aborted \in BOOLEAN,
         NEW quota \in {"unset", "absent", "reported"}, Succeed(c, aborted, quota),
         aborted => MayAbort(c)
  PROVE  DoChatStep(c)
<1>1. PICK pass \in BOOLEAN :
        res' = [res EXCEPT ![c] = [aborted |-> aborted, quota |-> quota, allPass |-> pass]]
  BY DEF Succeed
<1>. DEFINE result == [aborted |-> aborted, quota |-> quota, allPass |-> pass]
<1>2. result \in Results /\ result.aborted = aborted
  BY DEF Results
<1>3. \E o \in {"ok"} \cup Kinds, r \in Results :
        /\ outcome' = [outcome EXCEPT ![c] = o] /\ res' = [res EXCEPT ![c] = r]
        /\ o = "ok" /\ r.aborted => MayAbort(c)
  <2>. result \in Results
    BY <1>2
  <2>. WITNESS "ok" \in {"ok"} \cup Kinds, result \in Results
  <2>. QED BY <1>1, <1>2 DEF Succeed
<1>. QED BY <1>3 DEF Succeed, Goto, DoChatStep

LEMMA TransportKind == TransportKinds \subseteq Kinds
BY DEF TransportKinds, Kinds

LEMMA DoChatSteps ==
  ASSUME TypeOK, NEW c \in Calls, Build(c) \/ Send(c) \/ Reply(c)
  PROVE  /\ DoChatStep(c) /\ DoChatFrame
         /\ pc[c] \in {"building", "sending", "reading"}
<1>1. CASE Build(c)
  <2>1. CASE req[c].supported
    BY <1>1, <2>1 DEF Build, At, Goto, DoChatStep
  <2>2. CASE ~req[c].supported
    <3>1. PICK kind \in BuildFailures : Fail(c, kind)
      BY <1>1, <2>2 DEF Build
    <3>2. kind \in Kinds
      BY DEF BuildFailures, Kinds
    <3>. QED BY <1>1, <3>1, <3>2, FailSteps DEF Build, At
  <2>. QED BY <2>1, <2>2
<1>2. CASE Send(c)
  <2>1. CASE Goto(c, "reading") /\ UNCHANGED <<outcome, res>>
    BY <1>2, <2>1 DEF Send, At, Goto, DoChatStep
  <2>2. ASSUME NEW kind \in {"http_4xx", "http_5xx"} \cup TransportKinds, Fail(c, kind)
        PROVE  DoChatStep(c)
    <3>1. kind \in Kinds
      BY TransportKind DEF Kinds
    <3>. QED BY <2>2, <3>1, FailSteps
  <2>. QED BY <1>2, <2>1, <2>2 DEF Send, At
<1>3. CASE Reply(c)
  <2>. SUFFICES DoChatStep(c)
    BY <1>3 DEF Reply, At
  <2>1. ASSUME NEW aborted \in BOOLEAN, NEW quota \in HeaderQuotas \cup {"unset"},
               Succeed(c, aborted, quota), aborted => MayAbort(c)
        PROVE  DoChatStep(c)
    <3>1. quota \in {"unset", "absent", "reported"}
      BY DEF HeaderQuotas
    <3>. QED BY <2>1, <3>1, SucceedSteps
  <2>2. ASSUME NEW kind \in {"decode", "stream"} \cup TransportKinds, Fail(c, kind)
        PROVE  DoChatStep(c)
    <3>1. kind \in Kinds
      BY TransportKind DEF Kinds
    <3>. QED BY <2>2, <3>1, FailSteps
  <2>3. CASE UnaryReply(c)
    <3>1. CASE \E quota \in HeaderQuotas : Succeed(c, FALSE, quota)
      BY <2>1, <3>1
    <3>2. CASE UnaryAbort(c) /\ Succeed(c, TRUE, "unset")
      BY <2>1, <3>2 DEF UnaryAbort, MayAbort
    <3>3. CASE Fail(c, "decode") \/ \E kind \in TransportKinds : Fail(c, kind)
      BY <2>2, <3>3
    <3>. QED BY <2>3, <3>1, <3>2, <3>3 DEF UnaryReply
  <2>4. CASE StreamReply(c)
    <3>1. CASE \E quota \in HeaderQuotas : Succeed(c, FALSE, quota)
      BY <2>1, <3>1
    <3>2. CASE MayAbort(c) /\ \E quota \in HeaderQuotas : Succeed(c, TRUE, quota)
      BY <2>1, <3>2
    <3>3. CASE Fail(c, "stream")
      BY <2>2, <3>3
    <3>. QED BY <2>4, <3>1, <3>2, <3>3 DEF StreamReply
  <2>. QED BY <1>3, <2>3, <2>4 DEF Reply
<1>. QED BY <1>1, <1>2, <1>3

\* What the invariant says of a call rests on the call's own state.
LEMMA SameCall ==
  ASSUME NEW d \in Calls, req' = req, pc'[d] = pc[d], outcome'[d] = outcome[d],
         res'[d] = res[d], (d \in dropped)' <=> d \in dropped
  PROVE  /\ RecordOf(d)' = RecordOf(d)
         /\ samples'[d] = samples[d] => (SamplesAt(d)' <=> SamplesAt(d))
<1>1. Goodput(d)' = Goodput(d)
  BY DEF Goodput
<1>2. RecordOf(d)' = RecordOf(d)
  BY <1>1 DEF RecordOf
<1>3. RequestBatch(d)' = RequestBatch(d) /\ ErrorBatch(d)' = ErrorBatch(d)
  BY <1>1 DEF RequestBatch, ErrorBatch, Batch, GaugePushed
<1>4. Sampled(d)' = Sampled(d)
  BY <1>3 DEF Sampled, RefusedBatch, MissBatch, Batch
<1>5. ASSUME samples'[d] = samples[d]  PROVE SamplesAt(d)' <=> SamplesAt(d)
  BY <1>3, <1>4, <1>5 DEF SamplesAt, LossBatch, Batch
<1>. QED BY <1>2, <1>5

\* A step that moves one call and leaves the SDK and the flush alone, to a stage
\* before its record or from there to the settled promise.
LEMMA CallInv ==
  ASSUME IInv, NEW c \in Calls, NEW to,
         UNCHANGED <<req, exporting, record, sdkVars, flush, vuDone>>,
         pc' = [pc EXCEPT ![c] = to],
         \A d \in Calls \ {c} : outcome'[d] = outcome[d] /\ res'[d] = res[d] /\ samples'[d] = samples[d],
         TypeOK', StageInv',
         ~vuDone => SamplesAt(c)',
         \/ pc[c] \notin {"resolving", "settled"} /\ (to \notin {"resolving", "settled"} \/ ~req[c].valid)
         \/ pc[c] = "resolving" /\ to = "settled" /\ UNCHANGED <<outcome, res>> /\ ~flush.running
  PROVE  IInv'
<1>0. pc'[c] = to /\ \A d \in Calls \ {c} : pc'[d] = pc[d]
  BY DEF IInv, TypeOK
<1>1. \A d \in Calls \ {c} : RecordOf(d)' = RecordOf(d) /\ (SamplesAt(d)' <=> SamplesAt(d))
  BY <1>0, SameCall DEF sdkVars
<1>2. SamplesInv'
  BY <1>1 DEF SamplesInv, IInv
<1>3. RecordInv'
  <2>. SUFFICES ASSUME NEW d \in Calls, record[d].made
                PROVE  pc'[d] \in {"resolving", "settled"} /\ req[d].valid /\ record[d] = RecordOf(d)'
    BY DEF RecordInv
  <2>1. pc[d] \in {"resolving", "settled"} /\ req[d].valid /\ record[d] = RecordOf(d)
    BY DEF IInv, RecordInv
  <2>2. CASE d # c
    BY <1>0, <1>1, <2>1, <2>2
  <2>3. CASE d = c
    <3>1. pc[c] = "resolving" /\ to = "settled" /\ UNCHANGED <<outcome, res>>
      BY <2>1, <2>3
    <3>2. RecordOf(c)' = RecordOf(c)
      BY <3>1 DEF RecordOf, Goodput
    <3>. QED BY <1>0, <2>1, <2>3, <3>1, <3>2
  <2>. QED BY <2>2, <2>3
<1>4. HeldInv'
  BY <1>0 DEF HeldInv, Handed, IInv, sdkVars
<1>5. FlushInv'
  <2>1. CASE to = "settled" /\ req[c].valid
    BY <2>1 DEF FlushInv
  <2>2. CASE to # "settled" \/ ~req[c].valid
    BY <1>0, <2>2 DEF FlushInv, IInv, sdkVars
  <2>. QED BY <2>1, <2>2
<1>. QED BY <1>2, <1>3, <1>4, <1>5 DEF IInv

\* doChat.
LEMMA DoChatInv ==
  ASSUME IInv, NEW c \in Calls, Build(c) \/ Send(c) \/ Reply(c)
  PROVE  IInv'
<1>0. DoChatStep(c) /\ UNCHANGED <<req, exporting, tripped, samples, record, sdkVars, flush, vuDone>>
      /\ pc[c] \in {"building", "sending", "reading"}
  BY DoChatSteps DEF IInv, DoChatFrame
<1>1. PICK to \in {"sending", "reading", "sampling"} : pc' = [pc EXCEPT ![c] = to]
  BY <1>0 DEF DoChatStep
<1>2. CallTypes /\ DataTypes /\ SDKTypes
  BY Types DEF IInv
<1>3. /\ outcome' \in [Calls -> {"none", "ok"} \cup Kinds]
      /\ res' \in [Calls -> Results]
      /\ \A d \in Calls \ {c} : outcome'[d] = outcome[d] /\ res'[d] = res[d]
      /\ (outcome'[c] = "none") = (to \in {"sending", "reading"})
  <2>1. CASE UNCHANGED <<outcome, res>> /\ to # "sampling"
    <3>1. outcome[c] = "none"
      BY <1>0 DEF IInv, StageInv
    <3>. QED BY <1>2, <2>1, <3>1 DEF CallTypes, DataTypes
  <2>2. CASE /\ to = "sampling"
             /\ \E o \in {"ok"} \cup Kinds, r \in Results :
                  outcome' = [outcome EXCEPT ![c] = o] /\ res' = [res EXCEPT ![c] = r]
    <3>1. PICK o \in {"ok"} \cup Kinds, r \in Results :
            outcome' = [outcome EXCEPT ![c] = o] /\ res' = [res EXCEPT ![c] = r]
      BY <2>2
    <3>2. o # "none"
      BY DEF Kinds
    <3>. QED BY <1>2, <2>2, <3>1, <3>2 DEF CallTypes, DataTypes
  <2>3. pc'[c] = to
    BY <1>1, <1>2 DEF CallTypes
  <2>. QED BY <1>0, <1>1, <1>2, <2>1, <2>2, <2>3 DEF DoChatStep, CallTypes
<1>4. TypeOK'
  <2>1. CallTypes'  BY <1>0, <1>1, <1>2, <1>3 DEF CallTypes
  <2>2. DataTypes'  BY <1>0, <1>2, <1>3 DEF DataTypes
  <2>3. SDKTypes'   BY <1>0, <1>2 DEF SDKTypes, sdkVars
  <2>. QED BY <2>1, <2>2, <2>3, TypesNext
<1>5. StageInv'
  BY <1>0, <1>1, <1>2, <1>3 DEF IInv, StageInv, CallTypes
<1>7. ASSUME ~vuDone  PROVE SamplesAt(c)'
  <2>1. samples'[c] = <<>>
    BY <1>0, <1>7 DEF IInv, SamplesInv, SamplesAt
  <2>2. pc'[c] = to
    BY <1>1, <1>2 DEF CallTypes
  <2>. QED BY <2>1, <2>2 DEF SamplesAt
<1>8. to \notin {"resolving", "settled"} /\ pc[c] \notin {"resolving", "settled"}
  BY <1>0
<1>. QED BY <1>0, <1>1, <1>3, <1>4, <1>5, <1>7, <1>8, CallInv

\* The synchronous half: a refused request has its error sample and no record.
LEMMA ChatInv ==
  ASSUME IInv, NEW c \in Calls, Chat(c)
  PROVE  IInv'
<1>0. pc[c] = "idle" /\ ~vuDone
      /\ UNCHANGED <<req, exporting, tripped, res, record, sdkVars, flush, vuDone>>
  BY DEF Chat, At
<1>1. CallTypes /\ DataTypes /\ SDKTypes
  BY Types DEF IInv
<1>2. samples[c] = <<>> /\ outcome[c] = "none"
  BY <1>0 DEF IInv, SamplesInv, SamplesAt, StageInv
<1>3. CASE req[c].valid
  <2>1. pc' = [pc EXCEPT ![c] = "building"] /\ UNCHANGED <<outcome, samples>>
    BY <1>3 DEF Chat, Goto
  <2>2. TypeOK'
    <3>1. CallTypes'  BY <1>0, <1>1, <2>1 DEF CallTypes
    <3>2. DataTypes'  BY <1>0, <1>1, <2>1 DEF DataTypes
    <3>3. SDKTypes'   BY <1>0, <1>1 DEF SDKTypes, sdkVars
    <3>. QED BY <3>1, <3>2, <3>3, TypesNext
  <2>3. StageInv'
    BY <1>0, <1>1, <1>2, <1>3, <2>1 DEF IInv, StageInv, CallTypes
  <2>5. SamplesAt(c)'
    BY <1>1, <1>2, <2>1 DEF SamplesAt, CallTypes
  <2>. QED BY <1>0, <2>1, <2>2, <2>3, <2>5, CallInv
<1>4. CASE ~req[c].valid
  <2>1. /\ pc' = [pc EXCEPT ![c] = "resolving"]
        /\ outcome' = [outcome EXCEPT ![c] = "decode"]
        /\ Push(c, RefusedBatch)
    BY <1>4 DEF Chat, Goto, RefusedBatch
  <2>2. TypeOK'
    <3>1. CallTypes'  BY <1>0, <1>1, <2>1 DEF CallTypes, Kinds
    <3>2. DataTypes'
      <4>1. RefusedBatch \in Batches
        BY BatchType DEF RefusedBatch, Kinds, Verdicts
      <4>2. samples' \in [Calls -> Seq(Batches)]
        BY <1>1, <2>1, <4>1, PushType DEF DataTypes
      <4>. QED BY <1>0, <1>1, <4>2 DEF DataTypes
    <3>3. SDKTypes'   BY <1>0, <1>1 DEF SDKTypes, sdkVars
    <3>. QED BY <3>1, <3>2, <3>3, TypesNext
  <2>3. StageInv'
    BY <1>0, <1>1, <1>2, <1>4, <2>1 DEF IInv, StageInv, CallTypes
  <2>5. SamplesAt(c)' /\ \A d \in Calls \ {c} : samples'[d] = samples[d]
    <3>1. samples' = [samples EXCEPT ![c] = <<RefusedBatch>>]
      BY <1>0, <1>2, <2>1 DEF Push
    <3>2. samples'[c] = <<RefusedBatch>> /\ pc'[c] = "resolving" /\ req' = req
      BY <1>0, <1>1, <2>1, <3>1 DEF CallTypes, DataTypes
    <3>3. Sampled(c)' = <<RefusedBatch>>
      BY <1>4, <3>2 DEF Sampled, RefusedBatch, Batch
    <3>4. SamplesAt(c)'
      <4>1. c \notin dropped'
        BY <1>0, <1>4 DEF IInv, HeldInv, Handed, sdkVars
      <4>. QED BY <3>2, <3>3, <4>1 DEF SamplesAt
    <3>. QED BY <1>1, <3>1, <3>4 DEF DataTypes
  <2>6. \A d \in Calls \ {c} : outcome'[d] = outcome[d] /\ res'[d] = res[d]
    BY <1>0, <1>1, <2>1 DEF CallTypes
  <2>. QED BY <1>0, <1>4, <2>1, <2>2, <2>3, <2>5, <2>6, CallInv
<1>. QED BY <1>3, <1>4

\* emit or emitError.
LEMMA EmitOutcomeInv ==
  ASSUME IInv, NEW c \in Calls, EmitOutcome(c)
  PROVE  IInv'
<1>0. pc[c] = "sampling"
      /\ UNCHANGED <<req, exporting, tripped, res, outcome, record, sdkVars, flush, vuDone>>
  BY DEF EmitOutcome, At
<1>1. CallTypes /\ DataTypes /\ SDKTypes
  BY Types DEF IInv
<1>2. outcome[c] \in {"ok"} \cup Kinds /\ req[c].valid
  BY <1>0, <1>1 DEF IInv, StageInv, CallTypes
<1>3. PICK b \in Batches, to \in {"exporting", "missing"} :
        /\ Push(c, b) /\ pc' = [pc EXCEPT ![c] = to]
        /\ outcome[c] = "ok" => b = RequestBatch(c) /\ to = "exporting"
        /\ outcome[c] # "ok" => b = ErrorBatch(c) /\ to = "missing"
  <2>1. CASE outcome[c] = "ok"
    <3>1. GaugePushed(res[c]) \in BOOLEAN
      BY DEF GaugePushed
    <3>2. RequestBatch(c) \in Batches
      BY <3>1, GoodputType, BatchType DEF RequestBatch
    <3>3. Push(c, RequestBatch(c)) /\ pc' = [pc EXCEPT ![c] = "exporting"]
      BY <2>1 DEF EmitOutcome, RequestBatch, Goto
    <3>. QED BY <2>1, <3>2, <3>3
  <2>2. CASE outcome[c] # "ok"
    <3>1. outcome[c] \in {"none", "export"} \cup Kinds
      BY <1>2, <2>2
    <3>2. ErrorBatch(c) \in Batches
      BY <3>1, BatchType DEF ErrorBatch, Verdicts
    <3>3. Push(c, ErrorBatch(c)) /\ pc' = [pc EXCEPT ![c] = "missing"]
      BY <2>2 DEF EmitOutcome, ErrorBatch, Goto
    <3>. QED BY <2>2, <3>2, <3>3
  <2>. QED BY <2>1, <2>2
<1>4. TypeOK'
  <2>1. CallTypes'  BY <1>0, <1>1, <1>3 DEF CallTypes
  <2>2. DataTypes'
    <3>1. samples' \in [Calls -> Seq(Batches)]
      BY <1>1, <1>3, PushType DEF DataTypes
    <3>. QED BY <1>0, <1>1, <3>1 DEF DataTypes
  <2>3. SDKTypes'   BY <1>0, <1>1 DEF SDKTypes, sdkVars
  <2>. QED BY <2>1, <2>2, <2>3, TypesNext
<1>5. StageInv'
  BY <1>0, <1>1, <1>2, <1>3 DEF IInv, StageInv, CallTypes
<1>7. \A d \in Calls \ {c} : samples'[d] = samples[d]
  BY <1>1, <1>3 DEF Push, DataTypes
<1>8. ASSUME ~vuDone  PROVE SamplesAt(c)'
  <2>1. samples[c] = <<>>
    BY <1>0, <1>8 DEF IInv, SamplesInv, SamplesAt
  <2>2. samples'[c] = <<b>>
    BY <1>1, <1>3, <1>8, <2>1 DEF Push, DataTypes
  <2>3. pc'[c] = to
    BY <1>1, <1>3 DEF CallTypes
  <2>4. RequestBatch(c)' = RequestBatch(c) /\ ErrorBatch(c)' = ErrorBatch(c)
    BY <1>0 DEF RequestBatch, ErrorBatch, Batch, Goodput, GaugePushed
  <2>5. CASE outcome[c] = "ok"
    <3>1. Sampled(c)' = <<b>>
      BY <1>0, <1>2, <1>3, <2>4, <2>5 DEF Sampled
    <3>. QED BY <1>3, <2>2, <2>3, <2>5, <3>1 DEF SamplesAt
  <2>6. CASE outcome[c] # "ok"
    BY <1>3, <2>2, <2>3, <2>4, <2>6 DEF SamplesAt
  <2>. QED BY <2>5, <2>6
<1>9. pc[c] \notin {"resolving", "settled"} /\ to \notin {"resolving", "settled"}
  BY <1>0
<1>. QED BY <1>0, <1>3, <1>4, <1>5, <1>7, <1>8, <1>9, CallInv

\* emitGoodputMiss.
LEMMA EmitGoodputMissInv ==
  ASSUME IInv, NEW c \in Calls, EmitGoodputMiss(c)
  PROVE  IInv'
<1>0. pc[c] = "missing" /\ pc' = [pc EXCEPT ![c] = "exporting"]
      /\ UNCHANGED <<req, exporting, tripped, res, outcome, record, sdkVars, flush, vuDone>>
  BY DEF EmitGoodputMiss, At, Goto
<1>1. CallTypes /\ DataTypes /\ SDKTypes
  BY Types DEF IInv
<1>2. outcome[c] # "ok" /\ outcome[c] # "none" /\ req[c].valid
  BY <1>0 DEF IInv, StageInv
<1>3. \/ req[c].slo /\ Push(c, MissBatch)
      \/ ~req[c].slo /\ UNCHANGED samples
  BY DEF EmitGoodputMiss, Misses, MissBatch
<1>4. samples' \in [Calls -> Seq(Batches)] /\ \A d \in Calls \ {c} : samples'[d] = samples[d]
  <2>1. MissBatch \in Batches
    BY BatchType DEF MissBatch, Verdicts
  <2>2. CASE Push(c, MissBatch)
    BY <1>1, <2>1, <2>2, PushType DEF Push, DataTypes
  <2>. QED BY <1>1, <1>3, <2>2 DEF DataTypes
<1>5. TypeOK'
  <2>1. CallTypes'  BY <1>0, <1>1 DEF CallTypes
  <2>2. DataTypes'  BY <1>0, <1>1, <1>4 DEF DataTypes
  <2>3. SDKTypes'   BY <1>0, <1>1 DEF SDKTypes, sdkVars
  <2>. QED BY <2>1, <2>2, <2>3, TypesNext
<1>6. StageInv'
  BY <1>0, <1>1, <1>2 DEF IInv, StageInv, CallTypes
<1>8. ASSUME ~vuDone  PROVE SamplesAt(c)'
  <2>1. samples[c] = <<ErrorBatch(c)>>
    BY <1>0, <1>8 DEF IInv, SamplesInv, SamplesAt
  <2>2. pc'[c] = "exporting" /\ ErrorBatch(c)' = ErrorBatch(c) /\ MissBatch' = MissBatch
    BY <1>0, <1>1 DEF CallTypes, ErrorBatch, MissBatch, Batch
  <2>3. samples'[c] = IF req[c].slo THEN <<ErrorBatch(c), MissBatch>> ELSE <<ErrorBatch(c)>>
    <3>1. CASE req[c].slo
      <4>1. samples'[c] = Append(samples[c], MissBatch)
        BY <1>1, <1>3, <1>8, <3>1 DEF Push, DataTypes
      <4>2. Append(<<ErrorBatch(c)>>, MissBatch) = <<ErrorBatch(c), MissBatch>>
        BY AppendSecond
      <4>. QED BY <2>1, <3>1, <4>1, <4>2
    <3>2. CASE ~req[c].slo
      BY <1>3, <2>1, <3>2
    <3>. QED BY <3>1, <3>2
  <2>4. Sampled(c)' = samples'[c]
    BY <1>0, <1>2, <2>2, <2>3 DEF Sampled
  <2>. QED BY <2>2, <2>4 DEF SamplesAt
<1>. QED BY <1>0, <1>4, <1>5, <1>6, <1>8, CallInv

\* exportGeneration: the SDK has the record, or counts its loss.
LEMMA ExportInv ==
  ASSUME IInv, NEW c \in Calls, ExportGeneration(c)
  PROVE  IInv'
<1>0. pc[c] = "exporting" /\ pc' = [pc EXCEPT ![c] = "resolving"]
      /\ UNCHANGED <<req, exporting, tripped, res, outcome, flush, vuDone>>
  BY DEF ExportGeneration, At, Goto
<1>1. CallTypes /\ DataTypes /\ SDKTypes
  BY Types DEF IInv
<1>2. outcome[c] # "none" /\ req[c].valid
  BY <1>0 DEF IInv, StageInv
<1>3. /\ record' = record \/ record' = [record EXCEPT ![c] = RecordOf(c)]
      /\ \/ samples' = samples /\ dropped' = dropped
         \/ Push(c, LossBatch) /\ dropped' = dropped \cup {c}
      /\ Handed' = Handed \cup (IF exporting THEN {c} ELSE {})
      /\ queue \subseteq queue' /\ queue' \subseteq queue \cup {c}
      /\ shipped' = shipped /\ lost' = lost
  <2>1. CASE ~exporting
    BY <2>1 DEF ExportGeneration, sdkVars, Handed
  <2>2. CASE exporting /\ queue' = queue \cup {c} /\ UNCHANGED <<samples, shipped, dropped, lost>>
    BY <2>2 DEF ExportGeneration, Handed
  <2>3. CASE exporting /\ dropped' = dropped \cup {c} /\ Push(c, LossBatch) /\ UNCHANGED <<queue, shipped, lost>>
    BY <2>3 DEF ExportGeneration, Handed
  <2>. QED BY <2>1, <2>2, <2>3 DEF ExportGeneration, LossBatch
<1>4. samples' \in [Calls -> Seq(Batches)] /\ \A d \in Calls \ {c} : samples'[d] = samples[d]
  <2>1. LossBatch \in Batches
    BY BatchType DEF LossBatch, Verdicts
  <2>2. CASE Push(c, LossBatch)
    BY <1>1, <2>1, <2>2, PushType DEF Push, DataTypes
  <2>. QED BY <1>1, <1>3, <2>2 DEF DataTypes
<1>5. /\ record' \in [Calls -> Records]
      /\ \A d \in Calls \ {c} : record'[d] = record[d]
      /\ record'[c] = record[c] \/ record'[c] = RecordOf(c)
  <2>1. RecordOf(c) \in Records
    BY <1>1, <1>2, RecordType
  <2>. QED BY <1>1, <1>3, <2>1 DEF DataTypes
<1>6. pc'[c] = "resolving" /\ \A d \in Calls \ {c} : pc'[d] = pc[d]
  BY <1>0, <1>1 DEF CallTypes
<1>7. TypeOK'
  <2>1. CallTypes'  BY <1>0, <1>1 DEF CallTypes
  <2>2. DataTypes'  BY <1>0, <1>1, <1>4, <1>5 DEF DataTypes
  <2>3. SDKTypes'   BY <1>0, <1>1, <1>3 DEF SDKTypes
  <2>. QED BY <2>1, <2>2, <2>3, TypesNext
<1>8. StageInv'
  BY <1>0, <1>2, <1>6 DEF IInv, StageInv
<1>10. \A d \in Calls : RecordOf(d)' = RecordOf(d)
  BY <1>0 DEF RecordOf, Goodput
<1>11. SamplesInv'
  <2>. SUFFICES ASSUME ~vuDone, NEW d \in Calls  PROVE SamplesAt(d)'
    BY <1>0 DEF SamplesInv
  <2>1. CASE d # c
    <3>1. SamplesAt(d)' <=> SamplesAt(d)
      BY <1>0, <1>3, <1>4, <1>6, <2>1, SameCall
    <3>. QED BY <3>1 DEF IInv, SamplesInv
  <2>2. CASE d = c
    <3>1. samples[c] = Sampled(c) /\ c \notin dropped
      BY <1>0 DEF IInv, SamplesInv, SamplesAt, HeldInv, Handed
    <3>2. samples'[c] = IF c \in dropped' THEN Append(samples[c], LossBatch) ELSE samples[c]
      BY <1>1, <1>3, <3>1 DEF Push, DataTypes
    <3>3. Sampled(c)' = Sampled(c) /\ LossBatch' = LossBatch
      BY <1>0 DEF Sampled, RequestBatch, ErrorBatch, MissBatch, RefusedBatch, LossBatch,
                  Batch, Goodput, GaugePushed
    <3>. QED BY <1>6, <2>2, <3>1, <3>2, <3>3 DEF SamplesAt
  <2>. QED BY <2>1, <2>2
<1>12. RecordInv'
  <2>. SUFFICES ASSUME NEW d \in Calls, record'[d].made
                PROVE  pc'[d] \in {"resolving", "settled"} /\ req[d].valid /\ record'[d] = RecordOf(d)
    BY <1>0, <1>10 DEF RecordInv
  <2>1. CASE d # c
    BY <1>5, <1>6, <2>1 DEF IInv, RecordInv
  <2>2. CASE d = c
    <3>1. ~record[c].made
      BY <1>0 DEF IInv, RecordInv
    <3>2. record'[c].made
      BY <2>2
    <3>3. record'[c] # record[c]
      BY <3>1, <3>2
    <3>4. record'[c] = RecordOf(c)
      BY <1>5, <3>3
    <3>5. pc'[c] = "resolving"
      BY <1>6
    <3>. QED BY <1>2, <2>2, <3>4, <3>5
  <2>. QED BY <2>1, <2>2
<1>13. HeldInv'
  BY <1>0, <1>2, <1>3, <1>6 DEF IInv, HeldInv
<1>14. FlushInv'
  BY <1>0, <1>3, <1>6 DEF IInv, FlushInv
<1>. QED BY <1>7, <1>8, <1>11, <1>12, <1>13, <1>14 DEF IInv

\* The promise settles on an event loop that no flush blocks.
LEMMA SettleInv ==
  ASSUME IInv, NEW c \in Calls, Settle(c)
  PROVE  IInv'
<1>0. pc[c] = "resolving" /\ pc' = [pc EXCEPT ![c] = "settled"] /\ ~flush.running
      /\ UNCHANGED <<req, exporting, tripped, res, outcome, samples, record, sdkVars, flush, vuDone>>
  BY DEF Settle, At, Goto
<1>1. CallTypes /\ DataTypes /\ SDKTypes
  BY Types DEF IInv
<1>2. TypeOK'
  <2>1. CallTypes'  BY <1>0, <1>1 DEF CallTypes
  <2>2. DataTypes'  BY <1>0, <1>1 DEF DataTypes
  <2>3. SDKTypes'   BY <1>0, <1>1 DEF SDKTypes, sdkVars
  <2>. QED BY <2>1, <2>2, <2>3, TypesNext
<1>3. pc'[c] = "settled" /\ \A d \in Calls \ {c} : pc'[d] = pc[d]
  BY <1>0, <1>1 DEF CallTypes
<1>4. StageInv'
  BY <1>0, <1>3 DEF IInv, StageInv
<1>6. ASSUME ~vuDone  PROVE SamplesAt(c)'
  <2>1. samples[c] = IF c \in dropped THEN Append(Sampled(c), LossBatch) ELSE Sampled(c)
    BY <1>0, <1>6 DEF IInv, SamplesInv, SamplesAt
  <2>2. Sampled(c)' = Sampled(c) /\ LossBatch' = LossBatch
    BY <1>0 DEF Sampled, RequestBatch, ErrorBatch, MissBatch, RefusedBatch, LossBatch,
                Batch, Goodput, GaugePushed
  <2>. QED BY <1>0, <1>3, <2>1, <2>2 DEF SamplesAt, sdkVars
<1>. QED BY <1>0, <1>2, <1>4, <1>6, CallInv

-----------------------------------------------------------------------------
(* The environment moves no call.                                          *)

\* Timers, the end of the VU, flush() and the SDK's worker.
LEMMA EnvironmentInv ==
  ASSUME IInv,
         \/ \E c \in Calls : \E timer \in {"timeout", "deadline"} : TimerFires(c, timer)
         \/ EndVU \/ StartFlush \/ EndFlush \/ SDKExports \/ UNCHANGED vars
  PROVE  IInv'
<1>0. UNCHANGED <<req, exporting, pc, res, outcome, samples, record>>
      /\ dropped' = dropped /\ (vuDone' = vuDone \/ vuDone')
  BY DEF TimerFires, EndVU, StartFlush, EndFlush, SDKExports, vars, callVars, sdkVars
<1>1. CallTypes /\ DataTypes /\ SDKTypes
  BY Types DEF IInv
<1>2. \A d \in Calls : RecordOf(d)' = RecordOf(d) /\ (SamplesAt(d)' <=> SamplesAt(d))
  BY <1>0, SameCall
<1>3. StageInv' /\ RecordInv' /\ SamplesInv'
  BY <1>0, <1>2 DEF IInv, StageInv, RecordInv, SamplesInv
<1>4. /\ tripped' \in [Calls -> SUBSET {"timeout", "deadline"}]
      /\ \A c \in Calls : tripped[c] \subseteq tripped'[c]
  <2>1. ASSUME NEW c \in Calls, NEW timer \in {"timeout", "deadline"}, TimerFires(c, timer)
        PROVE  tripped' = [tripped EXCEPT ![c] = @ \cup {timer}]
    BY <2>1 DEF TimerFires
  <2>2. CASE tripped' = tripped
    BY <1>1, <2>2 DEF CallTypes
  <2>. QED BY <1>1, <2>1, <2>2
       DEF EndVU, StartFlush, EndFlush, SDKExports, vars, callVars, CallTypes
<1>6. /\ Handed' = Handed /\ dropped' \subseteq Calls
      /\ shipped \subseteq shipped' /\ lost \subseteq lost'
      /\ queue' \subseteq Calls /\ shipped' \subseteq Calls /\ lost' \subseteq Calls
  BY <1>1 DEF TimerFires, EndVU, StartFlush, EndFlush, SDKExports, vars, sdkVars, SDKTypes, Handed
<1>7. flush' \in [running: BOOLEAN, covers: SUBSET Calls] /\ vuDone' \in BOOLEAN
  <2>1. CASE flush' = flush /\ (vuDone' = vuDone \/ vuDone' = TRUE)
    BY <1>1, <2>1 DEF SDKTypes
  <2>2. CASE StartFlush
    BY <1>1, <2>2 DEF StartFlush, SDKTypes
  <2>3. CASE EndFlush
    BY <1>1, <2>3 DEF EndFlush, SDKTypes, NoFlush
  <2>. QED BY <2>1, <2>2, <2>3 DEF TimerFires, EndVU, SDKExports, vars
<1>8. TypeOK'
  <2>1. CallTypes'  BY <1>0, <1>1, <1>4 DEF CallTypes
  <2>2. DataTypes'  BY <1>0, <1>1 DEF DataTypes
  <2>3. SDKTypes'   BY <1>6, <1>7 DEF SDKTypes
  <2>. QED BY <2>1, <2>2, <2>3, TypesNext
<1>9. HeldInv'
  BY <1>0, <1>6 DEF IInv, HeldInv
<1>10. FlushInv'
  <2>1. CASE flush' = flush
    BY <1>0, <1>6, <2>1 DEF IInv, FlushInv
  <2>2. CASE EndFlush
    BY <2>2 DEF EndFlush, NoFlush, FlushInv
  <2>3. CASE StartFlush
    <3>1. flush'.covers = queue /\ exporting /\ UNCHANGED <<queue, shipped, dropped, lost>>
      BY <2>3 DEF StartFlush, sdkVars
    <3>. QED BY <1>0, <3>1 DEF IInv, HeldInv, Handed, FlushInv
  <2>. QED BY <2>1, <2>2, <2>3 DEF TimerFires, EndVU, SDKExports, vars
<1>. QED BY <1>3, <1>8, <1>9, <1>10 DEF IInv

\* Every step keeps the invariant.
LEMMA NextInv == IInv /\ [Next]_vars => IInv'
<1>. SUFFICES ASSUME IInv, [Next]_vars  PROVE IInv'
  OBVIOUS
<1>1. ASSUME NEW c \in Calls, Goroutine(c)  PROVE IInv'
  BY <1>1, DoChatInv, EmitOutcomeInv, EmitGoodputMissInv, ExportInv DEF Goroutine
<1>2. CASE Ended
  BY <1>2, EnvironmentInv DEF Ended
<1>. QED BY <1>1, <1>2, ChatInv, SettleInv, EnvironmentInv DEF Next

\* The inductive invariant of the calls.
THEOREM Invariance == Spec => []IInv
BY InitInv, NextInv, PTL DEF Spec

\* Every variable keeps its type.
THEOREM TypeCorrect == Spec => []TypeOK
<1>1. IInv => TypeOK
  BY DEF IInv
<1>. QED BY Invariance, <1>1, PTL

-----------------------------------------------------------------------------
(* Accounting.                                                             *)

\* The batches as records.
LEMMA BatchFields ==
  ASSUME NEW c \in Calls
  PROVE  /\ RequestBatch(c) = [metric |-> "request", type |-> "none",
                               goodput |-> Goodput(c), gauge |-> GaugePushed(res[c])]
         /\ ErrorBatch(c) = [metric |-> "error", type |-> outcome[c],
                             goodput |-> "none", gauge |-> FALSE]
         /\ MissBatch = [metric |-> "goodput", type |-> "none", goodput |-> "miss", gauge |-> FALSE]
         /\ RefusedBatch = [metric |-> "error", type |-> "decode", goodput |-> "none", gauge |-> FALSE]
         /\ LossBatch = [metric |-> "error", type |-> "export", goodput |-> "none", gauge |-> FALSE]
BY DEF RequestBatch, ErrorBatch, MissBatch, RefusedBatch, LossBatch, Batch

\* The first batch is the outcome's, and the only one; a second one may be the
\* goodput miss; a lost record's is neither.
LEMMA SampledPositions ==
  ASSUME CallTypes, NEW c \in Calls, outcome[c] # "none",
         ~req[c].valid => outcome[c] = "decode",
         samples[c] = IF c \in dropped THEN Append(Sampled(c), LossBatch) ELSE Sampled(c)
  PROVE  /\ Outcomes(c) = {1}
         /\ samples[c][1].type = IF outcome[c] = "ok" THEN "none" ELSE outcome[c]
         /\ Credits(c) = IF ~(req[c].slo /\ req[c].valid) THEN {}
                         ELSE IF outcome[c] = "ok" THEN {1} ELSE {2}
         /\ req[c].valid => samples[c][1].goodput = IF outcome[c] = "ok" THEN Goodput(c) ELSE "none"
         /\ req[c].slo /\ req[c].valid /\ outcome[c] # "ok" => samples[c][2].goodput = "miss"
         /\ Losses(c) = IF c \in dropped THEN {Len(samples[c])} ELSE {}
<1>. DEFINE first == IF ~req[c].valid THEN RefusedBatch
                     ELSE IF outcome[c] = "ok" THEN RequestBatch(c) ELSE ErrorBatch(c)
            missed == req[c].valid /\ outcome[c] # "ok" /\ req[c].slo
<1>1. Sampled(c) = IF missed THEN <<first, MissBatch>> ELSE <<first>>
  BY DEF Sampled
<1>2. /\ first.metric \in {"request", "error"}
      /\ first.metric = "error" => first.type # "export"
      /\ first.type = IF outcome[c] = "ok" THEN "none" ELSE outcome[c]
      /\ req[c].valid => first.goodput = IF outcome[c] = "ok" THEN Goodput(c) ELSE "none"
      /\ ~req[c].valid => first.goodput = "none"
  <2>1. outcome[c] # "export"
    BY DEF CallTypes, Kinds
  <2>. QED BY <2>1, BatchFields
<1>3. /\ MissBatch.metric = "goodput" /\ MissBatch.goodput = "miss"
      /\ LossBatch.metric = "error" /\ LossBatch.type = "export" /\ LossBatch.goodput = "none"
  BY BatchFields
<1>. HIDE DEF first
<1>4. \/ ~missed /\ c \notin dropped /\ samples[c] = <<first>>
      \/ ~missed /\ c \in dropped /\ samples[c] = <<first, LossBatch>>
      \/ missed /\ c \notin dropped /\ samples[c] = <<first, MissBatch>>
      \/ missed /\ c \in dropped /\ samples[c] = <<first, MissBatch, LossBatch>>
  BY <1>1, AppendSecond, AppendThird
<1>5. /\ 1 \in 1..Len(samples[c]) /\ samples[c][1] = first
      /\ \A i \in 1..Len(samples[c]) : i = 1 \/ samples[c][i] \in {MissBatch, LossBatch}
      /\ \A i \in 1..Len(samples[c]) : i = 1 \/ samples[c][i] # MissBatch \/ (missed /\ i = 2)
      /\ missed => 2 \in 1..Len(samples[c]) /\ samples[c][2] = MissBatch
      /\ \A i \in 1..Len(samples[c]) :
           i = 1 \/ (samples[c][i] = LossBatch <=> (c \in dropped /\ i = Len(samples[c])))
      /\ Len(samples[c]) \in Nat /\ (c \in dropped => Len(samples[c]) > 1)
  <2>1. MissBatch # LossBatch
    BY <1>3
  <2>. HIDE DEF missed
  <2>2. CASE ~missed /\ c \notin dropped /\ samples[c] = <<first>>
    BY <2>2
  <2>3. CASE ~missed /\ c \in dropped /\ samples[c] = <<first, LossBatch>>
    <3>1. /\ Len(samples[c]) = 2 /\ samples[c][1] = first /\ samples[c][2] = LossBatch
          /\ \A i \in 1..Len(samples[c]) : i = 1 \/ i = 2
      BY <2>3, TwoOf, Zenon
    <3>. QED BY <2>1, <2>3, <3>1
  <2>4. CASE missed /\ c \notin dropped /\ samples[c] = <<first, MissBatch>>
    BY <2>1, <2>4
  <2>5. CASE missed /\ c \in dropped /\ samples[c] = <<first, MissBatch, LossBatch>>
    <3>1. /\ Len(samples[c]) = 3 /\ samples[c][1] = first
          /\ samples[c][2] = MissBatch /\ samples[c][3] = LossBatch
          /\ \A i \in 1..Len(samples[c]) : i = 1 \/ i = 2 \/ i = 3
      BY <2>5, ThreeOf
    <3>. QED BY <2>1, <2>5, <3>1
  <2>. QED BY <1>4, <2>2, <2>3, <2>4, <2>5 DEF missed
<1>6. Outcomes(c) = {1}
  <2>1. \A i \in 1..Len(samples[c]) :
          (samples[c][i].metric = "request"
             \/ (samples[c][i].metric = "error" /\ samples[c][i].type # "export")) <=> i = 1
    BY <1>2, <1>3, <1>5
  <2>. QED BY <1>5, <2>1 DEF Outcomes, Where
<1>7. Credits(c) = IF ~(req[c].slo /\ req[c].valid) THEN {}
                   ELSE IF outcome[c] = "ok" THEN {1} ELSE {2}
  <2>1. (first.goodput # "none") <=> (req[c].valid /\ outcome[c] = "ok" /\ req[c].slo)
    BY <1>2 DEF Goodput
  <2>2. \A i \in 1..Len(samples[c]) :
          (samples[c][i].goodput # "none") <=>
            \/ i = 1 /\ req[c].valid /\ outcome[c] = "ok" /\ req[c].slo
            \/ i = 2 /\ missed
    BY <1>3, <1>5, <2>1
  <2>. QED BY <1>5, <2>2 DEF Credits, Where
<1>8. Losses(c) = IF c \in dropped THEN {Len(samples[c])} ELSE {}
  <2>1. \A i \in 1..Len(samples[c]) :
          (samples[c][i].metric = "error" /\ samples[c][i].type = "export")
            <=> (c \in dropped /\ i = Len(samples[c]))
    BY <1>2, <1>3, <1>5
  <2>. QED BY <1>5, <2>1 DEF Losses, Where
<1>. QED BY <1>2, <1>3, <1>5, <1>6, <1>7, <1>8

\* What has been sampled once the promise may settle.
LEMMA SettledPositions ==
  ASSUME IInv, ~vuDone, NEW c \in Calls, pc[c] \in {"resolving", "settled"}
  PROVE  /\ outcome[c] # "none" /\ Outcomes(c) = {1}
         /\ samples[c][1].type = IF outcome[c] = "ok" THEN "none" ELSE outcome[c]
         /\ Credits(c) = IF ~(req[c].slo /\ req[c].valid) THEN {}
                         ELSE IF outcome[c] = "ok" THEN {1} ELSE {2}
         /\ req[c].valid => samples[c][1].goodput = IF outcome[c] = "ok" THEN Goodput(c) ELSE "none"
         /\ req[c].slo /\ req[c].valid /\ outcome[c] # "ok" => samples[c][2].goodput = "miss"
         /\ Losses(c) = IF c \in dropped THEN {Len(samples[c])} ELSE {}
         /\ Len(samples[c]) \in Nat \ {0}
<1>1. CallTypes
  BY Types DEF IInv
<1>2. outcome[c] # "none" /\ (~req[c].valid => outcome[c] = "decode")
  BY DEF IInv, StageInv
<1>3. samples[c] = IF c \in dropped THEN Append(Sampled(c), LossBatch) ELSE Sampled(c)
  BY DEF IInv, SamplesInv, SamplesAt
<1>4. samples[c] \in Seq(Batches)
  BY Types DEF IInv, DataTypes
<1>5. Outcomes(c) \subseteq 1..Len(samples[c])
  BY DEF Outcomes, Where
<1>6. Outcomes(c) = {1}
  BY <1>1, <1>2, <1>3, SampledPositions
<1>7. Len(samples[c]) \in Nat \ {0}
  BY <1>4, <1>5, <1>6
<1>. QED BY <1>1, <1>2, <1>3, <1>7, SampledPositions

LEMMA Accounts == IInv => AccountedOnce
<1>. SUFFICES ASSUME IInv, NEW c \in Calls, pc[c] = "settled", ~vuDone
              PROVE  /\ \E i \in Outcomes(c) :
                          /\ Outcomes(c) = {i}
                          /\ samples[c][i].type = IF outcome[c] = "ok" THEN "none" ELSE outcome[c]
                     /\ \E i \in Credits(c) \cup {0} :
                          /\ Credits(c) = {i} \ {0}
                          /\ (i # 0) = (req[c].slo /\ req[c].valid)
                          /\ i # 0 /\ outcome[c] # "ok" => samples[c][i].goodput = "miss"
                     /\ (c \in Handed) = (exporting /\ req[c].valid)
                     /\ \E i \in Losses(c) \cup {0} :
                          Losses(c) = {i} \ {0} /\ (i # 0) = (c \in dropped)
  BY DEF AccountedOnce
<1>1. \E i \in Outcomes(c) :
        /\ Outcomes(c) = {i}
        /\ samples[c][i].type = IF outcome[c] = "ok" THEN "none" ELSE outcome[c]
  BY SettledPositions
<1>2. \E i \in Credits(c) \cup {0} :
        /\ Credits(c) = {i} \ {0}
        /\ (i # 0) = (req[c].slo /\ req[c].valid)
        /\ i # 0 /\ outcome[c] # "ok" => samples[c][i].goodput = "miss"
  <2>1. CASE ~(req[c].slo /\ req[c].valid)
    <3>1. Credits(c) = {}
      BY <2>1, SettledPositions
    <3>. WITNESS 0 \in Credits(c) \cup {0}
    <3>. QED BY <2>1, <3>1
  <2>2. CASE req[c].slo /\ req[c].valid /\ outcome[c] = "ok"
    <3>1. Credits(c) = {1}
      BY <2>2, SettledPositions
    <3>2. 1 \in Credits(c) \cup {0}
      BY <3>1
    <3>. WITNESS 1 \in Credits(c) \cup {0}
    <3>. QED BY <2>2, <3>1
  <2>3. CASE req[c].slo /\ req[c].valid /\ outcome[c] # "ok"
    <3>1. Credits(c) = {2} /\ samples[c][2].goodput = "miss"
      BY <2>3, SettledPositions
    <3>2. 2 \in Credits(c) \cup {0}
      BY <3>1
    <3>. WITNESS 2 \in Credits(c) \cup {0}
    <3>. QED BY <2>3, <3>1
  <2>. QED BY <2>1, <2>2, <2>3
<1>3. (c \in Handed) = (exporting /\ req[c].valid)
  BY DEF IInv, HeldInv
<1>4. \E i \in Losses(c) \cup {0} : Losses(c) = {i} \ {0} /\ (i # 0) = (c \in dropped)
  <2>1. CASE c \notin dropped
    <3>1. Losses(c) = {}
      BY <2>1, SettledPositions
    <3>. WITNESS 0 \in Losses(c) \cup {0}
    <3>. QED BY <2>1, <3>1
  <2>2. CASE c \in dropped
    <3>. DEFINE last == Len(samples[c])
    <3>1. Losses(c) = {last} /\ last # 0
      BY <2>2, SettledPositions
    <3>2. last \in Losses(c) \cup {0}
      BY <3>1
    <3>. HIDE DEF last
    <3>. WITNESS last \in Losses(c) \cup {0}
    <3>. QED BY <2>2, <3>1
  <2>. QED BY <2>1, <2>2
<1>. QED BY <1>1, <1>2, <1>3, <1>4

\* When a promise settles the call has been accounted for, once: in its samples,
\* with the SDK, and in the count of what the SDK had no room for.  A call refused by
\* parseChatRequest has an error sample and nothing else (Chat, exportGeneration).
THEOREM CallsAreAccountedOnce == Spec => []AccountedOnce
BY Invariance, Accounts, PTL

\* In a VU that is not done the samples of each stage begin with the outcome.
LEMMA OutcomeFirstLive == IInv /\ ~vuDone => OutcomeComesFirst
<1>. SUFFICES ASSUME IInv, ~vuDone, NEW c \in Calls, NEW i \in DOMAIN samples[c]
              PROVE  (i \in Outcomes(c)) = (i = 1)
  BY DEF OutcomeComesFirst
<1>1. SamplesAt(c) /\ CallTypes
  BY Types DEF IInv, SamplesInv
<1>2. CASE pc[c] \in {"resolving", "settled"}
  BY <1>2, SettledPositions
<1>3. CASE pc[c] = "exporting"
  <2>1. samples[c] = Sampled(c) /\ c \notin dropped
    BY <1>1, <1>3 DEF SamplesAt, IInv, HeldInv, Handed
  <2>2. outcome[c] # "none" /\ (~req[c].valid => outcome[c] = "decode")
    BY <1>3 DEF IInv, StageInv
  <2>. QED BY <1>1, <2>1, <2>2, SampledPositions
<1>4. CASE pc[c] = "missing"
  <2>1. samples[c] = <<ErrorBatch(c)>>
    BY <1>1, <1>4 DEF SamplesAt
  <2>2. ErrorBatch(c).metric = "error" /\ ErrorBatch(c).type # "export"
    BY <1>1, BatchFields DEF CallTypes, Kinds
  <2>3. i = 1 /\ 1 \in 1..Len(samples[c]) /\ samples[c][1] = ErrorBatch(c)
    BY <2>1
  <2>. QED BY <2>2, <2>3 DEF Outcomes, Where
<1>5. CASE pc[c] \notin {"missing", "exporting", "resolving", "settled"}
  BY <1>1, <1>5 DEF SamplesAt
<1>. QED BY <1>2, <1>3, <1>4, <1>5

\* Nothing is pushed once the VU is done, nor as it ends.
LEMMA NothingPushedAtEnd ==
  ASSUME IInv, [Next]_vars, vuDone'
  PROVE  samples' = samples
<1>1. DataTypes
  BY Types DEF IInv
<1>2. ASSUME NEW c \in Calls, NEW b, Push(c, b), vuDone
      PROVE  samples' = samples
  BY <1>1, <1>2 DEF Push, DataTypes
<1>3. ASSUME NEW c \in Calls, Chat(c) \/ Goroutine(c) \/ Settle(c)  PROVE samples' = samples
  <2>1. vuDone
    BY <1>3 DEF Chat, Goroutine, Settle, Build, Send, Reply, DoChatFrame, EmitOutcome,
                EmitGoodputMiss, ExportGeneration
  <2>. QED BY <1>2, <1>3, <2>1 DEF Chat, Goroutine, Settle, Build, Send, Reply, DoChatFrame,
                EmitOutcome, EmitGoodputMiss, ExportGeneration
<1>. QED BY <1>3 DEF Next, TimerFires, EndVU, StartFlush, EndFlush, SDKExports, Ended,
                     vars, callVars

\* Of every call, in a VU that lives on or ends between any two pushes, the first batch
\* is the request or the error, and no later one is: a goodput miss or an export error
\* never stands alone (Chat's goroutine, PushIfNotDone).
THEOREM OutcomesComeFirst == Spec => []OutcomeComesFirst
<1>1. Init => OutcomeComesFirst
  BY DEF Init, OutcomeComesFirst
<1>2. IInv /\ IInv' /\ OutcomeComesFirst /\ [Next]_vars => OutcomeComesFirst'
  <2>. SUFFICES ASSUME IInv, IInv', OutcomeComesFirst, [Next]_vars
                PROVE  OutcomeComesFirst'
    OBVIOUS
  <2>1. CASE vuDone'
    <3>1. samples' = samples
      BY <2>1, NothingPushedAtEnd
    <3>. QED BY <3>1 DEF OutcomeComesFirst, Outcomes, Where
  <2>2. CASE ~vuDone'
    BY <2>2, OutcomeFirstLive, PTL
  <2>. QED BY <2>1, <2>2
<1>. QED BY Invariance, <1>1, <1>2, PTL DEF Spec

LEMMA Matches == IInv => RecordMatchesSamples
<1>. SUFFICES ASSUME IInv, NEW c \in Calls, record[c].made, ~vuDone, NEW i \in Outcomes(c)
              PROVE  /\ record[c].error = samples[c][i].type
                     /\ record[c].error = "none" => record[c].goodput = samples[c][i].goodput
  BY DEF RecordMatchesSamples
<1>1. pc[c] \in {"resolving", "settled"} /\ req[c].valid /\ record[c] = RecordOf(c)
  BY DEF IInv, RecordInv
<1>2. i = 1 /\ outcome[c] # "none"
  BY <1>1, SettledPositions
<1>3. CASE outcome[c] = "ok"
  <2>1. record[c].error = "none" /\ record[c].goodput = Goodput(c)
    BY <1>1, <1>3 DEF RecordOf
  <2>2. samples[c][1].type = "none" /\ samples[c][1].goodput = Goodput(c)
    BY <1>1, <1>3, SettledPositions
  <2>. QED BY <1>2, <2>1, <2>2
<1>4. CASE outcome[c] # "ok"
  <2>1. record[c].error = outcome[c]
    BY <1>1, <1>4 DEF RecordOf
  <2>2. samples[c][1].type = outcome[c]
    BY <1>1, <1>4, SettledPositions
  <2>. QED BY <1>2, <2>1, <2>2
<1>. QED BY <1>3, <1>4

\* The record and the samples of a call tell of the same error, and of the same
\* goodput when there is none (buildExportRecord, emit).
THEOREM RecordsMatch == Spec => []RecordMatchesSamples
BY Invariance, Matches, PTL

\* A flush that returns without an error leaves no settled call's record in the
\* queue (Flush), whatever the other calls do meanwhile.
THEOREM FlushesCover == Spec => FlushCoversSettled
<1>1. IInv /\ [Next]_vars =>
        [flush.running /\ ~flush'.running /\ FlushResult = "ok" =>
           \A c \in Calls : pc[c] = "settled" /\ req[c].valid => c \in shipped \cup dropped \cup lost]_vars
  BY DEF IInv, FlushInv, FlushResult
<1>. QED BY Invariance, <1>1, PTL DEF Spec, FlushCoversSettled

-----------------------------------------------------------------------------
(* Each call implements StreamVerdict.                                     *)

\* A step that leaves a call's result alone ends its context or stutters.
LEMMA VerdictKept ==
  ASSUME NEW c \in Calls, req' = req, outcome'[c] = outcome[c], res'[c] = res[c],
         CtxDone(c) => CtxDone(c)'
  PROVE  [ReadingOf(c)!Next]_(ReadingOf(c)!vars)
<1>. USE DEF ReadingOf!vars, ReadingOf!Next, ReadingOf!ContextEnds
<1>1. CASE CtxDone(c)' <=> CtxDone(c)
  BY <1>1 DEF CtxDone
<1>2. CASE ~CtxDone(c) /\ CtxDone(c)'
  BY <1>2 DEF CtxDone
<1>. QED BY <1>1, <1>2

\* A step that gives a call its outcome gives it a verdict, and an abort had a
\* limit that was reached.
LEMMA VerdictGiven ==
  ASSUME NEW c \in Calls, UNCHANGED <<req, tripped, vuDone>>,
         outcome[c] = "none", outcome'[c] \in {"ok"} \cup Kinds,
         outcome'[c] = "ok" /\ res'[c].aborted => MayAbort(c)
  PROVE  [ReadingOf(c)!Next]_(ReadingOf(c)!vars)
<1>. USE DEF ReadingOf!vars, ReadingOf!Next, ReadingOf!Settle, ReadingOf!Complete,
             ReadingOf!Abort, ReadingOf!Fail, ReadingOf!MayAbort, MayAbort, CtxDone
<1>1. CASE outcome'[c] = "ok" /\ res'[c].aborted
  BY <1>1
<1>2. CASE outcome'[c] = "ok" /\ ~res'[c].aborted
  BY <1>2
<1>3. CASE outcome'[c] # "ok"
  <2>1. outcome'[c] # "none"
    BY <1>3 DEF Kinds
  <2>. QED BY <1>3, <2>1
<1>. QED BY <1>1, <1>2, <1>3

LEMMA NextVerdict ==
  ASSUME IInv, [Next]_vars, NEW c \in Calls
  PROVE  [ReadingOf(c)!Next]_(ReadingOf(c)!vars)
<1>0. CallTypes /\ DataTypes /\ SDKTypes
  BY Types DEF IInv
<1>1. ASSUME NEW d \in Calls, Build(d) \/ Send(d) \/ Reply(d)
      PROVE  [ReadingOf(c)!Next]_(ReadingOf(c)!vars)
  <2>1. DoChatStep(d) /\ UNCHANGED <<req, tripped, vuDone>> /\ outcome[d] = "none"
    BY <1>1, DoChatSteps DEF IInv, StageInv, DoChatFrame
  <2>2. CASE UNCHANGED <<outcome, res>>
    BY <2>1, <2>2, VerdictKept DEF CtxDone
  <2>3. ASSUME NEW o \in {"ok"} \cup Kinds, NEW r \in Results,
               outcome' = [outcome EXCEPT ![d] = o], res' = [res EXCEPT ![d] = r],
               o = "ok" /\ r.aborted => MayAbort(d)
        PROVE  [ReadingOf(c)!Next]_(ReadingOf(c)!vars)
    <3>1. CASE c = d
      <4>1. outcome'[c] = o /\ res'[c] = r
        BY <1>0, <2>3, <3>1 DEF CallTypes, DataTypes
      <4>2. outcome'[c] = "ok" /\ res'[c].aborted => MayAbort(c)
        BY <2>3, <3>1, <4>1
      <4>. QED BY <2>1, <3>1, <4>1, <4>2, VerdictGiven
    <3>2. CASE c # d
      <4>1. outcome'[c] = outcome[c] /\ res'[c] = res[c]
        BY <1>0, <2>3, <3>2 DEF CallTypes, DataTypes
      <4>. QED BY <2>1, <4>1, VerdictKept DEF CtxDone
    <3>. QED BY <3>1, <3>2
  <2>. QED BY <2>1, <2>2, <2>3 DEF DoChatStep
<1>2. ASSUME NEW d \in Calls, Chat(d)
      PROVE  [ReadingOf(c)!Next]_(ReadingOf(c)!vars)
  <2>1. UNCHANGED <<req, tripped, vuDone, res>> /\ outcome[d] = "none"
    BY <1>2 DEF Chat, At, IInv, StageInv
  <2>2. CASE outcome' = outcome
    BY <2>1, <2>2, VerdictKept DEF CtxDone
  <2>3. CASE outcome' = [outcome EXCEPT ![d] = "decode"]
    <3>1. CASE c = d
      <4>1. outcome'[c] = "decode"
        BY <1>0, <2>3, <3>1 DEF CallTypes
      <4>2. "decode" \in {"ok"} \cup Kinds /\ "decode" # "ok"
        BY DEF Kinds
      <4>. QED BY <2>1, <3>1, <4>1, <4>2, VerdictGiven
    <3>2. CASE c # d
      <4>1. outcome'[c] = outcome[c]
        BY <1>0, <2>3, <3>2 DEF CallTypes
      <4>. QED BY <2>1, <4>1, VerdictKept DEF CtxDone
    <3>. QED BY <3>1, <3>2
  <2>. QED BY <1>2, <2>2, <2>3 DEF Chat
<1>3. ASSUME UNCHANGED <<req, outcome, res>>, vuDone => vuDone',
             \A d \in Calls : tripped[d] \subseteq tripped'[d]
      PROVE  [ReadingOf(c)!Next]_(ReadingOf(c)!vars)
  BY <1>3, VerdictKept DEF CtxDone
<1>4. ASSUME NEW d \in Calls,
             EmitOutcome(d) \/ EmitGoodputMiss(d) \/ ExportGeneration(d) \/ Settle(d)
      PROVE  [ReadingOf(c)!Next]_(ReadingOf(c)!vars)
  BY <1>3, <1>4 DEF EmitOutcome, EmitGoodputMiss, ExportGeneration, Settle
<1>5. ASSUME NEW d \in Calls, NEW timer \in {"timeout", "deadline"}, TimerFires(d, timer)
      PROVE  [ReadingOf(c)!Next]_(ReadingOf(c)!vars)
  <2>1. UNCHANGED <<req, outcome, res, vuDone>> /\ tripped' = [tripped EXCEPT ![d] = @ \cup {timer}]
    BY <1>5 DEF TimerFires
  <2>2. \A e \in Calls : tripped[e] \subseteq tripped'[e]
    BY <1>0, <2>1 DEF CallTypes
  <2>. QED BY <1>3, <2>1, <2>2
<1>6. CASE EndVU \/ StartFlush \/ EndFlush \/ SDKExports \/ Ended \/ UNCHANGED vars
  BY <1>3, <1>6 DEF EndVU, StartFlush, EndFlush, SDKExports, Ended, vars, callVars
<1>. QED BY <1>1, <1>2, <1>4, <1>5, <1>6 DEF Next, Goroutine

\* Reading a call's reply gives one verdict, as StreamVerdict promises, whatever
\* the other calls do; an abort had a limit of the call's own.
THEOREM CallsGiveOneVerdict == Spec => EachGivesOneVerdict
<1>1. Init => \A c \in Calls : ReadingOf(c)!Init
  BY CallAssumption DEF Init, ReadingOf!Init, CtxDone
<1>2. IInv /\ [Next]_vars =>
        [\A c \in Calls : [ReadingOf(c)!Next]_(ReadingOf(c)!vars)]_vars
  BY NextVerdict
<1>. QED BY Invariance, <1>1, <1>2, PTL DEF Spec, EachGivesOneVerdict

=============================================================================
