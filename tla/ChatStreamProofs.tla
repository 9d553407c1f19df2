-------------------------- MODULE ChatStreamProofs --------------------------
(***************************************************************************)
(* What ChatStream promises for every deadline, budget, timeout, wire set  *)
(* and bound.  The invariants are proved together: IInv adds to them what  *)
(* the parsers' locals record, by the place doChat is at.                  *)
(***************************************************************************)
EXTENDS ChatStream, TLAPS

Gaps == INSTANCE FoldFacts WITH Op <- Plus

Count == res.Chunks + res.ThinkingChunks

\* The clock bounds every time; a wire's first-token flag is its TTFT.
ClockInv ==
  /\ res.TTFT <= now /\ lastContentT <= now /\ firstOutputAt <= now
  /\ conf.wire # "v4" => gotFirstToken = (res.TTFT > 0)
  /\ conf.wire = "v4" => (res.Chunks > 0) = (res.TTFT > 0) /\ res.TTFText = 0
  /\ res.TTFT # 0 => firstOutputAt # 0 /\ firstOutputAt <= res.TTFT
  /\ conf.wire \in {"openai", "anthropic"} /\ res.TTFT # 0 => res.TTFT = firstOutputAt
  /\ (res.Chunks > 0) = (lastContentT > 0)
  /\ res.TTFText <= lastContentT
  /\ conf.wire # "v4" => (res.Chunks > 0) = (res.TTFText > 0)
  /\ res.TTFT # 0 /\ res.TTFText # 0 => res.TTFT <= res.TTFText

\* Until the first token is seen, a scanning parser has seen no output.
UntouchedInv ==
  pc = "scan" /\ conf.wire # "v4" /\ ~gotFirstToken =>
    /\ res.TTFText = 0 /\ res.Chunks = 0
    /\ conf.wire \in {"openai", "anthropic"} => firstOutputAt = 0

BudgetInv ==
  conf.maxTokens > 0 =>
    /\ pc = "scan" /\ ~stop => Count < conf.maxTokens
    /\ Count <= conf.maxTokens + (IF conf.wire = "openai" THEN 1 ELSE 0)
    /\ Count >= conf.maxTokens => res.Aborted

AbortInv ==
  res.Aborted =>
    \/ conf.maxTokens > 0 /\ Count >= conf.maxTokens
    \/ pc = "done" /\ conf.maxDuration > 0 /\ ctx # "live"

\* How the parser may have left its loop without an error.
EndInv ==
  /\ stop => conf.wire \in {"anthropic", "responses"}
  /\ (pc = "done") = (outcome # "none")
  /\ pc = "scan" /\ stop /\ ~res.Aborted => replyEnded
  /\ pc = "finish" /\ ~scErr /\ ~res.Aborted => replyEnded \/ body = "ended"
  /\ pc = "drain" \/ outcome = "ok" =>
       /\ res.TTFT <= res.Duration /\ lastContentT <= res.Duration
       /\ ~res.Aborted => replyEnded \/ body = "ended"

IInv ==
  /\ TypeOK
  /\ ClockInv /\ UntouchedInv
  /\ OneGapPerLaterChunk
  /\ BudgetInv /\ AbortInv
  /\ EndInv

-----------------------------------------------------------------------------
(* The lines a wire's parser can be handed.                                *)

LEMMA LineFacts ==
  ASSUME TypeOK, NEW l \in LinesOf(conf.wire) \cup {Line("cut")}
  PROVE  /\ l \in Lines
         /\ l.text => l.kind = "event"
         /\ l.think => l.kind = "event" \/ conf.wire = "v4"
         /\ conf.wire # "openai" => ~(l.text /\ l.think)
         /\ conf.wire \in {"openai", "anthropic"} /\ Carries(l) => l.kind = "event"
         /\ conf.wire = "v4" /\ l.kind = "event" => l.text /\ ~l.think
         /\ l.kind = "stop" => conf.wire # "v4"
<1>. conf.wire \in {"openai", "anthropic", "responses", "v4"}
  BY ConstantsAssumption DEF TypeOK
<1>. DEFINE Basic ==
       /\ l \in Lines
       /\ l.text => l.kind = "event"
       /\ l.think => l.kind = "event"
       /\ ~(l.text /\ l.think)
       /\ Carries(l) => l.kind = "event"
<1>1. ASSUME NEW k \in {"skip", "stop"} \cup Failures, l = Line(k)  PROVE Basic /\ l.kind = k
  BY <1>1 DEF Line, LineOf, Lines, Failures, Carries
<1>2. CASE l = Line("cut")
  BY <1>1, <1>2 DEF Failures
<1>3. CASE conf.wire = "openai" /\ l \in OpenAILines
  <2>1. CASE l \in {Line("skip"), Line("stop"), Line("error"), Line("bad")}
    BY <1>1, <1>3, <2>1 DEF Failures
  <2>2. CASE l \in [kind: {"event"}, text: BOOLEAN, think: BOOLEAN, tools: SUBSET ToolIndexes]
    BY <1>3, <2>2 DEF Lines
  <2>. QED BY <1>3, <2>1, <2>2 DEF OpenAILines
<1>4. ASSUME l \in {Text, Think} \cup {Tool(i) : i \in ToolIndexes}  PROVE Basic /\ l.kind = "event"
  <2>1. CASE l = Text   BY <2>1 DEF Text, LineOf, Lines, Carries
  <2>2. CASE l = Think  BY <2>2 DEF Think, LineOf, Lines, Carries
  <2>3. ASSUME NEW i \in ToolIndexes, l = Tool(i)  PROVE Basic /\ l.kind = "event"
    BY <2>3 DEF Tool, LineOf, Lines, Carries
  <2>. QED BY <1>4, <2>1, <2>2, <2>3
<1>5. ASSUME l \in AnthropicLines  PROVE Basic
  BY <1>1, <1>4, <1>5 DEF AnthropicLines, Failures
<1>6. CASE conf.wire = "anthropic" /\ l \in AnthropicLines
  BY <1>5, <1>6
<1>7. CASE conf.wire = "responses" /\ l \in ResponsesLines
  <2>1. ASSUME NEW i \in ToolIndexes, l = ToolDone(i)
        PROVE  l \in Lines /\ ~l.text /\ ~l.think /\ l.kind = "toolDone"
    BY <2>1 DEF ToolDone, LineOf, Lines
  <2>. QED BY <1>5, <1>7, <2>1 DEF ResponsesLines
<1>8. CASE conf.wire = "v4" /\ l \in V4Lines
  <2>1. CASE l \in {Line("skip"), Line("error"), Line("bad")}
    <3>1. Basic /\ l.kind \in {"skip", "error", "bad"}  BY <1>1, <2>1 DEF Failures
    <3>. QED BY <1>8, <3>1
  <2>2. CASE l = Text   BY <1>8, <2>2 DEF Text, LineOf, Lines
  <2>3. CASE l = V4Reasoning
    BY <1>8, <2>3 DEF V4Reasoning, LineOf, Lines
  <2>. QED BY <1>8, <2>1, <2>2, <2>3 DEF V4Lines
<1>. QED BY <1>2, <1>3, <1>6, <1>7, <1>8 DEF LinesOf

-----------------------------------------------------------------------------
(* What the shared timing rules do to a result, field by field.            *)

LEMMA TextDeltaFields ==
  ASSUME TypeOK, lastContentT <= now, NEW r \in ChatResult
  PROVE  /\ TextDelta(r) \in ChatResult
         /\ TextDelta(r).TTFT = r.TTFT
         /\ TextDelta(r).TTFText = IF r.TTFText = 0 THEN now ELSE r.TTFText
         /\ TextDelta(r).ITL =
              IF lastContentT # 0 THEN Append(r.ITL, now - lastContentT) ELSE r.ITL
         /\ TextDelta(r).Chunks = r.Chunks + 1
         /\ TextDelta(r).ThinkingChunks = r.ThinkingChunks
         /\ TextDelta(r).Duration = r.Duration
         /\ TextDelta(r).Aborted = r.Aborted
<1>. now \in Nat /\ lastContentT \in Nat  BY DEF TypeOK
<1>1. r.ITL \in Seq(Nat) /\ now - lastContentT \in Nat  BY DEF ChatResult
<1>2. Gap(r) = IF lastContentT # 0 THEN Append(r.ITL, now - lastContentT) ELSE r.ITL
  BY DEF Gap
<1>3. Gap(r) \in Seq(Nat)  BY <1>1, <1>2
<1>. DEFINE t == IF r.TTFText = 0 THEN now ELSE r.TTFText
            c == r.Chunks + 1
<1>4. t \in Nat /\ c \in Nat  BY DEF ChatResult
<1>5. TextDelta(r) = [r EXCEPT !.TTFText = t, !.Chunks = c, !.ITL = Gap(r)]
  BY DEF TextDelta
<1>. HIDE DEF t, c
<1>6. TextDelta(r) \in ChatResult
  BY <1>3, <1>4, <1>5 DEF ChatResult
<1>7. /\ TextDelta(r).TTFText = t /\ TextDelta(r).ITL = Gap(r) /\ TextDelta(r).Chunks = c
      /\ TextDelta(r).TTFT = r.TTFT
      /\ TextDelta(r).ThinkingChunks = r.ThinkingChunks
      /\ TextDelta(r).Duration = r.Duration /\ TextDelta(r).Aborted = r.Aborted
  BY <1>5 DEF ChatResult
<1>. QED BY <1>2, <1>6, <1>7 DEF t, c

LEMMA ThinkFields ==
  ASSUME TypeOK, NEW l \in Lines
  PROVE  LET r == IF l.think THEN [res EXCEPT !.ThinkingChunks = @ + 1] ELSE res
         IN  /\ r \in ChatResult
             /\ r.TTFT = res.TTFT /\ r.TTFText = res.TTFText /\ r.ITL = res.ITL
             /\ r.Chunks = res.Chunks
             /\ r.ThinkingChunks = res.ThinkingChunks + (IF l.think THEN 1 ELSE 0)
             /\ r.Duration = res.Duration /\ r.Aborted = res.Aborted
<1>1. res \in ChatResult  BY DEF TypeOK
<1>2. CASE l.think   BY <1>1, <1>2 DEF ChatResult
<1>3. CASE ~l.think
  <2>1. res.ThinkingChunks \in Nat  BY <1>1 DEF ChatResult
  <2>. QED BY <1>1, <1>3, <2>1
<1>. QED BY <1>2, <1>3

LEMMA CountedFields ==
  ASSUME TypeOK, lastContentT <= now, NEW l \in Lines
  PROVE  /\ Counted(res, l) \in ChatResult
         /\ Counted(res, l).TTFT = res.TTFT
         /\ Counted(res, l).TTFText = IF l.text /\ res.TTFText = 0 THEN now ELSE res.TTFText
         /\ Counted(res, l).ITL =
              IF l.text /\ lastContentT # 0 THEN Append(res.ITL, now - lastContentT) ELSE res.ITL
         /\ Counted(res, l).Chunks = res.Chunks + (IF l.text THEN 1 ELSE 0)
         /\ Counted(res, l).ThinkingChunks = res.ThinkingChunks + (IF l.think THEN 1 ELSE 0)
         /\ Counted(res, l).Duration = res.Duration
         /\ Counted(res, l).Aborted = res.Aborted
<1>. DEFINE r1 == IF l.think THEN [res EXCEPT !.ThinkingChunks = @ + 1] ELSE res
<1>1. /\ r1 \in ChatResult
      /\ r1.TTFT = res.TTFT /\ r1.TTFText = res.TTFText /\ r1.ITL = res.ITL
      /\ r1.Chunks = res.Chunks
      /\ r1.ThinkingChunks = res.ThinkingChunks + (IF l.think THEN 1 ELSE 0)
      /\ r1.Duration = res.Duration /\ r1.Aborted = res.Aborted
  BY ThinkFields
<1>2. Counted(res, l) = IF l.text THEN TextDelta(r1) ELSE r1  BY DEF Counted
<1>. HIDE DEF r1
<1>3. CASE ~l.text
  <2>1. Counted(res, l) = r1  BY <1>2, <1>3
  <2>. QED BY <1>1, <1>3, <2>1 DEF TypeOK, ChatResult
<1>4. CASE l.text
  <2>1. Counted(res, l) = TextDelta(r1)  BY <1>2, <1>4
  <2>. QED BY <1>1, <1>4, <2>1, TextDeltaFields
<1>. QED BY <1>3, <1>4

LEMMA FirstTokenFields ==
  ASSUME TypeOK, NEW r \in ChatResult, NEW had \in BOOLEAN
  PROVE  /\ FirstToken(r, had) \in ChatResult
         /\ FirstToken(r, had).TTFT = IF had /\ ~gotFirstToken THEN now ELSE r.TTFT
         /\ FirstToken(r, had).TTFText = r.TTFText /\ FirstToken(r, had).ITL = r.ITL
         /\ FirstToken(r, had).Chunks = r.Chunks
         /\ FirstToken(r, had).ThinkingChunks = r.ThinkingChunks
         /\ FirstToken(r, had).Duration = r.Duration
         /\ FirstToken(r, had).Aborted = r.Aborted
<1>. now \in Nat  BY DEF TypeOK
<1>. QED BY DEF FirstToken, ChatResult

-----------------------------------------------------------------------------
(* One line.  Whatever the wire, a line that is measured changes the result *)
(* by the shared rules, and the invariants of a result follow from them.    *)

Measured(l, had) ==
  /\ res' \in ChatResult
  /\ res'.TTFT = IF had /\ ~gotFirstToken THEN now ELSE res.TTFT
  /\ res'.TTFText = IF l.text /\ res.TTFText = 0 THEN now ELSE res.TTFText
  /\ res'.ITL = IF l.text /\ lastContentT # 0 THEN Append(res.ITL, now - lastContentT) ELSE res.ITL
  /\ res'.Chunks = res.Chunks + (IF l.text THEN 1 ELSE 0)
  /\ res'.ThinkingChunks = res.ThinkingChunks + (IF l.think THEN 1 ELSE 0)
  /\ lastContentT' = IF l.text THEN now ELSE lastContentT
  /\ gotFirstToken' = (gotFirstToken \/ had)

LEMMA MeasuredGaps ==
  ASSUME TypeOK, ClockInv, OneGapPerLaterChunk, NEW l \in Lines, NEW had \in BOOLEAN,
         Measured(l, had)
  PROVE  OneGapPerLaterChunk'
<1>. /\ res \in ChatResult /\ lastContentT \in Nat /\ now \in Nat
     /\ res.ITL \in Seq(Nat) /\ res.Chunks \in Nat /\ now - lastContentT \in Int
  BY DEF TypeOK, ChatResult
<1>1. (res.Chunks > 0) = (lastContentT > 0)  BY DEF ClockInv
<1>2. CASE ~l.text
  BY <1>2 DEF Measured, OneGapPerLaterChunk
<1>3. CASE l.text /\ lastContentT = 0
  BY <1>1, <1>3 DEF Measured, OneGapPerLaterChunk
<1>4. CASE l.text /\ lastContentT # 0
  <2>1. Len(res'.ITL) = Len(res.ITL) + 1  BY <1>4 DEF Measured, ClockInv
  <2>. QED BY <1>1, <1>4, <2>1 DEF Measured, OneGapPerLaterChunk
<1>. QED BY <1>2, <1>3, <1>4

LEMMA MeasuredClock ==
  ASSUME TypeOK, ClockInv, UntouchedInv, pc = "scan", conf.wire # "v4",
         NEW l \in LinesOf(conf.wire) \cup {Line("cut")}, NEW had \in BOOLEAN,
         Measured(l, had), conf' = conf, now' = now,
         had => Carries(l),
         firstOutputAt' = IF firstOutputAt = 0 /\ Carries(l) THEN now ELSE firstOutputAt,
         l.text => had \/ pc' # "scan"
  PROVE  ClockInv'
<1>. l \in Lines  BY LineFacts
<1>. /\ now \in Nat /\ now > 0 /\ lastContentT \in Nat /\ firstOutputAt \in Nat
     /\ res.TTFT \in Nat /\ res.TTFText \in Nat /\ res.Chunks \in Nat
  BY DEF TypeOK, ChatResult
<1>. /\ l.text \in BOOLEAN /\ Carries(l) \in BOOLEAN /\ gotFirstToken \in BOOLEAN
  BY DEF TypeOK, Lines, Carries
<1>1. /\ res'.TTFT <= now' /\ lastContentT' <= now' /\ firstOutputAt' <= now'
      /\ gotFirstToken' = (res'.TTFT > 0)
  BY DEF Measured, ClockInv
<1>2. /\ (res'.Chunks > 0) = (lastContentT' > 0)
      /\ res'.TTFText <= lastContentT'
      /\ (res'.Chunks > 0) = (res'.TTFText > 0)
  BY DEF Measured, ClockInv
<1>3. res'.TTFT # 0 => firstOutputAt' # 0 /\ firstOutputAt' <= res'.TTFT
  BY DEF Measured, ClockInv
<1>4. conf.wire \in {"openai", "anthropic"} /\ res'.TTFT # 0 => res'.TTFT = firstOutputAt'
  BY DEF Measured, ClockInv, UntouchedInv
<1>5. res'.TTFT # 0 /\ res'.TTFText # 0 => res'.TTFT <= res'.TTFText
  BY DEF Measured, ClockInv, UntouchedInv
<1>. QED BY <1>1, <1>2, <1>3, <1>4, <1>5 DEF ClockInv

-----------------------------------------------------------------------------
(* The three loops, on a line that does not fail the call.                 *)

LEMMA OpenAIEvent ==
  ASSUME IInv, pc = "scan", conf.wire = "openai", conf' = conf, now' = now,
         NEW l \in LinesOf(conf.wire) \cup {Line("cut")}, l.kind = "event", OpenAIDelta(l)
  PROVE  \E had \in BOOLEAN :
           /\ Measured(l, had)
           /\ had => Carries(l)
           /\ l.text => had \/ pc' # "scan"
           /\ pc' = "scan" => had = Carries(l) /\ ~OverBudget(res') /\ res'.Aborted = res.Aborted
           /\ pc' # "scan" => pc' = "finish" /\ OverBudget(res') /\ res'.Aborted
           /\ res'.Duration = res.Duration
           /\ outcome' = outcome /\ stop' = stop /\ toolOrder' \subseteq ToolIndexes
<1>. TypeOK /\ lastContentT <= now /\ l \in Lines  BY LineFacts DEF IInv, ClockInv
<1>. DEFINE r == Counted(res, l)
<1>0. r \in ChatResult  BY CountedFields
<1>1. CASE OverBudget(r)
  <2>1. /\ res' = [r EXCEPT !.Aborted = TRUE] /\ pc' = "finish"
        /\ lastContentT' = IF l.text THEN now ELSE lastContentT
        /\ gotFirstToken' = gotFirstToken /\ toolOrder' = toolOrder
        /\ outcome' = outcome /\ stop' = stop
    BY <1>1 DEF OpenAIDelta
  <2>. HIDE DEF r
  <2>2. /\ res' \in ChatResult /\ res'.Aborted
        /\ res'.TTFT = r.TTFT /\ res'.TTFText = r.TTFText /\ res'.ITL = r.ITL
        /\ res'.Chunks = r.Chunks /\ res'.ThinkingChunks = r.ThinkingChunks
        /\ res'.Duration = r.Duration
    BY <1>0, <2>1 DEF ChatResult
  <2>3. OverBudget(res')  BY <1>1, <2>2 DEF OverBudget
  <2>4. Measured(l, FALSE)
    BY <2>1, <2>2, CountedFields DEF Measured, r, TypeOK
  <2>. QED BY <2>1, <2>2, <2>3, <2>4, CountedFields DEF TypeOK, r
<1>2. CASE ~OverBudget(r)
  <2>. Carries(l) \in BOOLEAN  BY DEF Carries, Lines
  <2>1. /\ res' = FirstToken(r, Carries(l)) /\ pc' = "scan"
        /\ lastContentT' = IF l.text THEN now ELSE lastContentT
        /\ gotFirstToken' = (gotFirstToken \/ Carries(l)) /\ toolOrder' = toolOrder \cup l.tools
        /\ outcome' = outcome /\ stop' = stop
    BY <1>2 DEF OpenAIDelta
  <2>. HIDE DEF r
  <2>2. /\ res' \in ChatResult /\ res'.Aborted = r.Aborted
        /\ res'.TTFT = IF Carries(l) /\ ~gotFirstToken THEN now ELSE r.TTFT
        /\ res'.TTFText = r.TTFText /\ res'.ITL = r.ITL
        /\ res'.Chunks = r.Chunks /\ res'.ThinkingChunks = r.ThinkingChunks
        /\ res'.Duration = r.Duration
    BY <1>0, <2>1, FirstTokenFields
  <2>3. ~OverBudget(res')  BY <1>2, <2>2 DEF OverBudget
  <2>4. Measured(l, Carries(l))
    BY <2>1, <2>2, CountedFields DEF Measured, r
  <2>5. toolOrder' \subseteq ToolIndexes  BY <2>1 DEF TypeOK, Lines
  <2>6. l.text => Carries(l)  BY DEF Carries
  <2>. QED BY <2>1, <2>2, <2>3, <2>4, <2>5, <2>6, CountedFields DEF r
<1>. QED BY <1>1, <1>2

LEMMA StoppingEvent ==
  ASSUME IInv, pc = "scan", conf' = conf, now' = now, NEW had \in BOOLEAN,
         NEW l \in LinesOf(conf.wire) \cup {Line("cut")}, EventLine(l, had)
  PROVE  /\ Measured(l, had)
         /\ pc' = "scan" /\ outcome' = outcome /\ toolOrder' \subseteq ToolIndexes
         /\ res'.Duration = res.Duration
         /\ res'.Aborted = (res.Aborted \/ OverBudget(res'))
         /\ stop' = (stop \/ OverBudget(res') \/ l.kind = "stop")
<1>. TypeOK /\ lastContentT <= now /\ l \in Lines  BY LineFacts DEF IInv, ClockInv
<1>. DEFINE c == Counted(res, l)
            r == FirstToken(c, had)
<1>0. c \in ChatResult  BY CountedFields
<1>. HIDE DEF c
<1>1. /\ r \in ChatResult /\ r.Aborted = c.Aborted
      /\ r.TTFT = IF had /\ ~gotFirstToken THEN now ELSE c.TTFT
      /\ r.TTFText = c.TTFText /\ r.ITL = c.ITL
      /\ r.Chunks = c.Chunks /\ r.ThinkingChunks = c.ThinkingChunks /\ r.Duration = c.Duration
  BY <1>0, FirstTokenFields
<1>. DEFINE over == OverBudget(r)
<1>2. over \in BOOLEAN  BY DEF OverBudget
<1>3. /\ res' = [r EXCEPT !.Aborted = r.Aborted \/ over]
      /\ lastContentT' = IF l.text THEN now ELSE lastContentT
      /\ gotFirstToken' = (gotFirstToken \/ had)
      /\ toolOrder' = toolOrder \cup l.tools
      /\ stop' = (stop \/ over \/ l.kind = "stop")
      /\ pc' = "scan" /\ outcome' = outcome
  BY <1>2 DEF EventLine, c
<1>. HIDE DEF r, over
<1>4. /\ res' \in ChatResult /\ res'.Aborted = (r.Aborted \/ over)
      /\ res'.TTFT = r.TTFT /\ res'.TTFText = r.TTFText /\ res'.ITL = r.ITL
      /\ res'.Chunks = r.Chunks /\ res'.ThinkingChunks = r.ThinkingChunks
      /\ res'.Duration = r.Duration
  BY <1>1, <1>2, <1>3 DEF ChatResult
<1>5. over = OverBudget(res')  BY <1>4 DEF OverBudget, over
<1>6. Measured(l, had)  BY <1>1, <1>3, <1>4, CountedFields DEF Measured, c
<1>7. toolOrder' \subseteq ToolIndexes  BY <1>3 DEF TypeOK, Lines
<1>. QED BY <1>1, <1>3, <1>4, <1>5, <1>6, <1>7, CountedFields DEF c

LEMMA V4Event ==
  ASSUME IInv, pc = "scan", conf.wire = "v4", conf' = conf, now' = now, V4Text
  PROVE  /\ res' \in ChatResult
         /\ res'.TTFT = IF res.Chunks = 0 THEN now ELSE res.TTFT
         /\ res'.ITL = IF res.Chunks = 0 THEN res.ITL ELSE Append(res.ITL, now - lastContentT)
         /\ res'.Chunks = res.Chunks + 1
         /\ res'.ThinkingChunks = res.ThinkingChunks /\ res'.TTFText = res.TTFText
         /\ res'.Duration = res.Duration
         /\ res'.Aborted = OverBudget(res')
         /\ lastContentT' = now /\ outcome' = outcome
         /\ pc' = IF OverBudget(res') THEN "finish" ELSE "scan"
         /\ UNCHANGED <<gotFirstToken, toolOrder, stop>>
<1>. /\ res \in ChatResult /\ now \in Nat /\ now - lastContentT \in Nat
  BY DEF IInv, TypeOK, ClockInv
<1>. DEFINE t == IF res.Chunks = 0 THEN now ELSE res.TTFT
            g == IF res.Chunks = 0 THEN res.ITL ELSE Append(res.ITL, now - lastContentT)
            c == res.Chunks + 1
            r == [res EXCEPT !.TTFT = t, !.ITL = g, !.Chunks = c]
            over == OverBudget(r)
<1>1. t \in Nat /\ c \in Nat /\ g \in Seq(Nat)
  <2>. res.TTFT \in Nat /\ res.Chunks \in Nat /\ res.ITL \in Seq(Nat)  BY DEF ChatResult
  <2>. QED OBVIOUS
<1>2. /\ res' = [r EXCEPT !.Aborted = over]
      /\ lastContentT' = now /\ outcome' = outcome
      /\ pc' = IF over THEN "finish" ELSE "scan"
      /\ UNCHANGED <<gotFirstToken, toolOrder, stop>>
  BY DEF V4Text
<1>. HIDE DEF t, g, c
<1>3. /\ r \in ChatResult /\ r.TTFT = t /\ r.ITL = g /\ r.Chunks = c
      /\ r.ThinkingChunks = res.ThinkingChunks /\ r.TTFText = res.TTFText
      /\ r.Duration = res.Duration
  BY <1>1 DEF ChatResult
<1>4. over \in BOOLEAN  BY DEF OverBudget
<1>. HIDE DEF r, over
<1>5. /\ res' \in ChatResult /\ res'.Aborted = over
      /\ res'.TTFT = t /\ res'.ITL = g /\ res'.Chunks = c
      /\ res'.ThinkingChunks = res.ThinkingChunks /\ res'.TTFText = res.TTFText
      /\ res'.Duration = res.Duration
  BY <1>2, <1>3, <1>4 DEF ChatResult
<1>6. over = OverBudget(res')  BY <1>3, <1>5 DEF OverBudget, over
<1>. QED BY <1>2, <1>5, <1>6 DEF t, g, c

LEMMA LinePreservesInv ==
  ASSUME IInv, pc = "scan", UNCHANGED <<conf, envVars>>,
         pending' \in Nat, partial' \in BOOLEAN, scErr' \in BOOLEAN,
         NEW l \in LinesOf(conf.wire) \cup {Line("cut")}, HandleLine(l)
  PROVE  IInv'
<1>. USE DEF envVars, Count
<1>. /\ TypeOK /\ ClockInv /\ UntouchedInv /\ OneGapPerLaterChunk
     /\ BudgetInv /\ AbortInv /\ EndInv
  BY DEF IInv
<1>. /\ res \in ChatResult /\ now \in Nat /\ now > 0 /\ firstOutputAt \in Nat /\ stop \in BOOLEAN
     /\ res.Chunks \in Nat /\ res.ThinkingChunks \in Nat /\ res.TTFT \in Nat
     /\ res.Duration \in Nat /\ res.Aborted \in BOOLEAN
  BY DEF TypeOK, ChatResult
<1>. conf.wire \in {"openai", "anthropic", "responses", "v4"} /\ conf.maxTokens \in Nat
  BY ConstantsAssumption DEF TypeOK
<1>. outcome = "none"
  BY DEF EndInv
<1>. l \in Lines /\ Carries(l) \in BOOLEAN /\ l.text \in BOOLEAN /\ l.think \in BOOLEAN
  BY LineFacts DEF Lines, Carries
<1>0. /\ replyEnded' = (replyEnded \/ l.kind = "stop") /\ replyEnded' \in BOOLEAN
      /\ firstOutputAt' = IF firstOutputAt = 0 /\ ~stop /\ Carries(l) THEN now ELSE firstOutputAt
      /\ firstOutputAt' \in Nat /\ firstOutputAt' <= now
  BY DEF HandleLine, TypeOK, ClockInv
\* A line that is not measured: skipped, discarded, the terminal one, a failure.
<1>1. ASSUME UNCHANGED parseVars, outcome' = outcome, pc' \in {"scan", "finish"},
             pc' = "scan" => ~Carries(l) \/ conf.wire = "v4",
             pc' = "finish" => l.kind = "stop" \/ stop
      PROVE  IInv'
  <2>. USE DEF parseVars
  <2>1. TypeOK'  BY <1>0, <1>1 DEF TypeOK
  <2>2. ClockInv'  BY <1>0, <1>1 DEF ClockInv
  <2>3. UntouchedInv'  BY <1>0, <1>1 DEF UntouchedInv
  <2>4. OneGapPerLaterChunk'  BY <1>1 DEF OneGapPerLaterChunk
  <2>5. BudgetInv' /\ AbortInv'  BY <1>1 DEF BudgetInv, AbortInv
  <2>6. EndInv'  BY <1>0, <1>1 DEF EndInv
  <2>. QED BY <2>1, <2>2, <2>3, <2>4, <2>5, <2>6 DEF IInv
<1>2. ASSUME UNCHANGED parseVars, l.kind \in Failures, Fail(l.kind)
      PROVE  IInv'
  <2>. USE DEF parseVars, Fail
  <2>0. outcome' \notin {"none", "ok"}  BY <1>2 DEF Failures
  <2>1. TypeOK'  BY <1>0, <1>2 DEF TypeOK
  <2>2. ClockInv'  BY <1>0, <1>2 DEF ClockInv
  <2>3. UntouchedInv'  BY <1>2 DEF UntouchedInv
  <2>4. OneGapPerLaterChunk'  BY <1>2 DEF OneGapPerLaterChunk
  <2>5. BudgetInv' /\ AbortInv'  BY <1>2 DEF BudgetInv, AbortInv
  <2>6. EndInv'  BY <2>0, <1>2 DEF EndInv
  <2>. QED BY <2>1, <2>2, <2>3, <2>4, <2>5, <2>6 DEF IInv
<1>3. CASE conf.wire = "openai" /\ OpenAILine(l)
  <2>1. CASE l.kind = "skip" /\ pc' = "scan" /\ UNCHANGED <<parseVars, outcome>>
    BY <1>1, <1>3, <2>1, LineFacts
  <2>2. CASE l.kind = "stop" /\ pc' = "finish" /\ UNCHANGED <<parseVars, outcome>>
    BY <1>1, <2>2
  <2>3. CASE l.kind \in Failures /\ Fail(l.kind) /\ UNCHANGED parseVars
    BY <1>2, <2>3
  <2>4. CASE l.kind = "event" /\ OpenAIDelta(l)
    <3>1. PICK had \in BOOLEAN :
           /\ Measured(l, had)
           /\ had => Carries(l)
           /\ l.text => had \/ pc' # "scan"
           /\ pc' = "scan" => had = Carries(l) /\ ~OverBudget(res') /\ res'.Aborted = res.Aborted
           /\ pc' # "scan" => pc' = "finish" /\ OverBudget(res') /\ res'.Aborted
           /\ res'.Duration = res.Duration
           /\ outcome' = outcome /\ stop' = stop /\ toolOrder' \subseteq ToolIndexes
      BY <1>3, <2>4, OpenAIEvent
    <3>2. ~stop  BY <1>3 DEF EndInv
    <3>3. l.think => Carries(l) /\ (l.text => Carries(l))  BY DEF Carries
    <3>4. res' \in ChatResult
      BY <3>1 DEF Measured
    <3>5. TypeOK'  BY <1>0, <3>1, <3>4 DEF Measured, TypeOK
    <3>6. ClockInv'  BY <1>0, <1>3, <3>1, <3>2, MeasuredClock
    <3>7. UntouchedInv'
      <4>1. ~gotFirstToken' => ~gotFirstToken /\ ~had  BY <3>1 DEF Measured
      <4>. SUFFICES ASSUME pc' = "scan", ~gotFirstToken'  PROVE UntouchedInv'
        BY DEF UntouchedInv
      <4>2. ~gotFirstToken /\ ~Carries(l)  BY <3>1, <4>1
      <4>3. ~l.text  BY <4>2 DEF Carries
      <4>. QED BY <1>0, <1>3, <3>1, <4>2, <4>3 DEF Measured, UntouchedInv
    <3>8. OneGapPerLaterChunk'  BY <3>1, MeasuredGaps
    <3>9. BudgetInv' /\ AbortInv'
      BY <1>3, <3>1, <3>2 DEF Measured, BudgetInv, AbortInv, OverBudget
    <3>10. EndInv'  BY <1>0, <1>3, <3>1, <3>2 DEF EndInv
    <3>. QED BY <3>5, <3>6, <3>7, <3>8, <3>9, <3>10 DEF IInv
  <2>. QED BY <1>3, <2>1, <2>2, <2>3, <2>4 DEF OpenAILine
<1>4. ASSUME conf.wire \in {"anthropic", "responses"}, NEW had \in BOOLEAN,
             had => Carries(l), l.text => had, conf.wire = "anthropic" => had = Carries(l),
             StoppingLoop(l, had)
      PROVE  IInv'
  <2>1. CASE stop /\ pc' = "finish" /\ UNCHANGED <<parseVars, outcome>>
    BY <1>1, <2>1
  <2>2. CASE l.kind \in Failures /\ Fail(l.kind) /\ UNCHANGED parseVars
    BY <1>2, <2>2
  <2>3. CASE ~stop /\ EventLine(l, had)
    <3>1. /\ Measured(l, had)
          /\ pc' = "scan" /\ outcome' = outcome /\ toolOrder' \subseteq ToolIndexes
          /\ res'.Duration = res.Duration
          /\ res'.Aborted = (res.Aborted \/ OverBudget(res'))
          /\ stop' = (stop \/ OverBudget(res') \/ l.kind = "stop")
      BY <2>3, StoppingEvent
    <3>2. OverBudget(res') \in BOOLEAN /\ ~(l.text /\ l.think)
      BY <1>4, LineFacts DEF OverBudget
    <3>3. stop' \in BOOLEAN /\ gotFirstToken' \in BOOLEAN
      BY <3>1, <3>2 DEF Measured, TypeOK
    <3>4. TypeOK'  BY <1>0, <3>1, <3>3 DEF Measured, TypeOK
    <3>5. ClockInv'  BY <1>0, <1>4, <2>3, <3>1, MeasuredClock
    <3>6. UntouchedInv'
      <4>1. ~gotFirstToken' => ~gotFirstToken /\ ~had  BY <3>1 DEF Measured
      <4>. SUFFICES ASSUME ~gotFirstToken'  PROVE UntouchedInv'
        BY DEF UntouchedInv
      <4>. QED BY <1>0, <1>4, <2>3, <3>1, <4>1 DEF Measured, UntouchedInv
    <3>7. OneGapPerLaterChunk'  BY <3>1, MeasuredGaps
    <3>8. BudgetInv' /\ AbortInv'
      BY <1>4, <2>3, <3>1, <3>2 DEF Measured, BudgetInv, AbortInv, OverBudget
    <3>9. EndInv'  BY <1>0, <1>4, <2>3, <3>1 DEF EndInv
    <3>. QED BY <3>4, <3>5, <3>6, <3>7, <3>8, <3>9 DEF IInv
  <2>. QED BY <1>4, <2>1, <2>2, <2>3 DEF StoppingLoop
<1>5. CASE conf.wire = "anthropic" /\ AnthropicLine(l)
  BY <1>4, <1>5 DEF AnthropicLine, Carries
<1>6. CASE conf.wire = "responses" /\ ResponsesLine(l)
  <2>. (l.kind = "event" /\ Carries(l)) \in BOOLEAN /\ (l.text => l.kind = "event" /\ Carries(l))
    BY LineFacts DEF Carries
  <2>. QED BY <1>4, <1>6 DEF ResponsesLine
<1>7. CASE conf.wire = "v4" /\ V4Line(l)
  <2>1. CASE l.kind = "skip" /\ pc' = "scan" /\ UNCHANGED <<parseVars, outcome>>
    BY <1>1, <1>7, <2>1
  <2>2. CASE l.kind \in Failures /\ Fail(l.kind) /\ UNCHANGED parseVars
    BY <1>2, <2>2
  <2>3. CASE l.kind = "event" /\ V4Text
    <3>1. /\ res' \in ChatResult
          /\ res'.TTFT = IF res.Chunks = 0 THEN now ELSE res.TTFT
          /\ res'.ITL = IF res.Chunks = 0 THEN res.ITL ELSE Append(res.ITL, now - lastContentT)
          /\ res'.Chunks = res.Chunks + 1
          /\ res'.ThinkingChunks = res.ThinkingChunks /\ res'.TTFText = res.TTFText
          /\ res'.Duration = res.Duration
          /\ res'.Aborted = OverBudget(res')
          /\ lastContentT' = now /\ outcome' = outcome
          /\ pc' = IF OverBudget(res') THEN "finish" ELSE "scan"
          /\ UNCHANGED <<gotFirstToken, toolOrder, stop>>
      BY <1>7, <2>3, V4Event
    <3>2. ~stop /\ Carries(l)  BY <1>7, <2>3, LineFacts DEF EndInv, Carries
    <3>3. TypeOK'  BY <1>0, <3>1 DEF TypeOK
    <3>4. ClockInv'  BY <1>0, <1>7, <3>1, <3>2 DEF ClockInv
    <3>5. UntouchedInv'  BY <1>7 DEF UntouchedInv
    <3>6. OneGapPerLaterChunk'
      <4>. res.ITL \in Seq(Nat) /\ now - lastContentT \in Int  BY DEF TypeOK, ChatResult
      <4>1. CASE res.Chunks = 0  BY <3>1, <4>1 DEF OneGapPerLaterChunk
      <4>2. CASE res.Chunks # 0
        <5>1. Len(res'.ITL) = Len(res.ITL) + 1  BY <3>1, <4>2
        <5>. QED BY <3>1, <4>2, <5>1 DEF OneGapPerLaterChunk
      <4>. QED BY <4>1, <4>2
    <3>7. BudgetInv' /\ AbortInv'
      <4>1. CASE OverBudget(res')
        <5>1. res'.Aborted /\ pc' = "finish"  BY <3>1, <4>1
        <5>2. conf.maxTokens > 0 /\ Count' >= conf.maxTokens  BY <3>1, <4>1 DEF OverBudget
        <5>3. Count' <= conf.maxTokens  BY <3>1, <3>2, <5>2 DEF BudgetInv
        <5>. QED BY <1>7, <5>1, <5>2, <5>3 DEF BudgetInv, AbortInv
      <4>2. CASE ~OverBudget(res')
        <5>1. ~res'.Aborted /\ pc' = "scan"  BY <3>1, <4>2
        <5>2. conf.maxTokens > 0 => Count' < conf.maxTokens  BY <3>1, <4>2 DEF OverBudget
        <5>. QED BY <1>7, <3>1, <5>1, <5>2 DEF BudgetInv, AbortInv
      <4>. QED BY <4>1, <4>2
    <3>8. EndInv'  BY <1>0, <1>7, <3>1, <3>2 DEF EndInv
    <3>. QED BY <3>3, <3>4, <3>5, <3>6, <3>7, <3>8 DEF IInv
  <2>. QED BY <1>7, <2>1, <2>2, <2>3 DEF V4Line
<1>. QED BY <1>3, <1>5, <1>6, <1>7 DEF HandleLine

-----------------------------------------------------------------------------
(* The whole specification.                                                *)

LEMMA InitInv == Init => IInv
<1>. SUFFICES ASSUME Init PROVE IInv  OBVIOUS
<1>. USE DEF Init
<1>1. /\ res \in ChatResult /\ res.TTFT = 0 /\ res.TTFText = 0 /\ res.ITL = <<>>
      /\ res.Chunks = 0 /\ res.ThinkingChunks = 0 /\ ~res.Aborted
  BY DEF NoResult, ChatResult
<1>2. TypeOK
  <2>1. now \in 1..MaxNow /\ segments \in 0..MaxSegments  BY ConstantsAssumption
  <2>. QED BY <1>1, <2>1 DEF TypeOK
<1>3. ClockInv /\ UntouchedInv
  <2>1. (res.TTFT > 0) = FALSE /\ (res.Chunks > 0) = FALSE /\ (res.TTFText > 0) = FALSE
        /\ (lastContentT > 0) = FALSE /\ gotFirstToken = FALSE
    BY <1>1
  <2>2. res.TTFT <= now /\ lastContentT <= now /\ firstOutputAt <= now /\ res.TTFText <= lastContentT
    BY <1>1
  <2>. QED BY <1>1, <2>1, <2>2 DEF ClockInv, UntouchedInv
<1>4. OneGapPerLaterChunk  BY <1>1 DEF OneGapPerLaterChunk
<1>5. BudgetInv /\ AbortInv
  <2>. conf.maxTokens \in Nat  BY ConstantsAssumption, <1>2 DEF TypeOK
  <2>. QED BY <1>1 DEF BudgetInv, AbortInv, Count
<1>6. EndInv  BY DEF EndInv
<1>. QED BY <1>2, <1>3, <1>4, <1>5, <1>6 DEF IInv

LEMMA FinishScanInv == ASSUME IInv, FinishScan PROVE IInv'
<1>. USE DEF envVars, bufferVars, auxVars
<1>. /\ TypeOK /\ ClockInv /\ UntouchedInv /\ OneGapPerLaterChunk
     /\ BudgetInv /\ AbortInv /\ EndInv
  BY DEF IInv
<1>. res \in ChatResult /\ now \in Nat /\ now > 0 /\ res.Aborted \in BOOLEAN /\ scErr \in BOOLEAN
  BY DEF TypeOK, ChatResult
<1>. /\ pc = "finish"
     /\ UNCHANGED <<conf, now, ctx, body, segments, pending, partial, gotFirstToken,
                    lastContentT, toolOrder, stop, scErr, firstOutputAt, replyEnded>>
  BY DEF FinishScan
<1>1. CASE scErr /\ ~IsAbort /\ Fail("read") /\ UNCHANGED res
  <2>. USE <1>1 DEF Fail
  <2>1. TypeOK'  BY DEF TypeOK
  <2>2. ClockInv' /\ UntouchedInv'  BY DEF ClockInv, UntouchedInv
  <2>3. OneGapPerLaterChunk'  BY DEF OneGapPerLaterChunk
  <2>4. BudgetInv' /\ AbortInv'  BY DEF BudgetInv, AbortInv, Count
  <2>5. EndInv'  BY DEF EndInv
  <2>. QED BY <2>1, <2>2, <2>3, <2>4, <2>5 DEF IInv
<1>2. CASE /\ ~scErr \/ IsAbort
           /\ res' = [res EXCEPT !.Aborted = @ \/ scErr, !.Duration = now]
           /\ IF res'.Aborted THEN pc' = "done" /\ outcome' = "ok"
                              ELSE pc' = "drain" /\ UNCHANGED outcome
  <2>1. /\ res' \in ChatResult /\ res'.Aborted = (res.Aborted \/ scErr) /\ res'.Duration = now
        /\ res'.TTFT = res.TTFT /\ res'.TTFText = res.TTFText /\ res'.ITL = res.ITL
        /\ res'.Chunks = res.Chunks /\ res'.ThinkingChunks = res.ThinkingChunks
    BY <1>2 DEF ChatResult
  <2>2. pc' \in {"done", "drain"} /\ (pc' = "done" => outcome' = "ok" /\ res'.Aborted)
        /\ (pc' = "drain" => outcome' = outcome /\ ~res'.Aborted)
    BY <1>2
  <2>3. TypeOK'  BY <2>1, <2>2 DEF TypeOK
  <2>4. ClockInv' /\ UntouchedInv'  BY <2>1, <2>2 DEF ClockInv, UntouchedInv
  <2>5. OneGapPerLaterChunk'  BY <2>1 DEF OneGapPerLaterChunk
  <2>6. BudgetInv'  BY <2>1, <2>2 DEF BudgetInv, Count
  <2>7. AbortInv'
    <3>1. CASE res.Aborted  BY <2>1, <3>1 DEF AbortInv, Count
    <3>2. CASE ~res.Aborted /\ res'.Aborted
      <4>1. scErr /\ IsAbort /\ pc' = "done"  BY <1>2, <2>1, <2>2, <3>2
      <4>. QED BY <4>1 DEF AbortInv, IsAbort
    <3>3. CASE ~res'.Aborted  BY <3>3 DEF AbortInv
    <3>. QED BY <3>1, <3>2, <3>3
  <2>8. EndInv'
    <3>1. /\ (pc' = "done") = (outcome' # "none")
          /\ res'.TTFT <= res'.Duration /\ lastContentT' <= res'.Duration
      BY <2>1, <2>2 DEF EndInv, ClockInv
    <3>2. ~res'.Aborted => replyEnded' \/ body' = "ended"
      BY <1>2, <2>1 DEF EndInv
    <3>. QED BY <2>2, <3>1, <3>2 DEF EndInv
  <2>. QED BY <2>3, <2>4, <2>5, <2>6, <2>7, <2>8 DEF IInv
<1>. QED BY <1>1, <1>2 DEF FinishScan

\* What the environment does leaves what the parser knows alone.
LEMMA EnvironmentInv == ASSUME IInv, Environment PROVE IInv'
<1>. USE DEF bufferVars, auxVars, parseVars
<1>. /\ TypeOK /\ ClockInv /\ UntouchedInv /\ OneGapPerLaterChunk
     /\ BudgetInv /\ AbortInv /\ EndInv
  BY DEF IInv
<1>1. /\ UNCHANGED <<conf, pc, parseVars, scErr, outcome, auxVars>>
      /\ now' \in 1..MaxNow /\ now' >= now
      /\ ctx' \in {"live", "expired", "cancelled"} /\ (ctx # "live" => ctx' # "live")
      /\ body' \in {"open", "ended", "reset", "timeout", "expired", "cancelled"}
      /\ body = "ended" => body' = "ended"
      /\ segments' \in 0..MaxSegments /\ pending' \in Nat /\ partial' \in BOOLEAN
  <2>. now \in 1..MaxNow /\ pending \in Nat /\ partial \in BOOLEAN /\ segments \in 0..MaxSegments
       /\ MaxNow \in Nat /\ MaxSegments \in Nat
       /\ ctx \in {"live", "expired", "cancelled"}
       /\ body \in {"open", "ended", "reset", "timeout", "expired", "cancelled"}
    BY ConstantsAssumption DEF TypeOK
  <2>0. ASSUME NEW why, BreakBody(why)
        PROVE  body' = why /\ pending' \in Nat /\ partial' \in BOOLEAN
    <3>1. body' = why  BY <2>0 DEF BreakBody
    <3>2. pending' \in Nat  BY <2>0 DEF BreakBody, LoseSuffix
    <3>3. partial' \in BOOLEAN  BY <2>0 DEF BreakBody, LoseSuffix
    <3>. QED BY <3>1, <3>2, <3>3
  <2>1. CASE Deliver
    <3>1. segments' \in 0..MaxSegments  BY <2>1 DEF Deliver
    <3>2. pending' \in Nat  BY <2>1 DEF Deliver
    <3>3. partial' \in BOOLEAN  BY <2>1 DEF Deliver
    <3>. QED BY <2>1, <3>1, <3>2, <3>3 DEF Deliver
  <2>2. CASE EndBody
    <3>1. body = "open" /\ body' = "ended"
          /\ UNCHANGED <<conf, now, ctx, segments, bufferVars, pc, parseVars, scErr, outcome, auxVars>>
      BY <2>2 DEF EndBody
    <3>. QED BY <3>1
  <2>3. CASE ResetConnection  BY <2>0, <2>3 DEF ResetConnection
  <2>4. CASE TimeOut  BY <2>0, <2>4 DEF TimeOut
  <2>5. ASSUME NEW why \in {"expired", "cancelled"}, DoneContext(why)
        PROVE  /\ UNCHANGED <<conf, now, segments, pc, parseVars, scErr, outcome, auxVars>>
               /\ ctx' = why /\ (body' = why \/ body' = body) /\ (body = "ended" => body' = "ended")
               /\ pending' \in Nat /\ partial' \in BOOLEAN
    <3>1. CASE body = "open" /\ BreakBody(why)  BY <2>0, <2>5, <3>1 DEF DoneContext
    <3>2. CASE body # "open" /\ UNCHANGED <<body, bufferVars>>  BY <2>5, <3>2 DEF DoneContext
    <3>. QED BY <2>5, <3>1, <3>2 DEF DoneContext
  <2>6. CASE AbortDeadline  BY <2>5, <2>6 DEF AbortDeadline
  <2>7. CASE CancelVU  BY <2>5, <2>7 DEF CancelVU
  <2>8. CASE Tick  BY <2>8 DEF Tick
  <2>. QED BY <2>1, <2>2, <2>3, <2>4, <2>6, <2>7, <2>8 DEF Environment
<1>2. TypeOK'  BY <1>1 DEF TypeOK
<1>3. ClockInv'
  <2>. now \in Nat /\ now' \in Nat /\ res.TTFT \in Nat /\ lastContentT \in Nat /\ firstOutputAt \in Nat
    BY <1>1, ConstantsAssumption DEF TypeOK, ChatResult
  <2>. QED BY <1>1 DEF ClockInv
<1>4. UntouchedInv' /\ OneGapPerLaterChunk'  BY <1>1 DEF UntouchedInv, OneGapPerLaterChunk
<1>5. BudgetInv' /\ AbortInv'  BY <1>1 DEF BudgetInv, AbortInv, Count
<1>6. EndInv'  BY <1>1 DEF EndInv
<1>. QED BY <1>2, <1>3, <1>4, <1>5, <1>6 DEF IInv

LEMMA NextInv == IInv /\ [Next]_vars => IInv'
<1>. SUFFICES ASSUME IInv, [Next]_vars PROVE IInv'  OBVIOUS
<1>. TypeOK  BY DEF IInv
<1>1. CASE ScanLine
  <2>1. /\ pc = "scan" /\ UNCHANGED <<conf, envVars>> /\ pending' \in Nat
        /\ partial' \in BOOLEAN /\ scErr' \in BOOLEAN
    BY <1>1 DEF ScanLine, TypeOK
  <2>2. PICK l \in LinesOf(conf.wire) : HandleLine(l)  BY <1>1 DEF ScanLine
  <2>. QED BY <2>1, <2>2, LinePreservesInv
<1>2. CASE ScanTail
  <2>1. /\ pc = "scan" /\ UNCHANGED <<conf, envVars>> /\ pending' \in Nat
        /\ partial' \in BOOLEAN /\ scErr' \in BOOLEAN
    BY <1>2 DEF ScanTail, TypeOK, ReadError, Broken
  <2>2. PICK l \in LinesOf(conf.wire) \cup {Line("cut")} : HandleLine(l)  BY <1>2 DEF ScanTail
  <2>. QED BY <2>1, <2>2, LinePreservesInv
<1>3. CASE ScanStops
  <2>. USE <1>3 DEF ScanStops, envVars, bufferVars, parseVars, auxVars, ReadError, Broken
  <2>1. TypeOK'  BY DEF TypeOK
  <2>2. ClockInv' /\ UntouchedInv'  BY DEF IInv, ClockInv, UntouchedInv
  <2>3. OneGapPerLaterChunk'  BY DEF IInv, OneGapPerLaterChunk
  <2>4. BudgetInv' /\ AbortInv'  BY DEF IInv, BudgetInv, AbortInv, Count
  <2>5. EndInv'  BY DEF IInv, EndInv
  <2>. QED BY <2>1, <2>2, <2>3, <2>4, <2>5 DEF IInv
<1>4. CASE FinishScan  BY <1>4, FinishScanInv
<1>5. CASE Drain
  <2>. USE <1>5 DEF Drain, envVars, bufferVars, parseVars, auxVars
  <2>1. TypeOK'  BY DEF TypeOK
  <2>2. ClockInv' /\ UntouchedInv'  BY DEF IInv, ClockInv, UntouchedInv
  <2>3. OneGapPerLaterChunk'  BY DEF IInv, OneGapPerLaterChunk
  <2>4. BudgetInv' /\ AbortInv'  BY DEF IInv, BudgetInv, AbortInv, Count
  <2>5. EndInv'  BY DEF IInv, EndInv
  <2>. QED BY <2>1, <2>2, <2>3, <2>4, <2>5 DEF IInv
<1>6. CASE Environment  BY <1>6, EnvironmentInv
<1>7. CASE UNCHANGED vars
  <2>. USE <1>7 DEF vars, envVars, bufferVars, parseVars, auxVars
  <2>1. TypeOK'  BY DEF TypeOK
  <2>2. ClockInv' /\ UntouchedInv'  BY DEF IInv, ClockInv, UntouchedInv
  <2>3. OneGapPerLaterChunk'  BY DEF IInv, OneGapPerLaterChunk
  <2>4. BudgetInv' /\ AbortInv'  BY DEF IInv, BudgetInv, AbortInv, Count
  <2>5. EndInv'  BY DEF IInv, EndInv
  <2>. QED BY <2>1, <2>2, <2>3, <2>4, <2>5 DEF IInv
<1>. QED BY <1>1, <1>2, <1>3, <1>4, <1>5, <1>6, <1>7 DEF Next, Reader, Returned

\* IInv is inductive, for every value of the constants.
THEOREM Invariance == Spec => []IInv
<1>1. Init => IInv  BY InitInv
<1>2. IInv /\ [Next]_vars => IInv'  BY NextInv
<1>. QED BY <1>1, <1>2, PTL DEF Spec

\* Every variable keeps its type.
THEOREM TypeCorrect == Spec => []TypeOK
<1>1. IInv => TypeOK  BY DEF IInv
<1>. QED BY <1>1, Invariance, PTL

\* The times a result reports are in the order they happened.
THEOREM TimesAreInOrder == Spec => []TimesInOrder
<1>1. IInv => TimesInOrder
  <2>. SUFFICES ASSUME IInv PROVE TimesInOrder  OBVIOUS
  <2>. res.TTFT \in Nat /\ firstOutputAt \in Nat  BY DEF IInv, TypeOK, ChatResult
  <2>. QED BY DEF IInv, ClockInv, EndInv, TimesInOrder
<1>. QED BY <1>1, Invariance, PTL

\* There is one ITL sample for each content chunk after the first.
THEOREM GapsMatchChunks == Spec => []OneGapPerLaterChunk
<1>1. IInv => OneGapPerLaterChunk  BY DEF IInv
<1>. QED BY <1>1, Invariance, PTL

\* The token budget bounds what is consumed, and reaching it is an abort.
THEOREM BudgetIsKept == Spec => []BudgetHolds
<1>1. IInv => BudgetHolds  BY DEF IInv, BudgetInv, BudgetHolds, Count
<1>. QED BY <1>1, Invariance, PTL

\* A result is aborted only by a limit the call had set.
THEOREM AbortsHaveCauses == Spec => []AbortHasCause
<1>1. IInv => AbortHasCause  BY DEF IInv, AbortInv, AbortHasCause, Count
<1>. QED BY <1>1, Invariance, PTL

\* A reply cut off by a failing connection is never a complete result.
THEOREM CompleteRepliesEnded == Spec => []CompleteReplyEnded
<1>1. IInv => CompleteReplyEnded  BY DEF IInv, EndInv, CompleteReplyEnded, Broken
<1>. QED BY <1>1, Invariance, PTL

-----------------------------------------------------------------------------
(* The text phase: the ITL samples add up, and TPOT spreads the same phase. *)

LEMMA TotalIsFold == ASSUME NEW g PROVE Total(g) = Gaps!Fold(0, g)
BY DEF Total, FoldLeft, MapThenFoldSet, Max,
       Gaps!Fold, Gaps!Top

\* Without samples there is nothing to add up.
LEMMA TotalOfNone == Total(<<>>) = 0
BY TotalIsFold, Gaps!FoldOfNone

\* A sample more adds its time.
LEMMA TotalOfOneMore ==
  ASSUME NEW g \in Seq(Nat), NEW x \in Nat
  PROVE  Total(Append(g, x)) = Total(g) + x
<1>. DEFINE z == 0
<1>. HIDE DEF z
<1>1. Gaps!Fold(z, Append(g, x)) = Plus(Gaps!Fold(z, g), x)
  BY Gaps!FoldOfOneMore
<1>. QED BY <1>1, TotalIsFold DEF Plus, z

LEMMA TotalIsNat == ASSUME NEW g \in Seq(Nat) PROVE Total(g) \in Nat
<1>. DEFINE z == 0
<1>1. z \in Nat /\ \A t \in Nat, x \in Nat : Plus(t, x) \in Nat
  BY DEF Plus
<1>. HIDE DEF z
<1>2. Gaps!Fold(z, g) \in Nat
  BY <1>1, Gaps!FoldKeeps
<1>. QED BY <1>2, TotalIsFold DEF z

\* The samples taken so far cut the time from the first content chunk to the last.
PhaseInv == res.Chunks > 0 => FirstTextAt + Total(res.ITL) = lastContentT

\* A content chunk starts the phase or adds the time since the last one, on every wire.
LEMMA ChunkPhase ==
  ASSUME IInv, PhaseInv, conf' = conf,
         res'.Chunks = res.Chunks + 1, lastContentT' = now,
         res.Chunks = 0 => FirstTextAt' = now /\ res'.ITL = res.ITL,
         res.Chunks # 0 =>
           FirstTextAt' = FirstTextAt /\ res'.ITL = Append(res.ITL, now - lastContentT)
  PROVE  PhaseInv'
<1>. /\ res.ITL \in Seq(Nat) /\ res.Chunks \in Nat /\ res.TTFT \in Nat /\ res.TTFText \in Nat
     /\ now \in Nat /\ lastContentT \in Nat /\ now - lastContentT \in Nat
  BY DEF IInv, TypeOK, ClockInv, ChatResult
<1>0. FirstTextAt \in Nat
  BY DEF FirstTextAt
<1>1. CASE res.Chunks = 0
  <2>1. res.ITL = <<>>
    BY <1>1 DEF IInv, OneGapPerLaterChunk
  <2>2. FirstTextAt' + Total(res'.ITL) = now + 0
    BY <1>1, <2>1, TotalOfNone
  <2>. QED BY <2>2 DEF PhaseInv
<1>2. CASE res.Chunks # 0
  <2>1. FirstTextAt + Total(res.ITL) = lastContentT
    BY <1>2 DEF PhaseInv
  <2>2. Total(res'.ITL) = Total(res.ITL) + (now - lastContentT) /\ Total(res.ITL) \in Nat
    BY <1>2, TotalOfOneMore, TotalIsNat
  <2>3. FirstTextAt' + Total(res'.ITL) = now
    <3>. DEFINE a == FirstTextAt  b == Total(res.ITL)
    <3>1. FirstTextAt' = a /\ Total(res'.ITL) = b + (now - lastContentT)
      BY <1>2, <2>2
    <3>2. a \in Nat /\ b \in Nat /\ a + b = lastContentT
      BY <1>0, <2>1, <2>2
    <3>. HIDE DEF a, b
    <3>. QED BY <3>1, <3>2
  <2>. QED BY <1>2, <2>3 DEF PhaseInv
<1>. QED BY <1>1, <1>2

\* What a line does to the locals of a parser, whatever the wire.
LEMMA LineIsMeasured ==
  ASSUME IInv, pc = "scan", UNCHANGED <<conf, envVars>>,
         NEW l \in LinesOf(conf.wire) \cup {Line("cut")}, HandleLine(l)
  PROVE  \/ UNCHANGED parseVars
         \/ conf.wire # "v4" /\ \E had \in BOOLEAN : Measured(l, had)
         \/ conf.wire = "v4" /\ V4Text
<1>. now' = now /\ conf' = conf
  BY DEF envVars
<1>0. l \in Lines /\ Carries(l) \in BOOLEAN
  BY LineFacts DEF IInv, Carries, Lines
<1>1. CASE conf.wire = "openai" /\ OpenAILine(l)
  BY <1>1, OpenAIEvent DEF OpenAILine
<1>2. ASSUME conf.wire # "v4", NEW had \in BOOLEAN, StoppingLoop(l, had)
      PROVE  UNCHANGED parseVars \/ Measured(l, had)
  BY <1>2, StoppingEvent DEF StoppingLoop
<1>3. CASE conf.wire = "anthropic" /\ AnthropicLine(l)
  BY <1>0, <1>2, <1>3 DEF AnthropicLine
<1>4. CASE conf.wire = "responses" /\ ResponsesLine(l)
  <2>1. (l.kind = "event" /\ Carries(l)) \in BOOLEAN
    OBVIOUS
  <2>. QED BY <1>2, <1>4, <2>1 DEF ResponsesLine
<1>5. CASE conf.wire = "v4" /\ V4Line(l)
  BY <1>5 DEF V4Line
<1>. QED BY <1>1, <1>3, <1>4, <1>5 DEF HandleLine

LEMMA LinePhase ==
  ASSUME IInv, PhaseInv, pc = "scan", UNCHANGED <<conf, envVars>>,
         NEW l \in LinesOf(conf.wire) \cup {Line("cut")}, HandleLine(l)
  PROVE  PhaseInv'
<1>. now' = now /\ conf' = conf
  BY DEF envVars
<1>. TypeOK /\ ClockInv /\ l \in Lines
  BY LineFacts DEF IInv
<1>. res.Chunks \in Nat /\ res.TTFText \in Nat /\ l.text \in BOOLEAN
  BY DEF TypeOK, ChatResult, Lines
<1>1. CASE UNCHANGED parseVars
  BY <1>1 DEF parseVars, PhaseInv, FirstTextAt
<1>2. ASSUME conf.wire # "v4", NEW had \in BOOLEAN, Measured(l, had)  PROVE PhaseInv'
  <2>1. FirstTextAt = res.TTFText /\ FirstTextAt' = res'.TTFText
    BY <1>2 DEF FirstTextAt
  <2>2. CASE l.text
    <3>1. (res.Chunks = 0) = (lastContentT = 0) /\ (res.Chunks = 0) = (res.TTFText = 0)
      BY <1>2 DEF ClockInv, TypeOK
    <3>. QED BY <1>2, <2>1, <2>2, <3>1, ChunkPhase DEF Measured
  <2>3. CASE ~l.text
    BY <1>2, <2>1, <2>3 DEF Measured, PhaseInv
  <2>. QED BY <2>2, <2>3
<1>3. CASE conf.wire = "v4" /\ V4Text
  BY <1>3, V4Event, ChunkPhase DEF FirstTextAt
<1>. QED BY <1>1, <1>2, <1>3, LineIsMeasured

LEMMA PhaseStep == IInv /\ PhaseInv /\ [Next]_vars => PhaseInv'
<1>. SUFFICES ASSUME IInv, PhaseInv, [Next]_vars PROVE PhaseInv'  OBVIOUS
<1>1. CASE ScanLine  BY <1>1, LinePhase DEF ScanLine
<1>2. CASE ScanTail  BY <1>2, LinePhase DEF ScanTail
<1>3. CASE FinishScan
  <2>1. conf' = conf /\ lastContentT' = lastContentT
        /\ (res' = res \/ res' = [res EXCEPT !.Aborted = @ \/ scErr, !.Duration = now])
    BY <1>3 DEF FinishScan
  <2>2. /\ res'.TTFT = res.TTFT /\ res'.TTFText = res.TTFText
        /\ res'.ITL = res.ITL /\ res'.Chunks = res.Chunks
    BY <2>1 DEF IInv, TypeOK, ChatResult
  <2>. QED BY <2>1, <2>2 DEF PhaseInv, FirstTextAt
<1>4. ASSUME UNCHANGED <<conf, parseVars>>  PROVE PhaseInv'
  BY <1>4 DEF parseVars, PhaseInv, FirstTextAt
<1>5. CASE ScanStops \/ Drain  BY <1>4, <1>5 DEF ScanStops, Drain
<1>6. CASE Environment
  BY <1>4, <1>6 DEF Environment, Deliver, EndBody, ResetConnection, TimeOut, AbortDeadline,
                    CancelVU, DoneContext, Tick
<1>7. CASE UNCHANGED vars  BY <1>4, <1>7 DEF vars
<1>. QED BY <1>1, <1>2, <1>3, <1>5, <1>6, <1>7 DEF Next, Reader, Returned

\* The ITL samples of a reply add up to the time from its first content chunk to
\* its last, and TPOT's window covers them, for every count of tokens.
THEOREM TextPhaseIsMeasured == Spec => []TextPhaseMeasured
<1>1. Init => PhaseInv
  BY DEF Init, NoResult, PhaseInv
<1>2. IInv /\ PhaseInv => TextPhaseMeasured
  <2>. SUFFICES ASSUME IInv, PhaseInv, outcome = "ok", NEW u \in TokenCounts,
                       TPOTDerivable(res, u)
                PROVE  /\ TPOTWindow(res, u) >= Total(res.ITL)
                       /\ u.thinking > 0 => res.Chunks > 0
                                            /\ TPOTWindow(res, u) = res.Duration - FirstTextAt
    BY DEF PhaseInv, TextPhaseMeasured
  <2>. /\ res.ITL \in Seq(Nat) /\ res.Chunks \in Nat /\ res.TTFT \in Nat /\ res.TTFText \in Nat
       /\ res.Duration \in Nat /\ lastContentT \in Nat
       /\ u.completion \in Nat /\ u.thinking \in Nat
    BY ConstantsAssumption DEF IInv, TypeOK, ChatResult
  <2>. DEFINE from == StreamedOutput(res, u).from
  <2>1. from = (IF u.thinking = 0 THEN res.TTFT ELSE res.TTFText)
    BY DEF StreamedOutput
  <2>2. from > 0 /\ res.Duration > from /\ TPOTWindow(res, u) = res.Duration - from
    BY DEF TPOTDerivable, TPOTWindow
  <2>. HIDE DEF from
  <2>3. lastContentT <= res.Duration /\ Total(res.ITL) \in Nat /\ FirstTextAt \in Nat
    BY TotalIsNat DEF IInv, EndInv, FirstTextAt
  <2>4. u.thinking > 0 => conf.wire # "v4" /\ res.Chunks > 0 /\ from = FirstTextAt
    BY <2>1, <2>2 DEF IInv, ClockInv, FirstTextAt
  <2>5. res.Chunks > 0 => from <= FirstTextAt
    <3>1. res.Chunks > 0 /\ conf.wire # "v4" => res.TTFText > 0
      BY DEF IInv, ClockInv
    <3>2. res.TTFT # 0 /\ res.TTFText # 0 => res.TTFT <= res.TTFText
      BY DEF IInv, ClockInv
    <3>. QED BY <2>1, <2>2, <2>4, <3>1, <3>2 DEF FirstTextAt
  <2>6. res.Chunks = 0 => Total(res.ITL) = 0
    <3>1. res.Chunks = 0 => res.ITL = <<>>
      BY DEF IInv, OneGapPerLaterChunk
    <3>. QED BY <3>1, TotalOfNone
  <2>7. res.Chunks > 0 => FirstTextAt + Total(res.ITL) = lastContentT
    BY DEF PhaseInv
  <2>. QED BY <2>1, <2>2, <2>3, <2>4, <2>5, <2>6, <2>7
<1>. QED BY <1>1, <1>2, PhaseStep, Invariance, PTL DEF Spec

\* What arrives after the parser decided to stop is not measured.
THEOREM NothingMeasuredAfterStop == Spec => FrozenOnceStopped
<1>. DEFINE Frozen == stop \/ pc # "scan" =>
                       UNCHANGED <<res.Chunks, res.ThinkingChunks, res.TTFT, toolOrder>>
<1>1. IInv /\ [Next]_vars => [Frozen]_vars
  <2>. SUFFICES ASSUME IInv, Next, stop \/ pc # "scan"
       PROVE  UNCHANGED <<res.Chunks, res.ThinkingChunks, res.TTFT, toolOrder>>
    OBVIOUS
  <2>. USE DEF parseVars
  <2>1. res \in ChatResult /\ conf.wire \in {"openai", "anthropic", "responses", "v4"}
    BY ConstantsAssumption DEF IInv, TypeOK
  <2>2. ASSUME pc = "scan", NEW l, HandleLine(l)  PROVE UNCHANGED parseVars
    <3>1. stop /\ conf.wire \in {"anthropic", "responses"}  BY <2>2 DEF IInv, EndInv
    <3>. QED BY <2>2, <3>1 DEF HandleLine, AnthropicLine, ResponsesLine, StoppingLoop
  <2>3. CASE ScanLine  BY <2>2, <2>3 DEF ScanLine
  <2>4. CASE ScanTail  BY <2>2, <2>4 DEF ScanTail
  <2>5. CASE ScanStops  BY <2>5 DEF ScanStops
  <2>6. CASE FinishScan
    <3>1. toolOrder' = toolOrder  BY <2>6 DEF FinishScan
    <3>2. res' = res \/ res' = [res EXCEPT !.Aborted = @ \/ scErr, !.Duration = now]
      BY <2>6 DEF FinishScan
    <3>. QED BY <2>1, <3>1, <3>2 DEF ChatResult
  <2>7. CASE Drain  BY <2>7 DEF Drain
  <2>8. CASE Environment
    BY <2>8 DEF Environment, Deliver, EndBody, ResetConnection, TimeOut, AbortDeadline,
                CancelVU, DoneContext, Tick
  <2>9. CASE Returned  BY <2>9 DEF Returned, vars
  <2>. QED BY <2>3, <2>4, <2>5, <2>6, <2>7, <2>8, <2>9 DEF Next, Reader
<1>. QED BY <1>1, Invariance, PTL DEF Spec, FrozenOnceStopped

\* Reading a reply implements the abstract promise: every step of it is a
\* verdict, the end of the context, or a stutter.
THEOREM ImplementsVerdict == Spec => GivesOneVerdict
<1>. USE DEF Verdict!MayAbort
<1>1. Init => Verdict!Init
  <2>. SUFFICES ASSUME Init PROVE Verdict!Init  OBVIOUS
  <2>. QED BY DEF Init, Verdict!Init
<1>2. IInv /\ IInv' /\ [Next]_vars => [Verdict!Next]_Verdict!vars
  <2>. SUFFICES ASSUME IInv, IInv', [Next]_vars PROVE [Verdict!Next]_Verdict!vars  OBVIOUS
  <2>. DEFINE V == CASE outcome = "none" -> "none"
                     [] outcome = "ok" -> IF res.Aborted THEN "aborted" ELSE "complete"
                     [] OTHER -> "failed"
  <2>. USE DEF Verdict!vars, Verdict!Next, Verdict!Settle, Verdict!Complete, Verdict!Abort,
               Verdict!Fail, Verdict!ContextEnds
  <2>1. (pc = "done") = (outcome # "none") /\ (pc' = "done") = (outcome' # "none")
    BY DEF IInv, EndInv
  <2>2. conf' = conf
    BY DEF Next, Reader, Environment, Returned, vars, ScanLine, ScanTail, ScanStops, FinishScan,
           Drain, Deliver, EndBody, ResetConnection, TimeOut, AbortDeadline, CancelVU,
           DoneContext, Tick
  \* A step of the reader may settle, and leaves the context alone.
  <2>3. ASSUME ctx' = ctx, pc # "done"  PROVE [Verdict!Next]_Verdict!vars
    <3>1. V = "none" /\ outcome = "none"  BY <2>1, <2>3
    <3>2. CASE outcome' = "none"  BY <2>2, <2>3, <3>1, <3>2
    <3>3. CASE outcome' \notin {"none", "ok"}
      <4>1. V' = "failed"  BY <3>3
      <4>. QED BY <2>2, <2>3, <3>1, <4>1
    <3>4. CASE outcome' = "ok" /\ ~res'.Aborted
      <4>1. V' = "complete"  BY <3>4
      <4>. QED BY <2>2, <2>3, <3>1, <4>1
    <3>5. CASE outcome' = "ok" /\ res'.Aborted
      <4>1. V' = "aborted"  BY <3>5
      <4>2. conf.maxTokens > 0 \/ (conf.maxDuration > 0 /\ ctx # "live")
        BY <2>2, <2>3, <3>5 DEF IInv, AbortInv
      <4>. QED BY <2>2, <2>3, <3>1, <4>1, <4>2
    <3>. QED BY <3>2, <3>3, <3>4, <3>5
  \* A step that leaves the result alone ends the context or stutters.
  <2>4. ASSUME UNCHANGED <<outcome, res>>, ctx' = ctx \/ (ctx = "live" /\ ctx' # "live" /\ pc # "done")
        PROVE  [Verdict!Next]_Verdict!vars
    <3>1. V' = V  BY <2>4
    <3>2. CASE ctx' = ctx  BY <2>2, <3>1, <3>2
    <3>3. CASE ctx = "live" /\ ctx' # "live" /\ pc # "done"
      <4>1. V = "none"  BY <2>1, <3>3
      <4>. QED BY <2>2, <3>1, <3>3, <4>1
    <3>. QED BY <2>4, <3>2, <3>3
  <2>5. CASE Reader
    BY <2>3, <2>5 DEF Reader, ScanLine, ScanTail, ScanStops, FinishScan, Drain, envVars
  <2>6. CASE Environment
    BY <2>4, <2>6 DEF Environment, Deliver, EndBody, ResetConnection, TimeOut, AbortDeadline,
                      CancelVU, DoneContext, Tick, parseVars
  <2>7. CASE UNCHANGED vars  BY <2>4, <2>7 DEF vars, envVars, parseVars
  <2>. QED BY <2>5, <2>6, <2>7 DEF Next, Returned
<1>. QED BY <1>1, <1>2, Invariance, PTL DEF Spec, GivesOneVerdict, Verdict!SafeSpec

=============================================================================
