-------------------------- MODULE AgentLoopProofs ---------------------------
(***************************************************************************)
(* What AgentLoop promises for every list of messages, reply, request and  *)
(* batch, whatever the bounds.  What is said of the translations of a list *)
(* is proved for every list a script can write, by induction over it.      *)
(***************************************************************************)
EXTENDS AgentLoop, RequestBodyProofs, FiniteSetTheorems, SequenceTheorems

Speech == INSTANCE FoldFacts WITH Op <- SayMessage
TurnSpeech == INSTANCE FoldFacts WITH Op <- SayTurn
Translation == INSTANCE FoldFacts WITH Op <- TranslateMessage
Instructions == INSTANCE FoldFacts WITH Op <- AppendSystem
Strings == INSTANCE FoldFacts WITH Op <- TakeString
InParts == INSTANCE FoldFacts WITH Op <- TakeParts
Itemization == INSTANCE FoldFacts WITH Op <- InputItem
ItemSpeech == INSTANCE FoldFacts WITH Op <- SayItem
KeptSpeech == INSTANCE FoldFacts WITH Op <- SayKept
StringSpeech == INSTANCE FoldFacts WITH Op <- SayString
Prompt == INSTANCE FoldFacts WITH Op <- AppendPrompt

-----------------------------------------------------------------------------
(* Embeddings.                                                             *)

\* The place of an index holds the last row that names it, or none.
LEMMA RowAtPlace ==
  ASSUME NEW n \in Nat, NEW rows \in [1..n -> Int], NEW i \in Int
  PROVE  /\ (\A k \in 1..n : rows[k] # i - 1) => RowAt(rows, i) = Nil
         /\ (\E k \in 1..n : rows[k] = i - 1) =>
              RowAt(rows, i) \in 1..n /\ rows[RowAt(rows, i)] = i - 1
<1>. DEFINE sent == {k \in DOMAIN rows : rows[k] = i - 1}
<1>1. RowAt(rows, i) = IF sent = {} THEN Nil ELSE CHOOSE k \in sent : \A l \in sent : l <= k
  BY DEF RowAt
<1>2. DOMAIN rows = 1..n /\ sent \in SUBSET (1..n)
  OBVIOUS
<1>3. ASSUME sent # {}  PROVE RowAt(rows, i) \in sent
  <2>. HIDE DEF sent
  <2>1. Speech!Top(sent) \in sent /\ \A y \in sent : Speech!Top(sent) >= y
    BY <1>2, <1>3, Speech!TopIsLast
  <2>2. \A y \in sent : y <= Speech!Top(sent)
    BY <1>2, <2>1
  <2>. QED BY <1>1, <1>3, <2>1, <2>2
<1>. QED BY <1>1, <1>2, <1>3

\* As many rows as places: a place is empty exactly when two rows name another.
LEMMA RowsAndPlaces ==
  ASSUME NEW n \in Nat \ {0}, NEW rows \in [1..n -> 0..(n - 1)]
  PROVE  (\E i \in 1..n : RowAt(rows, i) = Nil) =
           (\E k, l \in 1..n : k # l /\ rows[k] = rows[l])
<1>. DEFINE S == 1..n
            T == 0..(n - 1)
<1>0. /\ IsFiniteSet(S) /\ Cardinality(S) = n
      /\ IsFiniteSet(T) /\ Cardinality(T) = n
  BY FS_Interval
<1>1. rows \in [1..n -> Int]
  OBVIOUS
<1>2. ASSUME NEW i \in 1..n, RowAt(rows, i) = Nil
      PROVE  \E k, l \in 1..n : k # l /\ rows[k] = rows[l]
  <2>1. \A k \in S : rows[k] # i - 1
    <3>1. RowAt(rows, i) \notin 1..n
      BY <1>2 DEF Nil
    <3>. QED BY <1>1, <3>1, RowAtPlace
  <2>2. IsFiniteSet(T \ {i - 1}) /\ Cardinality(T \ {i - 1}) = n - 1
    <3>1. i - 1 \in T
      OBVIOUS
    <3>. HIDE DEF T
    <3>. QED BY <1>0, <3>1, FS_RemoveElement
  <2>3. rows \in [S -> T \ {i - 1}]
    BY <2>1
  <2>4. Cardinality(T \ {i - 1}) < Cardinality(S)
    BY <1>0, <2>2
  <2>. DEFINE U == T \ {i - 1}
  <2>. HIDE DEF S, U
  <2>5. \E k, l \in S : k # l /\ rows[k] = rows[l]
    BY <1>0, <2>2, <2>3, <2>4, FS_PigeonHole, SMTT(30) DEF U
  <2>. QED BY <2>5 DEF S
<1>3. ASSUME \A i \in 1..n : RowAt(rows, i) # Nil
      PROVE  \A k, l \in 1..n : rows[k] = rows[l] => k = l
  <2>1. ASSUME NEW i \in 1..n  PROVE \E k \in 1..n : rows[k] = i - 1
    <3>1. i \in Int /\ RowAt(rows, i) # Nil
      BY <1>3
    <3>. QED BY <1>1, <3>1, RowAtPlace
  <2>2. \A j \in T : \E k \in S : rows[k] = j
    <3>. SUFFICES ASSUME NEW j \in T  PROVE \E k \in S : rows[k] = j
      OBVIOUS
    <3>1. j + 1 \in 1..n /\ (j + 1) - 1 = j
      OBVIOUS
    <3>. QED BY <2>1, <3>1
  <2>3. rows \in Surjection(S, T)
    <3>. HIDE DEF S, T
    <3>1. rows \in [S -> T]
      BY DEF S, T
    <3>. QED BY <2>2, <3>1 DEF Surjection
  <2>4. rows \in Injection(S, T)
    <3>. HIDE DEF S, T
    <3>. QED BY <1>0, <2>3, FS_SurjSameCardinalityImpliesInj
  <2>. QED BY <2>4 DEF Injection, IsInjective
<1>. QED BY <1>2, <1>3

\* What the script gets of a reply whose rows name places there are.
LEMMA RowsInOrder ==
  ASSUME NEW n \in Nat \ {0}, data \in [1..n -> 0..(n - 1)],
         embeddings = [i \in 1..n |-> RowAt(data, i)]
  PROVE  /\ \A i \in DOMAIN embeddings : embeddings[i] # Nil => data[embeddings[i]] = i - 1
         /\ (\E i \in DOMAIN embeddings : embeddings[i] = Nil) =
              (\E k, l \in DOMAIN data : k # l /\ data[k] = data[l])
         /\ Len(data) = inputs /\ {data[k] : k \in DOMAIN data} = 0..(inputs - 1) =>
              {embeddings[i] : i \in 1..inputs} = DOMAIN data
<1>1. data \in [1..n -> Int] /\ DOMAIN data = 1..n /\ DOMAIN embeddings = 1..n /\ Len(data) = n
  <2>1. data \in Seq(0..(n - 1))
    OBVIOUS
  <2>. QED BY <2>1
<1>2. \A i \in 1..n : embeddings[i] = RowAt(data, i)
  OBVIOUS
<1>3. \A i \in 1..n : embeddings[i] # Nil => embeddings[i] \in 1..n /\ data[embeddings[i]] = i - 1
  BY <1>1, <1>2, RowAtPlace
<1>4. (\E i \in 1..n : embeddings[i] = Nil) = (\E k, l \in 1..n : k # l /\ data[k] = data[l])
  BY <1>2, RowsAndPlaces
<1>5. ASSUME {data[k] : k \in 1..n} = 0..(n - 1)
      PROVE  {embeddings[i] : i \in 1..n} = 1..n
  <2>1. ASSUME NEW i \in 1..n  PROVE \E k \in 1..n : data[k] = i - 1
    <3>1. i - 1 \in 0..(n - 1)
      OBVIOUS
    <3>2. i - 1 \in {data[k] : k \in 1..n}
      BY <1>5, <3>1
    <3>. QED BY <3>2
  <2>2. ASSUME NEW i \in 1..n  PROVE embeddings[i] \in 1..n
    <3>1. i \in Int /\ embeddings[i] = RowAt(data, i)
      BY <1>2
    <3>. QED BY <1>1, <2>1, <3>1, RowAtPlace
  <2>3. \A i \in 1..n : embeddings[i] # Nil
    BY <2>2 DEF Nil
  <2>4. ASSUME NEW k \in 1..n  PROVE \E i \in 1..n : embeddings[i] = k
    <3>1. data[k] + 1 \in 1..n /\ (data[k] + 1) - 1 = data[k]
      OBVIOUS
    <3>2. embeddings[data[k] + 1] \in 1..n /\ data[embeddings[data[k] + 1]] = data[k]
      BY <1>3, <2>2, <2>3, <3>1
    <3>. QED BY <1>4, <2>3, <3>1, <3>2
  <2>. QED BY <2>2, <2>4
<1>. QED BY <1>1, <1>3, <1>4, <1>5

\* A call that is not settled has counted nothing, and one that is counts once.
EmbedInv ==
  /\ embedding \in {"none", "sent", "resolved"} \cup EmbedFailures
  /\ embedding \in {"none", "sent"} => embedCount = NotCounted
  /\ embedding = "resolved" => \E n \in Nat \ {0} :
       data \in [1..n -> 0..(n - 1)] /\ embeddings = [i \in 1..n |-> RowAt(data, i)]
  /\ embedding \notin {"none", "sent"} =>
       /\ embedCount.requests + embedCount.errors + embedCount.dropped = 1
       /\ embedCount.dropped = 0 => embedCount.requests = (IF embedding = "resolved" THEN 1 ELSE 0)

LEMMA SettleOnce ==
  ASSUME embedCount = NotCounted, NEW e \in {"resolved"} \cup EmbedFailures, SettleEmbed(e)
  PROVE  /\ embedding' = e
         /\ embedCount'.requests + embedCount'.errors + embedCount'.dropped = 1
         /\ embedCount'.dropped = 0 => embedCount'.requests = (IF e = "resolved" THEN 1 ELSE 0)
BY DEF SettleEmbed, NotCounted, EmbedFailures

LEMMA EmbedStep == ASSUME EmbedInv, EmbedNext(wire)  PROVE EmbedInv'
<1>. USE DEF EmbedFailures
<1>1. CASE RefuseInput
  BY <1>1, SettleOnce DEF EmbedInv, RefuseInput
<1>2. CASE RefuseWire(wire)
  BY <1>2, SettleOnce DEF EmbedInv, RefuseWire
<1>3. CASE SendEmbed(wire)
  BY <1>3 DEF EmbedInv, SendEmbed
<1>4. CASE EmbedFails
  BY <1>4, SettleOnce DEF EmbedInv, EmbedFails
<1>5. CASE ReplyRows
  <2>0. embedCount = NotCounted
    BY <1>5 DEF EmbedInv, ReplyRows
  <2>1. PICK n \in 1..MaxRows : \E rows \in [1..n -> -1..MaxRows] :
          /\ data' = rows
          /\ IF \A k \in 1..n : rows[k] \in 0..(n - 1)
             THEN /\ embeddings' = [i \in 1..n |-> RowAt(rows, i)]
                  /\ SettleEmbed("resolved")
             ELSE SettleEmbed("decode") /\ UNCHANGED embeddings
    BY <1>5 DEF ReplyRows
  <2>2. PICK rows \in [1..n -> -1..MaxRows] :
          /\ data' = rows
          /\ IF \A k \in 1..n : rows[k] \in 0..(n - 1)
             THEN /\ embeddings' = [i \in 1..n |-> RowAt(rows, i)]
                  /\ SettleEmbed("resolved")
             ELSE SettleEmbed("decode") /\ UNCHANGED embeddings
    BY <2>1
  <2>3. CASE \A k \in 1..n : rows[k] \in 0..(n - 1)
    <3>1. data' \in [1..n -> 0..(n - 1)] /\ embeddings' = [i \in 1..n |-> RowAt(data', i)]
      BY <2>2, <2>3
    <3>2. n \in Nat \ {0}
      BY <2>2, EmbedAssumption
    <3>3. \A i : RowAt(data, i)' = RowAt(data', i)
      BY DEF RowAt
    <3>. QED BY <2>0, <2>2, <2>3, <3>1, <3>2, <3>3, SettleOnce DEF EmbedInv
  <2>4. CASE ~ \A k \in 1..n : rows[k] \in 0..(n - 1)
    BY <2>0, <2>2, <2>4, SettleOnce DEF EmbedInv
  <2>. QED BY <2>3, <2>4
<1>6. CASE Retrieve
  BY <1>6 DEF EmbedInv, Retrieve
<1>. QED BY <1>1, <1>2, <1>3, <1>4, <1>5, <1>6 DEF EmbedNext

\* A script's vectors stand in the order of its inputs, and every call is
\* accounted for once (embed.go).
THEOREM EmbeddingsInOrder == LoopSpec => []EmbedRows
<1>1. LoopInit => EmbedInv
  BY DEF LoopInit, EmbedInit, EmbedInv
<1>2. EmbedInv /\ [LoopNext]_vars => EmbedInv'
  <2>. SUFFICES ASSUME EmbedInv, [LoopNext]_vars  PROVE EmbedInv'
    OBVIOUS
  <2>1. CASE EmbedQuery
    BY <2>1, EmbedStep DEF EmbedQuery
  <2>2. CASE UNCHANGED embedVars
    <3>1. UNCHANGED <<data, embeddings, embedding, embedCount>>
      BY <2>2 DEF embedVars
    <3>2. \A i : RowAt(data, i)' = RowAt(data, i)
      BY <3>1 DEF RowAt
    <3>. QED BY <3>1, <3>2 DEF EmbedInv
  <2>. QED BY <2>1, <2>2 DEF LoopNext, Over, vars
<1>3. EmbedInv => EmbedRows
  BY RowsInOrder DEF EmbedInv, EmbedRows
<1>. QED BY <1>1, <1>2, <1>3, PTL DEF LoopSpec

-----------------------------------------------------------------------------
(* The body of each request.                                               *)

\* A body is begun for each call, and is then what RequestBodyProofs says of it.
CallBodyInv == phase # "idle" => IInv

\* What the translations need to know of a list is yes or no.
LEMMA GivenTypes ==
  ASSUME NEW list, NEW unary \in BOOLEAN  PROVE GivenBy(list, unary) \in Givens
<1>. DEFINE system == IF wire = "responses" THEN ResponsesInput(list).instructions # <<>>
                      ELSE TranslateMessages(list).system # <<>>
            prompt == ProviderWireV4Accepts(list)
<1>1. system \in BOOLEAN
  OBVIOUS
<1>2. prompt \in BOOLEAN
  BY DEF ProviderWireV4Accepts
<1>3. GivenBy(list, unary) =
        [NoGivens EXCEPT !.schema = TRUE, !.unary = unary, !.system = system, !.prompt = prompt]
  BY DEF GivenBy
<1>. HIDE DEF system, prompt
<1>. QED BY <1>1, <1>2, <1>3 DEF NoGivens, Givens

LEMMA CallBodyStep == ASSUME CallBodyInv, wire \in Wires, [LoopNext]_vars
                      PROVE  CallBodyInv' /\ wire' \in Wires
<1>1. CASE Ask
  <2>1. PICK fields \in Bodies, unary \in Modes :
          body' = fields /\ left' = fields /\ given' = GivenBy(messages, unary)
    BY <1>1 DEF Ask
  <2>2. given' \in Givens
    BY <2>1, GivenTypes, LoopAssumption
  <2>3. /\ wire' = wire /\ body' \in Bodies /\ left' = body'
        /\ out' = [f \in {} |-> f] /\ phase' = "ranging"
    BY <1>1, <2>1 DEF Ask
  <2>4. TypeOK'
    BY <2>2, <2>3 DEF TypeOK
  <2>5. Ranged' /\ BodyFollowsScript'
    BY <2>3 DEF Ranged, BodyFollowsScript
  <2>. QED BY <2>3, <2>4, <2>5 DEF CallBodyInv, IInv
<1>2. CASE Build
  <2>1. phase = "ranging" /\ Next
    BY <1>2 DEF Build, BuildStep, Next, RangeField, RefuseField, CloseAnthropic, CloseResponses,
                CloseV4, UseBody
  <2>2. IInv' /\ wire' = wire
    <3>1. IInv'
      BY <2>1, NextInv DEF CallBodyInv
    <3>2. wire' = wire
      BY <2>1 DEF BuildStep, Next, RangeField, RefuseField, CloseAnthropic, CloseResponses,
                  CloseV4, UseBody
    <3>. QED BY <3>1, <3>2
  <2>. QED BY <2>2 DEF CallBodyInv
<1>3. CASE Post
  BY <1>3 DEF Post, HandedOver, CallBodyInv
<1>4. ASSUME UNCHANGED bodyVars  PROVE CallBodyInv' /\ wire' \in Wires
  <2>1. IInv => IInv'
    BY <1>4, NextInv
  <2>. QED BY <1>4, <2>1 DEF CallBodyInv, bodyVars
<1>5. CASE Say \/ Instruct \/ Read \/ Echo \/ EmbedQuery \/ Over \/ UNCHANGED vars
  BY <1>4, <1>5 DEF Say, Instruct, Write, Read, Echo, EmbedQuery, Over, vars
<1>6. CASE \E id \in CalledIds : Answer(id)
  BY <1>4, <1>6 DEF Answer, Write
<1>. QED BY <1>1, <1>2, <1>3, <1>5, <1>6 DEF LoopNext, Converse

\* Every body of a conversation says what its script said, in whatever order each
\* call ranged over its fields and whatever became of the calls before.
THEOREM BodiesOfACallAreFaithful == LoopSpec => []BodyFollowsScript
<1>1. LoopInit => CallBodyInv /\ wire \in Wires
  BY DEF LoopInit, NoRequest, CallBodyInv
<1>2. CallBodyInv => BodyFollowsScript
  BY DEF CallBodyInv, IInv, BodyFollowsScript
<1>3. CallBodyInv /\ wire \in Wires /\ [LoopNext]_vars => (CallBodyInv /\ wire \in Wires)'
  <2>. SUFFICES ASSUME CallBodyInv, wire \in Wires, [LoopNext]_vars
                PROVE  CallBodyInv' /\ wire' \in Wires
    BY BodyAssumption
  <2>. QED BY CallBodyStep
<1>. QED BY <1>1, <1>2, <1>3, PTL DEF LoopSpec

-----------------------------------------------------------------------------
(* What a script can write, and what the translations make of it.          *)

Fragments == [id: Nat, part: Nat, of: Nat]
ToolCalls == [id: Nat, args: Seq(Fragments)]

SystemMessages  == [role: {"system"}, form: {"string", "parts"}, text: Nat]
UserMessages    == [role: {"user"}, form: {"string", "parts"}, text: Nat]
PlainMessages   == [role: {"assistant"}, form: {"string"}, text: Nat]
CallingMessages == [role: {"assistant"}, form: {"string"}, text: Nat, calls: Seq(ToolCalls)]
ToolMessages    == [role: {"tool"}, form: {"string"}, id: Nat]

Messages ==
  SystemMessages \cup UserMessages \cup PlainMessages \cup CallingMessages \cup ToolMessages

ResultBlocks == [type: {"tool_result"}, id: Nat]
UseBlocks    == [type: {"tool_use"}, id: Nat, input: Seq(Fragments)]
Blocks       == [type: {"text"}, text: Nat] \cup UseBlocks \cup ResultBlocks

\* The record's calls have no input here.
Parts == [type: {"text"}, text: Nat] \cup [type: {"tool_use"}, id: Nat] \cup ResultBlocks

Turns == [role: {"user", "assistant"}, content: Seq(Blocks)] \cup UserMessages \cup PlainMessages
RecordTurns == [role: {"user", "assistant", "tool"}, content: Seq(Parts)]

Entries == {"text", "call", "result", "system"} \X Nat

\* The kinds of message are told apart by role, form and calls.
LEMMA MessageKinds ==
  ASSUME NEW msg \in Messages
  PROVE  /\ msg.role \in {"system", "user", "assistant", "tool"}
         /\ msg.form \in {"string", "parts"}
         /\ msg.role # "tool" => msg.text \in Nat
         /\ msg.role = "tool" => msg.id \in Nat /\ msg.form = "string"
         /\ msg.role = "assistant" => msg.form = "string"
         /\ HasCalls(msg) => msg.role = "assistant" /\ msg.calls \in Seq(ToolCalls)
         /\ msg.role \in {"user", "assistant"} /\ ~HasCalls(msg) =>
              msg \in UserMessages \cup PlainMessages
         /\ "content" \notin DOMAIN msg /\ "type" \notin DOMAIN msg
<1>1. CASE msg \in SystemMessages
  BY <1>1 DEF SystemMessages, HasCalls
<1>2. CASE msg \in UserMessages
  BY <1>2 DEF UserMessages, HasCalls
<1>3. CASE msg \in PlainMessages
  BY <1>3 DEF PlainMessages, HasCalls
<1>4. CASE msg \in CallingMessages
  BY <1>4 DEF CallingMessages, HasCalls
<1>5. CASE msg \in ToolMessages
  BY <1>5 DEF ToolMessages, HasCalls
<1>. QED BY <1>1, <1>2, <1>3, <1>4, <1>5 DEF Messages

\* Whatever text the arguments are, the input is one the API takes.
LEMMA DecodedIsFragments ==
  ASSUME NEW args \in Seq(Fragments)  PROVE DecodeToolArguments(args) \in Seq(Fragments)
<1>1. EmptyObject \in Seq(Fragments)
  <2>1. \A part \in 1..1 : Fragment(0, part, 1) \in Fragments
    BY DEF Fragment, Fragments
  <2>2. EmptyObject = [part \in 1..1 |-> Fragment(0, part, 1)]
    BY DEF EmptyObject, WholeArguments
  <2>. QED BY <2>1, <2>2
<1>. QED BY <1>1 DEF DecodeToolArguments

\* What a list of blocks says.
BlockEntries(blocks) == [k \in DOMAIN blocks |-> BlockEntry(blocks[k])]

LEMMA BlockEntryType ==
  ASSUME NEW block \in Blocks \cup Parts  PROVE BlockEntry(block) \in Entries
BY DEF Blocks, Parts, UseBlocks, ResultBlocks, BlockEntry, Entries

LEMMA BlockEntriesType ==
  ASSUME NEW blocks \in Seq(Blocks \cup Parts)
  PROVE  BlockEntries(blocks) \in Seq(Entries) /\ Len(BlockEntries(blocks)) = Len(blocks)
         /\ \A k \in 1..Len(blocks) : BlockEntries(blocks)[k] = BlockEntry(blocks[k])
<1>1. \A k \in 1..Len(blocks) : BlockEntry(blocks[k]) \in Entries
  BY BlockEntryType
<1>2. BlockEntries(blocks) = [k \in 1..Len(blocks) |-> BlockEntry(blocks[k])] /\ Len(blocks) \in Nat
  BY DEF BlockEntries
<1>. QED BY <1>1, <1>2

LEMMA BlockEntriesConcat ==
  ASSUME NEW a \in Seq(Blocks \cup Parts), NEW b \in Seq(Blocks \cup Parts)
  PROVE  BlockEntries(a \o b) = BlockEntries(a) \o BlockEntries(b)
<1>. DEFINE L == BlockEntries(a \o b)  R == BlockEntries(a) \o BlockEntries(b)
<1>1. /\ a \o b \in Seq(Blocks \cup Parts) /\ Len(a \o b) = Len(a) + Len(b)
      /\ \A i \in 1..(Len(a) + Len(b)) :
           (a \o b)[i] = IF i <= Len(a) THEN a[i] ELSE b[i - Len(a)]
  BY ConcatProperties
<1>2. /\ L \in Seq(Entries) /\ Len(L) = Len(a) + Len(b)
      /\ \A i \in 1..(Len(a) + Len(b)) : L[i] = BlockEntry((a \o b)[i])
  BY <1>1, BlockEntriesType
<1>3. /\ R \in Seq(Entries) /\ Len(R) = Len(a) + Len(b)
      /\ \A i \in 1..(Len(a) + Len(b)) :
           R[i] = IF i <= Len(a) THEN BlockEntries(a)[i] ELSE BlockEntries(b)[i - Len(a)]
  <2>. DEFINE s == BlockEntries(a)  t == BlockEntries(b)
  <2>1. s \in Seq(Entries) /\ t \in Seq(Entries) /\ Len(s) = Len(a) /\ Len(t) = Len(b)
    BY BlockEntriesType
  <2>. HIDE DEF s, t
  <2>2. /\ s \o t \in Seq(Entries) /\ Len(s \o t) = Len(s) + Len(t)
        /\ \A i \in 1..(Len(s) + Len(t)) :
             (s \o t)[i] = IF i <= Len(s) THEN s[i] ELSE t[i - Len(s)]
    BY <2>1, ConcatProperties
  <2>. QED BY <2>1, <2>2 DEF s, t
<1>4. ASSUME NEW i \in 1..(Len(a) + Len(b))  PROVE L[i] = R[i]
  <2>. Len(a) \in Nat /\ Len(b) \in Nat
    OBVIOUS
  <2>1. CASE i <= Len(a)
    <3>1. i \in 1..Len(a)
      BY <2>1
    <3>. QED BY <1>1, <1>2, <1>3, <2>1, <3>1, BlockEntriesType
  <2>2. CASE ~(i <= Len(a))
    <3>1. i - Len(a) \in 1..Len(b)
      BY <2>2
    <3>. QED BY <1>1, <1>2, <1>3, <2>2, <3>1, BlockEntriesType
  <2>. QED BY <2>1, <2>2
<1>. HIDE DEF L, R
<1>5. L = R
  BY <1>2, <1>3, <1>4, SeqEqual
<1>. QED BY <1>5 DEF L, R

LEMMA BlockEntriesOfOne ==
  ASSUME NEW block \in Blocks \cup Parts  PROVE BlockEntries(<<block>>) = <<BlockEntry(block)>>
<1>1. <<block>> \in Seq(Blocks \cup Parts) /\ Len(<<block>>) = 1 /\ <<block>>[1] = block
  OBVIOUS
<1>. DEFINE s == <<block>>
<1>2. /\ BlockEntries(s) \in Seq(Entries) /\ Len(BlockEntries(s)) = Len(s)
      /\ \A k \in 1..Len(s) : BlockEntries(s)[k] = BlockEntry(s[k])
  <2>1. s \in Seq(Blocks \cup Parts)
    BY <1>1
  <2>. HIDE DEF s
  <2>. QED BY <2>1, BlockEntriesType
<1>. QED BY <1>1, <1>2

\* A calling message becomes its text and its calls, in a turn and in the record.
UseBlocksOf(calls) == [k \in DOMAIN calls |-> UseBlock(calls[k])]
CallEntries(calls) == [k \in DOMAIN calls |-> <<"call", calls[k].id>>]

LEMMA TextEntries ==
  ASSUME NEW n \in Nat
  PROVE  /\ TextBlocks(n) \in Seq(Blocks \cap Parts) /\ TextEntry(n) \in Seq(Entries)
         /\ BlockEntries(TextBlocks(n)) = TextEntry(n)
<1>. DEFINE b == [type |-> "text", text |-> n]
<1>1. b \in Blocks \cap Parts /\ BlockEntry(b) = <<"text", n>>
  BY DEF Blocks, Parts, BlockEntry
<1>. HIDE DEF b
<1>2. CASE n = 0
  BY <1>2, EmptySeq DEF TextBlocks, TextEntry, BlockEntries
<1>3. CASE n # 0
  <2>1. TextBlocks(n) = <<b>> /\ TextEntry(n) = <<<<"text", n>>>>
    BY <1>3 DEF TextBlocks, TextEntry, b
  <2>2. BlockEntries(<<b>>) = <<BlockEntry(b)>>
    BY <1>1, BlockEntriesOfOne
  <2>3. <<"text", n>> \in Entries
    BY DEF Entries
  <2>. QED BY <1>1, <2>1, <2>2, <2>3
<1>. QED BY <1>2, <1>3

LEMMA UseBlocksFacts ==
  ASSUME NEW calls \in Seq(ToolCalls)
  PROVE  /\ UseBlocksOf(calls) \in Seq(UseBlocks) /\ Len(UseBlocksOf(calls)) = Len(calls)
         /\ \A k \in 1..Len(calls) : UseBlocksOf(calls)[k] = UseBlock(calls[k])
         /\ CallEntries(calls) \in Seq(Entries)
         /\ BlockEntries(UseBlocksOf(calls)) = CallEntries(calls)
<1>0. DOMAIN calls = 1..Len(calls) /\ Len(calls) \in Nat
  OBVIOUS
<1>1. ASSUME NEW k \in 1..Len(calls)
      PROVE  UseBlock(calls[k]) \in UseBlocks /\ BlockEntry(UseBlock(calls[k])) = <<"call", calls[k].id>>
             /\ <<"call", calls[k].id>> \in Entries
  <2>1. calls[k].id \in Nat /\ calls[k].args \in Seq(Fragments)
    <3>1. calls[k] \in ToolCalls
      OBVIOUS
    <3>. QED BY <3>1 DEF ToolCalls
  <2>2. DecodeToolArguments(calls[k].args) \in Seq(Fragments)
    BY <2>1, DecodedIsFragments
  <2>. QED BY <2>1, <2>2 DEF UseBlock, UseBlocks, BlockEntry, Entries
<1>2. /\ UseBlocksOf(calls) \in Seq(UseBlocks) /\ Len(UseBlocksOf(calls)) = Len(calls)
      /\ \A k \in 1..Len(calls) : UseBlocksOf(calls)[k] = UseBlock(calls[k])
      /\ DOMAIN UseBlocksOf(calls) = 1..Len(calls)
  <2>. DEFINE u == UseBlocksOf(calls)
  <2>1. u = [k \in 1..Len(calls) |-> UseBlock(calls[k])]
    BY <1>0 DEF UseBlocksOf
  <2>2. \A k \in 1..Len(calls) : UseBlock(calls[k]) \in UseBlocks
    BY <1>1
  <2>. QED BY <1>0, <2>1, <2>2
<1>3. CallEntries(calls) = [k \in 1..Len(calls) |-> <<"call", calls[k].id>>]
  BY <1>0 DEF CallEntries
<1>4. BlockEntries(UseBlocksOf(calls)) = [k \in 1..Len(calls) |-> <<"call", calls[k].id>>]
  BY <1>1, <1>2 DEF BlockEntries
<1>. QED BY <1>0, <1>1, <1>2, <1>3, <1>4

LEMMA MessageEntriesType ==
  ASSUME NEW msg \in Messages
  PROVE  /\ MessageEntries(msg) \in Seq(Entries)
         /\ HasCalls(msg) => MessageEntries(msg) = TextEntry(msg.text) \o CallEntries(msg.calls)
         /\ msg.role = "system" => MessageEntries(msg) = <<>>
         /\ msg.role = "tool" => MessageEntries(msg) = <<BlockEntry(ResultBlock(msg))>>
         /\ msg.role \in {"user", "assistant"} /\ ~HasCalls(msg) =>
              MessageEntries(msg) = TextEntry(msg.text)
<1>0. /\ msg.role \in {"system", "user", "assistant", "tool"}
      /\ msg.role # "tool" => msg.text \in Nat
      /\ msg.role = "tool" => msg.id \in Nat
      /\ HasCalls(msg) => msg.role = "assistant" /\ msg.calls \in Seq(ToolCalls)
  BY MessageKinds
<1>1. CASE msg.role = "system"
  <2>1. MessageEntries(msg) = <<>>
    BY <1>0, <1>1 DEF MessageEntries
  <2>. QED BY <1>0, <1>1, <2>1
<1>2. CASE msg.role = "tool"
  <2>1. BlockEntry(ResultBlock(msg)) = <<"result", msg.id>>
    BY DEF BlockEntry, ResultBlock
  <2>2. MessageEntries(msg) = <<<<"result", msg.id>>>>
    BY <1>0, <1>2 DEF MessageEntries
  <2>3. <<"result", msg.id>> \in Entries
    BY <1>0, <1>2 DEF Entries
  <2>. QED BY <1>0, <1>2, <2>1, <2>2, <2>3
<1>3. CASE HasCalls(msg)
  <2>1. MessageEntries(msg) = TextEntry(msg.text) \o CallEntries(msg.calls)
    BY <1>0, <1>3 DEF MessageEntries, CallEntries
  <2>2. TextEntry(msg.text) \in Seq(Entries) /\ CallEntries(msg.calls) \in Seq(Entries)
    BY <1>0, <1>3, TextEntries, UseBlocksFacts
  <2>3. TextEntry(msg.text) \o CallEntries(msg.calls) \in Seq(Entries)
    BY <2>2, ConcatProperties
  <2>. QED BY <1>0, <1>3, <2>1, <2>3
<1>4. CASE msg.role \in {"user", "assistant"} /\ ~HasCalls(msg)
  <2>1. MessageEntries(msg) = TextEntry(msg.text)
    BY <1>4 DEF MessageEntries
  <2>2. TextEntry(msg.text) \in Seq(Entries)
    BY <1>0, <1>4, TextEntries
  <2>. QED BY <1>4, <2>1, <2>2
<1>. QED BY <1>0, <1>1, <1>2, <1>3, <1>4

\* A turn says what its blocks say; a message passed on says what it says.
LEMMA TurnFacts ==
  /\ \A role \in {"user", "assistant"}, blocks \in Seq(Blocks) :
       Turn(role, blocks) \in Turns /\ TurnEntries(Turn(role, blocks)) = BlockEntries(blocks)
  /\ \A role \in {"user", "assistant", "tool"}, blocks \in Seq(Parts) :
       Turn(role, blocks) \in RecordTurns /\ TurnEntries(Turn(role, blocks)) = BlockEntries(blocks)
  /\ \A role, blocks : "content" \in DOMAIN Turn(role, blocks)
                      /\ Turn(role, blocks).content = blocks /\ Turn(role, blocks).role = role
<1>1. \A role, blocks : /\ "content" \in DOMAIN Turn(role, blocks)
                        /\ Turn(role, blocks).content = blocks /\ Turn(role, blocks).role = role
                        /\ TurnEntries(Turn(role, blocks)) = BlockEntries(blocks)
  BY DEF Turn, TurnEntries, BlockEntries
<1>2. \A role \in {"user", "assistant"}, blocks \in Seq(Blocks) : Turn(role, blocks) \in Turns
  BY DEF Turn, Turns
<1>3. \A role \in {"user", "assistant", "tool"}, blocks \in Seq(Parts) :
        Turn(role, blocks) \in RecordTurns
  BY DEF Turn, RecordTurns
<1>. QED BY <1>1, <1>2, <1>3

LEMMA PassedOn ==
  ASSUME NEW msg \in UserMessages \cup PlainMessages
  PROVE  /\ msg \in Turns /\ msg \in Messages /\ TurnEntries(msg) = MessageEntries(msg)
         /\ "content" \notin DOMAIN msg /\ "type" \notin DOMAIN msg
         /\ ~HasCalls(msg) /\ msg.role \in {"user", "assistant"}
<1>1. msg \in Messages /\ msg \in Turns
  BY DEF Messages, Turns
<1>2. "content" \notin DOMAIN msg /\ "type" \notin DOMAIN msg
  BY <1>1, MessageKinds
<1>3. ~HasCalls(msg) /\ msg.role \in {"user", "assistant"}
  BY DEF UserMessages, PlainMessages, HasCalls
<1>. QED BY <1>1, <1>2, <1>3 DEF TurnEntries

LEMMA TurnEntriesType ==
  ASSUME NEW turn \in Turns \cup RecordTurns  PROVE TurnEntries(turn) \in Seq(Entries)
<1>1. CASE turn \in UserMessages \cup PlainMessages
  BY <1>1, PassedOn, MessageEntriesType
<1>2. CASE turn \in [role: {"user", "assistant"}, content: Seq(Blocks)] \cup RecordTurns
  <2>1. turn.content \in Seq(Blocks \cup Parts) /\ "content" \in DOMAIN turn
    <3>1. turn.content \in Seq(Blocks) \/ turn.content \in Seq(Parts)
      BY <1>2 DEF RecordTurns
    <3>2. "content" \in DOMAIN turn
      BY <1>2 DEF RecordTurns
    <3>. QED BY <3>1, <3>2, SeqMonotonic
  <2>2. TurnEntries(turn) = BlockEntries(turn.content)
    BY <2>1 DEF TurnEntries, BlockEntries
  <2>. QED BY <2>1, <2>2, BlockEntriesType
<1>. QED BY <1>1, <1>2 DEF Turns

\* What a list of turns says, turn by turn.
Says(turns) == FoldLeft(SayTurn, <<>>, turns)

LEMMA SaysIsFold == ASSUME NEW turns  PROVE Says(turns) = TurnSpeech!Fold(<<>>, turns)
BY DEF Says, FoldLeft, MapThenFoldSet, Max,
       TurnSpeech!Fold, TurnSpeech!Top

LEMMA SaysFacts ==
  /\ Says(<<>>) = <<>>
  /\ \A turns \in Seq(Turns \cup RecordTurns) : Says(turns) \in Seq(Entries)
  /\ \A turns \in Seq(Turns \cup RecordTurns), turn \in Turns \cup RecordTurns :
       Says(Append(turns, turn)) = Says(turns) \o TurnEntries(turn)
<1>1. Says(<<>>) = <<>>
  BY SaysIsFold, TurnSpeech!FoldOfNone
<1>2. ASSUME NEW turns \in Seq(Turns \cup RecordTurns)  PROVE Says(turns) \in Seq(Entries)
  <2>. DEFINE e == <<>>  T == Seq(Entries)  S == Turns \cup RecordTurns
  <2>1. e \in T /\ turns \in Seq(S)
    BY EmptySeq
  <2>2. \A t \in T, x \in S : SayTurn(t, x) \in T
    BY TurnEntriesType, ConcatProperties DEF SayTurn
  <2>. HIDE DEF e, T, S
  <2>3. TurnSpeech!Fold(e, turns) \in T
    BY <2>1, <2>2, TurnSpeech!FoldKeeps
  <2>. QED BY <2>3, SaysIsFold DEF e, T
<1>3. ASSUME NEW turns \in Seq(Turns \cup RecordTurns), NEW turn \in Turns \cup RecordTurns
      PROVE  Says(Append(turns, turn)) = Says(turns) \o TurnEntries(turn)
  <2>. DEFINE S == Turns \cup RecordTurns
  <2>. HIDE DEF S
  <2>1. TurnSpeech!Fold(<<>>, Append(turns, turn)) = SayTurn(TurnSpeech!Fold(<<>>, turns), turn)
    BY <1>3, TurnSpeech!FoldOfOneMore DEF S
  <2>. QED BY <2>1, SaysIsFold DEF SayTurn
<1>. QED BY <1>1, <1>2, <1>3

\* What the script's messages say.
LEMMA SpokenIsFold == ASSUME NEW list  PROVE Spoken(list) = Speech!Fold(<<>>, list)
BY DEF Spoken, FoldLeft, MapThenFoldSet, Max,
       Speech!Fold, Speech!Top

LEMMA SpokenFacts ==
  /\ Spoken(<<>>) = <<>>
  /\ \A list \in Seq(Messages) : Spoken(list) \in Seq(Entries)
  /\ \A list \in Seq(Messages), msg \in Messages :
       Spoken(Append(list, msg)) = Spoken(list) \o MessageEntries(msg)
<1>1. Spoken(<<>>) = <<>>
  BY SpokenIsFold, Speech!FoldOfNone
<1>2. ASSUME NEW list \in Seq(Messages)  PROVE Spoken(list) \in Seq(Entries)
  <2>. DEFINE e == <<>>  T == Seq(Entries)
  <2>1. e \in T
    BY EmptySeq
  <2>2. \A t \in T, x \in Messages : SayMessage(t, x) \in T
    BY MessageEntriesType, ConcatProperties DEF SayMessage
  <2>. HIDE DEF e, T
  <2>3. Speech!Fold(e, list) \in T
    BY <2>1, <2>2, Speech!FoldKeeps
  <2>. QED BY <2>3, SpokenIsFold DEF e, T
<1>3. ASSUME NEW list \in Seq(Messages), NEW msg \in Messages
      PROVE  Spoken(Append(list, msg)) = Spoken(list) \o MessageEntries(msg)
  <2>1. Speech!Fold(<<>>, Append(list, msg)) = SayMessage(Speech!Fold(<<>>, list), msg)
    BY <1>3, Speech!FoldOfOneMore
  <2>. QED BY <2>1, SpokenIsFold DEF SayMessage
<1>. QED BY <1>1, <1>2, <1>3

-----------------------------------------------------------------------------
(* The Anthropic translation, message by message.                          *)

TStates == [out: Seq(Turns), pending: Seq(ResultBlocks), parts: Seq(Nat), blocks: Seq(Nat)]

\* The turns once the results gathered so far have gone out.
Flushed(t) == Flush(t).out

LEMMA FlushFacts ==
  ASSUME NEW t \in TStates
  PROVE  /\ Flush(t) \in TStates /\ Flushed(t) \in Seq(Turns)
         /\ Flush(t).pending = <<>> /\ Flush(t).parts = t.parts /\ Flush(t).blocks = t.blocks
         /\ t.pending = <<>> => Flushed(t) = t.out
         /\ t.pending # <<>> => /\ Flushed(t) = Append(t.out, Turn("user", t.pending))
                                /\ Turn("user", t.pending) \in Turns
<1>. t.out \in Seq(Turns) /\ t.pending \in Seq(ResultBlocks) /\ t.parts \in Seq(Nat) /\ t.blocks \in Seq(Nat)
  BY DEF TStates
<1>1. CASE t.pending = <<>>
  BY <1>1 DEF Flush, Flushed
<1>2. CASE t.pending # <<>>
  <2>1. t.pending \in Seq(Blocks)
    BY DEF Blocks
  <2>2. Turn("user", t.pending) \in Turns
    BY <2>1, TurnFacts
  <2>3. Append(t.out, Turn("user", t.pending)) \in Seq(Turns)
    BY <2>2
  <2>4. Flush(t) = [out |-> Append(t.out, Turn("user", t.pending)), pending |-> <<>>,
                    parts |-> t.parts, blocks |-> t.blocks]
    BY <1>2 DEF Flush, TStates
  <2>. QED BY <1>2, <2>2, <2>3, <2>4, EmptySeq DEF TStates, Flushed
<1>. QED BY <1>1, <1>2

\* What an assistant message with calls becomes.
CallingTurn(msg) == Turn("assistant", TextBlocks(msg.text) \o UseBlocksOf(msg.calls))

LEMMA CallingTurnFacts ==
  ASSUME NEW msg \in Messages, HasCalls(msg)
  PROVE  /\ CallingTurn(msg) \in Turns
         /\ TextBlocks(msg.text) \o UseBlocksOf(msg.calls) \in Seq(Blocks)
         /\ TurnEntries(CallingTurn(msg)) = MessageEntries(msg)
<1>1. msg.text \in Nat /\ msg.calls \in Seq(ToolCalls)
  BY MessageKinds
<1>2. /\ TextBlocks(msg.text) \in Seq(Blocks \cap Parts) /\ UseBlocksOf(msg.calls) \in Seq(UseBlocks)
      /\ BlockEntries(TextBlocks(msg.text)) = TextEntry(msg.text)
      /\ BlockEntries(UseBlocksOf(msg.calls)) = CallEntries(msg.calls)
  BY <1>1, TextEntries, UseBlocksFacts
<1>. DEFINE a == TextBlocks(msg.text)  b == UseBlocksOf(msg.calls)
<1>3. a \in Seq(Blocks) /\ b \in Seq(Blocks)
  BY <1>2, SeqMonotonic DEF Blocks
<1>4. a \o b \in Seq(Blocks)
  <2>. HIDE DEF a, b
  <2>. QED BY <1>3, ConcatProperties
<1>5. BlockEntries(a \o b) = BlockEntries(a) \o BlockEntries(b)
  <2>1. a \in Seq(Blocks \cup Parts) /\ b \in Seq(Blocks \cup Parts)
    BY <1>3, SeqMonotonic
  <2>. HIDE DEF a, b
  <2>. QED BY <2>1, BlockEntriesConcat
<1>6. MessageEntries(msg) = TextEntry(msg.text) \o CallEntries(msg.calls)
  BY MessageEntriesType
<1>7. /\ Turn("assistant", a \o b) \in Turns
      /\ TurnEntries(Turn("assistant", a \o b)) = BlockEntries(a \o b)
  <2>. HIDE DEF a, b
  <2>. QED BY <1>4, TurnFacts
<1>. QED BY <1>2, <1>4, <1>5, <1>6, <1>7 DEF CallingTurn

\* What each kind of message does to what has been translated so far.
LEMMA TranslateFacts ==
  ASSUME NEW t \in TStates, NEW msg \in Messages, NEW u, u = TranslateMessage(t, msg)
  PROVE  /\ u \in TStates
         /\ msg.role = "system" =>
              /\ u.out = Flushed(t) /\ u.pending = <<>>
              /\ \/ msg.form = "string" /\ u.parts = Append(t.parts, msg.text) /\ u.blocks = t.blocks
                 \/ msg.form = "parts" /\ u.blocks = Append(t.blocks, msg.text) /\ u.parts = t.parts
         /\ msg.role = "tool" =>
              u.out = t.out /\ u.pending = Append(t.pending, ResultBlock(msg))
         /\ HasCalls(msg) => u.out = Append(Flushed(t), CallingTurn(msg)) /\ u.pending = <<>>
         /\ msg.role \in {"user", "assistant"} /\ ~HasCalls(msg) =>
              u.out = Append(Flushed(t), msg) /\ u.pending = <<>>
         /\ msg.role # "system" => u.parts = t.parts /\ u.blocks = t.blocks
<1>0. /\ msg.role \in {"system", "user", "assistant", "tool"} /\ msg.form \in {"string", "parts"}
      /\ msg.role # "tool" => msg.text \in Nat
      /\ msg.role = "tool" => msg.id \in Nat
      /\ HasCalls(msg) => msg.role = "assistant" /\ msg.calls \in Seq(ToolCalls)
  BY MessageKinds
<1>. DEFINE f == Flush(t)
<1>1. /\ f \in TStates /\ f.out = Flushed(t) /\ f.pending = <<>> /\ f.parts = t.parts
      /\ f.blocks = t.blocks
  BY FlushFacts DEF Flushed
<1>2. u = CASE msg.role = "system" /\ msg.form = "string" -> [f EXCEPT !.parts = Append(@, msg.text)]
            [] msg.role = "system" /\ msg.form = "parts" -> [f EXCEPT !.blocks = Append(@, msg.text)]
            [] msg.role = "tool" -> [t EXCEPT !.pending = Append(@, ResultBlock(msg))]
            [] HasCalls(msg) -> [f EXCEPT !.out = Append(@, CallingTurn(msg))]
            [] OTHER -> [f EXCEPT !.out = Append(@, msg)]
  BY DEF TranslateMessage, CallingTurn, UseBlocksOf
<1>. HIDE DEF f
<1>3. CASE msg.role = "system" /\ msg.form = "string"
  <2>1. u = [f EXCEPT !.parts = Append(@, msg.text)]
    BY <1>0, <1>2, <1>3
  <2>2. Append(f.parts, msg.text) \in Seq(Nat)
    BY <1>0, <1>1, <1>3 DEF TStates
  <2>. QED BY <1>0, <1>1, <1>3, <2>1, <2>2 DEF TStates
<1>4. CASE msg.role = "system" /\ msg.form = "parts"
  <2>1. u = [f EXCEPT !.blocks = Append(@, msg.text)]
    BY <1>0, <1>2, <1>4
  <2>2. Append(f.blocks, msg.text) \in Seq(Nat)
    BY <1>0, <1>1, <1>4 DEF TStates
  <2>. QED BY <1>0, <1>1, <1>4, <2>1, <2>2 DEF TStates
<1>5. CASE msg.role = "tool"
  <2>1. u = [t EXCEPT !.pending = Append(@, ResultBlock(msg))]
    BY <1>0, <1>2, <1>5
  <2>2. ResultBlock(msg) \in ResultBlocks
    BY <1>0, <1>5 DEF ResultBlock, ResultBlocks
  <2>3. Append(t.pending, ResultBlock(msg)) \in Seq(ResultBlocks)
    BY <2>2 DEF TStates
  <2>. QED BY <1>0, <1>5, <2>1, <2>3 DEF TStates
<1>6. CASE HasCalls(msg)
  <2>1. u = [f EXCEPT !.out = Append(@, CallingTurn(msg))]
    BY <1>0, <1>2, <1>6
  <2>2. CallingTurn(msg) \in Turns
    BY <1>6, CallingTurnFacts
  <2>3. Append(f.out, CallingTurn(msg)) \in Seq(Turns)
    BY <1>1, <2>2 DEF TStates
  <2>. QED BY <1>0, <1>1, <1>6, <2>1, <2>3 DEF TStates
<1>7. CASE msg.role \in {"user", "assistant"} /\ ~HasCalls(msg)
  <2>1. u = [f EXCEPT !.out = Append(@, msg)]
    BY <1>2, <1>7
  <2>2. msg \in Turns
    BY <1>7, MessageKinds, PassedOn
  <2>3. Append(f.out, msg) \in Seq(Turns)
    BY <1>1, <2>2 DEF TStates
  <2>. QED BY <1>1, <1>7, <2>1, <2>3 DEF TStates
<1>. QED BY <1>0, <1>3, <1>4, <1>5, <1>6, <1>7

\* What a list becomes before the last flush.
Translated(list) == FoldLeft(TranslateMessage, NothingTranslated, list)

LEMMA TranslatedIsFold ==
  ASSUME NEW list  PROVE Translated(list) = Translation!Fold(NothingTranslated, list)
BY DEF Translated, FoldLeft, MapThenFoldSet, Max,
       Translation!Fold, Translation!Top

LEMMA TranslatedFacts ==
  /\ Translated(<<>>) = NothingTranslated /\ NothingTranslated \in TStates
  /\ \A list \in Seq(Messages) : Translated(list) \in TStates
  /\ \A list \in Seq(Messages), msg \in Messages :
       Translated(Append(list, msg)) = TranslateMessage(Translated(list), msg)
<1>1. Translated(<<>>) = NothingTranslated
  BY TranslatedIsFold, Translation!FoldOfNone
<1>2. NothingTranslated \in TStates
  BY EmptySeq DEF NothingTranslated, TStates
<1>3. ASSUME NEW list \in Seq(Messages)  PROVE Translated(list) \in TStates
  <2>1. \A t \in TStates, x \in Messages : TranslateMessage(t, x) \in TStates
    BY TranslateFacts
  <2>2. Translation!Fold(NothingTranslated, list) \in TStates
    BY <1>2, <2>1, Translation!FoldKeeps
  <2>. QED BY <2>2, TranslatedIsFold
<1>4. ASSUME NEW list \in Seq(Messages), NEW msg \in Messages
      PROVE  Translated(Append(list, msg)) = TranslateMessage(Translated(list), msg)
  BY TranslatedIsFold, Translation!FoldOfOneMore
<1>. QED BY <1>1, <1>2, <1>3, <1>4

\* The request's messages and system texts, from those.
LEMMA RequestOf ==
  ASSUME NEW list \in Seq(Messages)
  PROVE  /\ TranslateMessages(list).out = Flushed(Translated(list))
         /\ TranslateMessages(list).system = Translated(list).parts \o Translated(list).blocks
         /\ TranslateMessages(list).out \in Seq(Turns)
<1>1. Translated(list) \in TStates
  BY TranslatedFacts
<1>2. TranslateMessages(list).out = Flush(Translated(list)).out
      /\ TranslateMessages(list).system = Flush(Translated(list)).parts \o Flush(Translated(list)).blocks
  BY DEF TranslateMessages, Translated
<1>. QED BY <1>1, <1>2, FlushFacts DEF Flushed

\* What a translation in progress says: its turns, then the results it holds.
SaysState(t) == Says(t.out) \o BlockEntries(t.pending)

LEMMA FlushSays == ASSUME NEW t \in TStates  PROVE Says(Flushed(t)) = SaysState(t)
<1>. t.out \in Seq(Turns) /\ t.pending \in Seq(ResultBlocks)
  BY DEF TStates
<1>0. t.out \in Seq(Turns \cup RecordTurns) /\ Says(t.out) \in Seq(Entries)
  BY SeqMonotonic, SaysFacts
<1>1. CASE t.pending = <<>>
  <2>1. BlockEntries(t.pending) = <<>>
    BY <1>1 DEF BlockEntries
  <2>2. Says(t.out) \o <<>> = Says(t.out)
    BY <1>0
  <2>. QED BY <1>1, <2>1, <2>2, FlushFacts DEF SaysState
<1>2. CASE t.pending # <<>>
  <2>1. t.pending \in Seq(Blocks)
    BY DEF Blocks
  <2>2. /\ Turn("user", t.pending) \in Turns \cup RecordTurns
        /\ TurnEntries(Turn("user", t.pending)) = BlockEntries(t.pending)
    BY <2>1, TurnFacts
  <2>3. Says(Append(t.out, Turn("user", t.pending))) = Says(t.out) \o TurnEntries(Turn("user", t.pending))
    BY <1>0, <2>2, SaysFacts
  <2>. QED BY <1>2, <2>2, <2>3, FlushFacts DEF SaysState
<1>. QED BY <1>1, <1>2

LEMMA ResultBlocksTypes ==
  ASSUME NEW p \in Seq(ResultBlocks)
  PROVE  p \in Seq(Blocks \cup Parts) /\ BlockEntries(p) \in Seq(Entries)
<1>1. p \in Seq(Blocks \cup Parts)
  BY SeqMonotonic DEF Blocks, Parts
<1>. QED BY <1>1, BlockEntriesType

\* One message more says what that message says.
LEMMA TranslateSays ==
  ASSUME NEW t \in TStates, NEW msg \in Messages
  PROVE  SaysState(TranslateMessage(t, msg)) = SaysState(t) \o MessageEntries(msg)
<1>. DEFINE u == TranslateMessage(t, msg)
<1>1. u \in TStates
  BY TranslateFacts
<1>2. /\ Flushed(t) \in Seq(Turns) /\ Flushed(t) \in Seq(Turns \cup RecordTurns)
      /\ Says(Flushed(t)) \in Seq(Entries) /\ Says(Flushed(t)) = SaysState(t)
  BY FlushFacts, FlushSays, SeqMonotonic, SaysFacts
<1>3. BlockEntries(<<>>) = <<>>
  BY DEF BlockEntries
<1>4. \A s \in Seq(Entries) : s \o <<>> = s
  OBVIOUS
<1>5. MessageEntries(msg) \in Seq(Entries)
  BY MessageEntriesType
<1>6. ASSUME NEW turn \in Turns, u.out = Append(Flushed(t), turn), u.pending = <<>>,
             TurnEntries(turn) = MessageEntries(msg)
      PROVE  SaysState(u) = SaysState(t) \o MessageEntries(msg)
  <2>1. Says(Append(Flushed(t), turn)) = Says(Flushed(t)) \o TurnEntries(turn)
    BY <1>2, SaysFacts
  <2>2. Says(u.out) = SaysState(t) \o MessageEntries(msg)
    BY <1>2, <1>6, <2>1
  <2>3. Says(u.out) \in Seq(Entries)
    BY <1>2, <1>5, <2>2, ConcatProperties
  <2>. HIDE DEF u
  <2>4. SaysState(u) = Says(u.out) \o <<>>
    BY <1>3, <1>6 DEF SaysState
  <2>. QED BY <1>4, <2>2, <2>3, <2>4
<1>7. CASE msg.role = "system"
  <2>1. u.out = Flushed(t) /\ u.pending = <<>>
    BY <1>7, TranslateFacts
  <2>2. MessageEntries(msg) = <<>>
    BY <1>7, MessageEntriesType
  <2>. HIDE DEF u
  <2>3. SaysState(u) = Says(Flushed(t)) \o <<>>
    BY <1>3, <2>1 DEF SaysState
  <2>. QED BY <1>2, <1>4, <2>2, <2>3 DEF u
<1>8. CASE msg.role = "tool"
  <2>. DEFINE r == ResultBlock(msg)
  <2>1. u.out = t.out /\ u.pending = Append(t.pending, r)
    BY <1>8, TranslateFacts
  <2>2. MessageEntries(msg) = <<BlockEntry(r)>>
    BY <1>8, MessageEntriesType
  <2>3. r \in ResultBlocks /\ r \in Blocks \cup Parts
    BY <1>8, MessageKinds DEF ResultBlock, ResultBlocks, Blocks
  <2>4. t.pending \in Seq(ResultBlocks) /\ t.out \in Seq(Turns)
    BY DEF TStates
  <2>5. t.pending \in Seq(Blocks \cup Parts) /\ BlockEntries(t.pending) \in Seq(Entries)
    BY <2>4, ResultBlocksTypes
  <2>6. Says(t.out) \in Seq(Entries)
    BY <2>4, SeqMonotonic, SaysFacts
  <2>7. BlockEntry(r) \in Entries
    BY <2>3, BlockEntryType
  <2>. HIDE DEF u, r
  <2>8. Append(t.pending, r) = t.pending \o <<r>>
    BY <2>3, <2>5
  <2>9. <<r>> \in Seq(Blocks \cup Parts)
    BY <2>3
  <2>10. BlockEntries(t.pending \o <<r>>) = BlockEntries(t.pending) \o BlockEntries(<<r>>)
    <3>. DEFINE q == <<r>>
    <3>1. q \in Seq(Blocks \cup Parts)
      BY <2>9
    <3>. HIDE DEF q
    <3>2. BlockEntries(t.pending \o q) = BlockEntries(t.pending) \o BlockEntries(q)
      BY <2>5, <3>1, BlockEntriesConcat
    <3>. QED BY <3>2 DEF q
  <2>11. BlockEntries(<<r>>) = <<BlockEntry(r)>>
    BY <2>3, BlockEntriesOfOne
  <2>12. SaysState(u) = Says(t.out) \o (BlockEntries(t.pending) \o <<BlockEntry(r)>>)
    BY <2>1, <2>8, <2>10, <2>11 DEF SaysState
  <2>13. Says(t.out) \o (BlockEntries(t.pending) \o <<BlockEntry(r)>>) =
           (Says(t.out) \o BlockEntries(t.pending)) \o <<BlockEntry(r)>>
    <3>. DEFINE q == <<BlockEntry(r)>>
    <3>1. q \in Seq(Entries)
      BY <2>7
    <3>. HIDE DEF q
    <3>2. Says(t.out) \o (BlockEntries(t.pending) \o q) = (Says(t.out) \o BlockEntries(t.pending)) \o q
      BY <2>5, <2>6, <3>1, ConcatAssociative
    <3>. QED BY <3>2 DEF q
  <2>. QED BY <2>2, <2>12, <2>13 DEF SaysState, u
<1>9. CASE HasCalls(msg)
  <2>1. /\ u.out = Append(Flushed(t), CallingTurn(msg)) /\ u.pending = <<>>
        /\ CallingTurn(msg) \in Turns /\ TurnEntries(CallingTurn(msg)) = MessageEntries(msg)
    BY <1>9, TranslateFacts, CallingTurnFacts
  <2>. HIDE DEF u
  <2>2. SaysState(u) = SaysState(t) \o MessageEntries(msg)
    BY <1>6, <2>1
  <2>. QED BY <2>2 DEF u
<1>10. CASE msg.role \in {"user", "assistant"} /\ ~HasCalls(msg)
  <2>1. /\ u.out = Append(Flushed(t), msg) /\ u.pending = <<>>
        /\ msg \in Turns /\ TurnEntries(msg) = MessageEntries(msg)
    BY <1>10, TranslateFacts, MessageKinds, PassedOn
  <2>. HIDE DEF u
  <2>2. SaysState(u) = SaysState(t) \o MessageEntries(msg)
    BY <1>6, <2>1
  <2>. QED BY <2>2 DEF u
<1>. QED BY <1>7, <1>8, <1>9, <1>10, MessageKinds

\* The Anthropic request says what the script's messages say.
LEMMA AnthropicSays ==
  ASSUME NEW list \in Seq(Messages)
  PROVE  Says(TranslateMessages(list).out) = Spoken(list)
<1>. DEFINE G == {l \in Seq(Messages) : SaysState(Translated(l)) = Spoken(l)}
<1>1. <<>> \in G
  <2>1. SaysState(NothingTranslated) = <<>>
    BY SaysFacts DEF SaysState, NothingTranslated, BlockEntries
  <2>. QED BY <2>1, TranslatedFacts, SpokenFacts
<1>2. ASSUME NEW l \in Seq(Messages), NEW msg \in Messages, l \in G
      PROVE  Append(l, msg) \in G
  <2>1. SaysState(Translated(Append(l, msg))) = SaysState(Translated(l)) \o MessageEntries(msg)
    BY TranslatedFacts, TranslateSays
  <2>2. Spoken(Append(l, msg)) = Spoken(l) \o MessageEntries(msg)
    BY SpokenFacts
  <2>3. Append(l, msg) \in Seq(Messages)
    OBVIOUS
  <2>. QED BY <1>2, <2>1, <2>2, <2>3
<1>. HIDE DEF G
<1>3. list \in G
  BY <1>1, <1>2, Translation!ListInduction
<1>. QED BY <1>3, RequestOf, FlushSays, TranslatedFacts DEF G

-----------------------------------------------------------------------------
(* The system texts.                                                       *)

\* The elements of sequences put one after the other.
LEMMA ElementsOf ==
  ASSUME NEW S, NEW a \in Seq(S)
  PROVE  /\ \A b \in Seq(S) : ToSet(a \o b) = ToSet(a) \cup ToSet(b)
         /\ \A x \in S : ToSet(Append(a, x)) = ToSet(a) \cup {x}
<1>1. ASSUME NEW b \in Seq(S)  PROVE ToSet(a \o b) = ToSet(a) \cup ToSet(b)
  <2>1. /\ DOMAIN (a \o b) = 1..(Len(a) + Len(b)) /\ DOMAIN a = 1..Len(a) /\ DOMAIN b = 1..Len(b)
        /\ \A i \in 1..(Len(a) + Len(b)) : (a \o b)[i] = IF i <= Len(a) THEN a[i] ELSE b[i - Len(a)]
        /\ Len(a) \in Nat /\ Len(b) \in Nat
    BY ConcatProperties
  <2>. DEFINE c == a \o b  m == Len(a)  n == Len(b)
  <2>2. /\ m \in Nat /\ n \in Nat /\ DOMAIN c = 1..(m + n) /\ DOMAIN a = 1..m /\ DOMAIN b = 1..n
        /\ \A i \in 1..(m + n) : c[i] = IF i <= m THEN a[i] ELSE b[i - m]
    BY <2>1
  <2>. HIDE DEF c, m, n
  <2>3. ASSUME NEW i \in 1..(m + n)  PROVE c[i] \in ToSet(a) \cup ToSet(b)
    <3>1. CASE i <= m
      BY <2>2, <3>1 DEF ToSet
    <3>2. CASE ~(i <= m)
      <4>1. i - m \in 1..n
        BY <2>2, <3>2
      <4>. QED BY <2>2, <3>2, <4>1 DEF ToSet
    <3>. QED BY <3>1, <3>2
  <2>4. ASSUME NEW i \in 1..m  PROVE a[i] \in ToSet(c)
    <3>1. i \in 1..(m + n) /\ c[i] = a[i]
      BY <2>2
    <3>. QED BY <2>2, <3>1 DEF ToSet
  <2>5. ASSUME NEW i \in 1..n  PROVE b[i] \in ToSet(c)
    <3>1. i + m \in 1..(m + n) /\ c[i + m] = b[i]
      <4>1. i + m \in 1..(m + n) /\ ~(i + m <= m) /\ (i + m) - m = i
        BY <2>2
      <4>. QED BY <2>2, <4>1
    <3>. QED BY <2>2, <3>1 DEF ToSet
  <2>6. ToSet(c) \subseteq ToSet(a) \cup ToSet(b)
    BY <2>2, <2>3 DEF ToSet
  <2>7. ToSet(a) \subseteq ToSet(c)
    BY <2>2, <2>4 DEF ToSet
  <2>8. ToSet(b) \subseteq ToSet(c)
    BY <2>2, <2>5 DEF ToSet
  <2>. QED BY <2>6, <2>7, <2>8 DEF c
<1>2. ASSUME NEW x \in S  PROVE ToSet(Append(a, x)) = ToSet(a) \cup {x}
  <2>. DEFINE c == Append(a, x)  m == Len(a)
  <2>1. /\ m \in Nat /\ DOMAIN c = 1..(m + 1) /\ DOMAIN a = 1..m /\ c[m + 1] = x
        /\ \A i \in 1..m : c[i] = a[i]
    OBVIOUS
  <2>. HIDE DEF c, m
  <2>2. m + 1 \in 1..(m + 1) /\ \A i \in 1..(m + 1) : i \in 1..m \/ i = m + 1
    BY <2>1
  <2>3. \A i \in 1..m : i \in 1..(m + 1)
    BY <2>1
  <2>4. ToSet(c) \subseteq ToSet(a) \cup {x}
    BY <2>1, <2>2 DEF ToSet
  <2>5. ToSet(a) \subseteq ToSet(c)
    BY <2>1, <2>3 DEF ToSet
  <2>6. x \in ToSet(c)
    BY <2>1, <2>2 DEF ToSet
  <2>. QED BY <2>4, <2>5, <2>6 DEF c
<1>. QED BY <1>1, <1>2

LEMMA TextsOf ==
  ASSUME NEW a \in Seq(Nat), NEW n \in Nat  PROVE ToSet(Append(a, n)) = ToSet(a) \cup {n}
<1>. DEFINE S == Nat
<1>1. a \in Seq(S) /\ n \in S
  OBVIOUS
<1>. HIDE DEF S
<1>2. \A x \in S : ToSet(Append(a, x)) = ToSet(a) \cup {x}
  BY <1>1, ElementsOf
<1>. QED BY <1>1, <1>2

LEMMA SystemPromptIsFold == ASSUME NEW list  PROVE SystemPrompt(list) = Instructions!Fold(<<>>, list)
BY DEF SystemPrompt, FoldLeft, MapThenFoldSet, Max,
       Instructions!Fold, Instructions!Top

LEMMA SystemPromptFacts ==
  /\ SystemPrompt(<<>>) = <<>>
  /\ \A list \in Seq(Messages) : SystemPrompt(list) \in Seq(Nat)
  /\ \A list \in Seq(Messages), msg \in Messages :
       SystemPrompt(Append(list, msg)) = AppendSystem(SystemPrompt(list), msg)
<1>1. SystemPrompt(<<>>) = <<>>
  BY SystemPromptIsFold, Instructions!FoldOfNone
<1>2. ASSUME NEW list \in Seq(Messages)  PROVE SystemPrompt(list) \in Seq(Nat)
  <2>. DEFINE e == <<>>  T == Seq(Nat)
  <2>1. e \in T
    BY EmptySeq
  <2>2. \A t \in T, x \in Messages : AppendSystem(t, x) \in T
    BY MessageKinds DEF AppendSystem
  <2>. HIDE DEF e, T
  <2>3. Instructions!Fold(e, list) \in T
    BY <2>1, <2>2, Instructions!FoldKeeps
  <2>. QED BY <2>3, SystemPromptIsFold DEF e, T
<1>3. ASSUME NEW list \in Seq(Messages), NEW msg \in Messages
      PROVE  SystemPrompt(Append(list, msg)) = AppendSystem(SystemPrompt(list), msg)
  BY SystemPromptIsFold, Instructions!FoldOfOneMore
<1>. QED BY <1>1, <1>2, <1>3

LEMMA SystemTextsAreFolds ==
  ASSUME NEW list
  PROVE  /\ StringSystem(list) = Strings!Fold(<<>>, list)
         /\ PartsSystem(list) = InParts!Fold(<<>>, list)
<1>1. StringSystem(list) = Strings!Fold(<<>>, list)
  BY DEF StringSystem, FoldLeft, MapThenFoldSet, Max, Strings!Fold, Strings!Top
<1>2. PartsSystem(list) = InParts!Fold(<<>>, list)
  BY DEF PartsSystem, FoldLeft, MapThenFoldSet, Max, InParts!Fold, InParts!Top
<1>. QED BY <1>1, <1>2

LEMMA SystemTextsFacts ==
  /\ StringSystem(<<>>) = <<>> /\ PartsSystem(<<>>) = <<>>
  /\ \A list \in Seq(Messages), msg \in Messages :
       /\ StringSystem(Append(list, msg)) = TakeString(StringSystem(list), msg)
       /\ PartsSystem(Append(list, msg)) = TakeParts(PartsSystem(list), msg)
<1>1. StringSystem(<<>>) = <<>> /\ PartsSystem(<<>>) = <<>>
  BY SystemTextsAreFolds, Strings!FoldOfNone, InParts!FoldOfNone
<1>2. ASSUME NEW list \in Seq(Messages), NEW msg \in Messages
      PROVE  StringSystem(Append(list, msg)) = TakeString(StringSystem(list), msg)
  BY SystemTextsAreFolds, Strings!FoldOfOneMore
<1>3. ASSUME NEW list \in Seq(Messages), NEW msg \in Messages
      PROVE  PartsSystem(Append(list, msg)) = TakeParts(PartsSystem(list), msg)
  BY SystemTextsAreFolds, InParts!FoldOfOneMore
<1>. QED BY <1>1, <1>2, <1>3

\* Every system text is in the system parameter, once, among those of its form, and in
\* the script's order when none of them was written in parts.
SystemKept(list) ==
  LET t == Translated(list) IN
  /\ ToSet(t.parts) \cup ToSet(t.blocks) = ToSet(SystemPrompt(list))
  /\ Len(t.parts) + Len(t.blocks) = Len(SystemPrompt(list))
  /\ t.parts = StringSystem(list) /\ t.blocks = PartsSystem(list)
  /\ t.blocks = <<>> => t.parts = SystemPrompt(list)

LEMMA SystemKeptByAll == ASSUME NEW list \in Seq(Messages)  PROVE SystemKept(list)
<1>. DEFINE G == {l \in Seq(Messages) : SystemKept(l)}
<1>1. <<>> \in G
  <2>1. ToSet(<<>>) \cup ToSet(<<>>) = ToSet(<<>>) /\ Len(<<>>) + Len(<<>>) = Len(<<>>)
    OBVIOUS
  <2>2. /\ Translated(<<>>).parts = <<>> /\ Translated(<<>>).blocks = <<>>
        /\ SystemPrompt(<<>>) = <<>> /\ StringSystem(<<>>) = <<>> /\ PartsSystem(<<>>) = <<>>
    BY TranslatedFacts, SystemPromptFacts, SystemTextsFacts DEF NothingTranslated
  <2>3. SystemKept(<<>>)
    BY <2>1, <2>2 DEF SystemKept
  <2>. QED BY <2>3, EmptySeq
<1>2. ASSUME NEW l \in Seq(Messages), NEW msg \in Messages, l \in G
      PROVE  Append(l, msg) \in G
  <2>. DEFINE t == Translated(l)  u == Translated(Append(l, msg))  p == SystemPrompt(l)
              q == SystemPrompt(Append(l, msg))
  <2>0. Append(l, msg) \in Seq(Messages)
    OBVIOUS
  <2>1. t \in TStates /\ u \in TStates /\ u = TranslateMessage(t, msg)
    BY <2>0, TranslatedFacts
  <2>2. p \in Seq(Nat) /\ q = AppendSystem(p, msg)
    BY SystemPromptFacts
  <2>3. /\ ToSet(t.parts) \cup ToSet(t.blocks) = ToSet(p) /\ Len(t.parts) + Len(t.blocks) = Len(p)
        /\ t.parts = StringSystem(l) /\ t.blocks = PartsSystem(l)
        /\ t.blocks = <<>> => t.parts = p
    BY <1>2 DEF SystemKept
  <2>4. /\ StringSystem(Append(l, msg)) = TakeString(StringSystem(l), msg)
        /\ PartsSystem(Append(l, msg)) = TakeParts(PartsSystem(l), msg)
    BY SystemTextsFacts
  <2>5. t.parts \in Seq(Nat) /\ t.blocks \in Seq(Nat)
    BY <2>1 DEF TStates
  <2>6. \/ msg.role = "system" /\ msg.form = "string" /\ u.parts = Append(t.parts, msg.text) /\ u.blocks = t.blocks
        \/ msg.role = "system" /\ msg.form = "parts" /\ u.blocks = Append(t.blocks, msg.text) /\ u.parts = t.parts
        \/ msg.role # "system" /\ u.parts = t.parts /\ u.blocks = t.blocks
    <3>. HIDE DEF t, u
    <3>. QED BY <2>1, TranslateFacts
  <2>. HIDE DEF t, u, p, q
  <2>7. SUFFICES /\ ToSet(u.parts) \cup ToSet(u.blocks) = ToSet(q)
                 /\ Len(u.parts) + Len(u.blocks) = Len(q)
                 /\ u.parts = StringSystem(Append(l, msg)) /\ u.blocks = PartsSystem(Append(l, msg))
                 /\ u.blocks = <<>> => u.parts = q
    BY <2>0 DEF SystemKept, u, q
  <2>10. u.parts = StringSystem(Append(l, msg)) /\ u.blocks = PartsSystem(Append(l, msg))
    BY <2>3, <2>4, <2>6 DEF TakeString, TakeParts
  <2>8. CASE msg.role # "system"
    BY <2>2, <2>3, <2>6, <2>8, <2>10 DEF AppendSystem
  <2>9. CASE msg.role = "system"
    <3>1. msg.text \in Nat /\ q = Append(p, msg.text)
      BY <2>2, <2>9, MessageKinds DEF AppendSystem
    <3>2. ToSet(q) = ToSet(p) \cup {msg.text} /\ Len(q) = Len(p) + 1
      <4>1. ToSet(q) = ToSet(p) \cup {msg.text}
        BY <2>2, <3>1, TextsOf
      <4>2. Len(q) = Len(p) + 1
        BY <2>2, <3>1
      <4>. QED BY <4>1, <4>2
    <3>3. CASE msg.form = "string" /\ u.parts = Append(t.parts, msg.text) /\ u.blocks = t.blocks
      <4>1. ToSet(u.parts) = ToSet(t.parts) \cup {msg.text} /\ Len(u.parts) = Len(t.parts) + 1
        <5>1. ToSet(u.parts) = ToSet(t.parts) \cup {msg.text}
          BY <2>5, <3>1, <3>3, TextsOf
        <5>2. Len(u.parts) = Len(t.parts) + 1
          BY <2>5, <3>1, <3>3
        <5>. QED BY <5>1, <5>2
      <4>2. Len(t.parts) \in Nat /\ Len(t.blocks) \in Nat
        BY <2>5
      <4>3. Len(u.parts) + Len(u.blocks) = Len(q)
        <5>. DEFINE a == Len(t.parts)  b == Len(t.blocks)  c == Len(p)
        <5>1. a \in Nat /\ b \in Nat /\ a + b = c
          BY <2>3, <4>2
        <5>2. /\ Len(q) = c + 1
              /\ Len(u.parts) = a + 1
              /\ Len(u.blocks) = b
          BY <3>2, <3>3, <4>1
        <5>. HIDE DEF a, b, c
        <5>. QED BY <5>1, <5>2
      <4>. QED BY <2>3, <2>10, <3>1, <3>2, <3>3, <4>1, <4>3
    <3>4. CASE msg.form = "parts" /\ u.blocks = Append(t.blocks, msg.text) /\ u.parts = t.parts
      <4>1. ToSet(u.blocks) = ToSet(t.blocks) \cup {msg.text} /\ Len(u.blocks) = Len(t.blocks) + 1
        <5>1. ToSet(u.blocks) = ToSet(t.blocks) \cup {msg.text}
          BY <2>5, <3>1, <3>4, TextsOf
        <5>2. Len(u.blocks) = Len(t.blocks) + 1
          BY <2>5, <3>1, <3>4
        <5>. QED BY <5>1, <5>2
      <4>2. Len(t.parts) \in Nat /\ Len(t.blocks) \in Nat
        BY <2>5
      <4>3. Len(u.parts) + Len(u.blocks) = Len(q)
        <5>. DEFINE a == Len(t.parts)  b == Len(t.blocks)  c == Len(p)
        <5>1. a \in Nat /\ b \in Nat /\ a + b = c
          BY <2>3, <4>2
        <5>2. /\ Len(q) = c + 1
              /\ Len(u.parts) = a
              /\ Len(u.blocks) = b + 1
          BY <3>2, <3>4, <4>1
        <5>. HIDE DEF a, b, c
        <5>. QED BY <5>1, <5>2
      <4>4. u.blocks # <<>>
        BY <2>5, <4>1, <4>2
      <4>. QED BY <2>3, <2>10, <3>1, <3>2, <3>4, <4>1, <4>3, <4>4
    <3>. QED BY <2>6, <2>9, <3>3, <3>4
  <2>. QED BY <2>8, <2>9
<1>. HIDE DEF G
<1>3. list \in G
  BY <1>1, <1>2, Translation!ListInduction
<1>. QED BY <1>3 DEF G

-----------------------------------------------------------------------------
(* The Responses translation.                                              *)

Items == Messages \cup [type: {"function_call"}, id: Nat, args: Seq(Fragments)]
           \cup [type: {"function_call_output"}, id: Nat]
Inputs == [input: Seq(Items), instructions: Seq(Nat)]

LEMMA KeptEntriesFacts ==
  ASSUME NEW msg \in Messages
  PROVE  /\ KeptEntries(msg) \in Seq(Entries)
         /\ msg.role # "system" => KeptEntries(msg) = MessageEntries(msg)
         /\ msg.role = "system" /\ msg.form = "string" => KeptEntries(msg) = <<>>
<1>1. CASE msg.role = "system" /\ msg.form = "parts"
  <2>1. msg.text \in Nat /\ KeptEntries(msg) = <<<<"system", msg.text>>>>
    BY <1>1, MessageKinds DEF KeptEntries
  <2>2. <<"system", msg.text>> \in Entries
    BY <2>1 DEF Entries
  <2>. QED BY <1>1, <2>1, <2>2
<1>2. CASE ~(msg.role = "system" /\ msg.form = "parts")
  BY <1>2, MessageEntriesType DEF KeptEntries
<1>. QED BY <1>1, <1>2

LEMMA ItemFacts ==
  /\ \A item \in Items : ItemEntries(item) \in Seq(Entries)
  /\ \A msg \in Messages : ItemEntries(msg) = KeptEntries(msg)
<1>1. ASSUME NEW msg \in Messages
      PROVE  ItemEntries(msg) = KeptEntries(msg) /\ KeptEntries(msg) \in Seq(Entries)
  <2>1. "type" \notin DOMAIN msg
    BY MessageKinds
  <2>. QED BY <2>1, KeptEntriesFacts DEF ItemEntries
<1>2. ASSUME NEW item \in Items \ Messages  PROVE ItemEntries(item) \in Seq(Entries)
  <2>1. "type" \in DOMAIN item /\ item.id \in Nat
    BY DEF Items
  <2>2. <<"call", item.id>> \in Entries /\ <<"result", item.id>> \in Entries
    BY <2>1 DEF Entries
  <2>3. ItemEntries(item) = <<<<"call", item.id>>>> \/ ItemEntries(item) = <<<<"result", item.id>>>>
    BY <2>1 DEF ItemEntries
  <2>. QED BY <2>2, <2>3
<1>. QED BY <1>1, <1>2

SaysItems(items) == FoldLeft(SayItem, <<>>, items)

LEMMA SaysItemsIsFold == ASSUME NEW items  PROVE SaysItems(items) = ItemSpeech!Fold(<<>>, items)
BY DEF SaysItems, FoldLeft, MapThenFoldSet, Max,
       ItemSpeech!Fold, ItemSpeech!Top

LEMMA SaysItemsFacts ==
  /\ SaysItems(<<>>) = <<>>
  /\ \A items \in Seq(Items) : SaysItems(items) \in Seq(Entries)
  /\ \A items \in Seq(Items), item \in Items :
       SaysItems(Append(items, item)) = SaysItems(items) \o ItemEntries(item)
<1>1. SaysItems(<<>>) = <<>>
  BY SaysItemsIsFold, ItemSpeech!FoldOfNone
<1>2. ASSUME NEW items \in Seq(Items)  PROVE SaysItems(items) \in Seq(Entries)
  <2>. DEFINE e == <<>>  T == Seq(Entries)
  <2>1. e \in T
    BY EmptySeq
  <2>2. \A t \in T, x \in Items : SayItem(t, x) \in T
    BY ItemFacts, ConcatProperties DEF SayItem
  <2>. HIDE DEF e, T
  <2>3. ItemSpeech!Fold(e, items) \in T
    BY <2>1, <2>2, ItemSpeech!FoldKeeps
  <2>. QED BY <2>3, SaysItemsIsFold DEF e, T
<1>3. ASSUME NEW items \in Seq(Items), NEW item \in Items
      PROVE  SaysItems(Append(items, item)) = SaysItems(items) \o ItemEntries(item)
  <2>1. ItemSpeech!Fold(<<>>, Append(items, item)) = SayItem(ItemSpeech!Fold(<<>>, items), item)
    BY <1>3, ItemSpeech!FoldOfOneMore
  <2>. QED BY <2>1, SaysItemsIsFold DEF SayItem
<1>. QED BY <1>1, <1>2, <1>3

\* The calls of a message, one item each.
CallItem(call) == [type |-> "function_call", id |-> call.id, args |-> call.args]
CallItems(calls) == [k \in DOMAIN calls |-> CallItem(calls[k])]

LEMMA CallItemsFacts ==
  ASSUME NEW calls \in Seq(ToolCalls)
  PROVE  CallItems(calls) \in Seq(Items)
<1>1. ASSUME NEW k \in 1..Len(calls)  PROVE CallItem(calls[k]) \in Items
  <2>1. calls[k] \in ToolCalls
    OBVIOUS
  <2>. QED BY <2>1 DEF ToolCalls, CallItem, Items
<1>2. CallItems(calls) = [k \in 1..Len(calls) |-> CallItem(calls[k])] /\ Len(calls) \in Nat
  BY DEF CallItems
<1>. QED BY <1>1, <1>2

\* The items of the calls of a message say the calls.
LEMMA CallItemsSay ==
  ASSUME NEW items \in Seq(Items), NEW calls \in Seq(ToolCalls)
  PROVE  SaysItems(items \o CallItems(calls)) = SaysItems(items) \o CallEntries(calls)
<1>. DEFINE G == {c \in Seq(ToolCalls) :
                    SaysItems(items \o CallItems(c)) = SaysItems(items) \o CallEntries(c)}
<1>0. SaysItems(items) \in Seq(Entries)
  BY SaysItemsFacts
<1>1. <<>> \in G
  <2>1. CallItems(<<>>) = <<>> /\ CallEntries(<<>>) = <<>> /\ <<>> \in Seq(ToolCalls)
    BY DEF CallItems, CallEntries
  <2>2. items \o <<>> = items /\ SaysItems(items) \o <<>> = SaysItems(items)
    BY <1>0
  <2>. QED BY <2>1, <2>2
<1>2. ASSUME NEW c \in Seq(ToolCalls), NEW call \in ToolCalls, c \in G  PROVE Append(c, call) \in G
  <2>. DEFINE d == Append(c, call)  n == Len(c)
  <2>1. /\ n \in Nat /\ DOMAIN c = 1..n /\ d \in Seq(ToolCalls) /\ DOMAIN d = 1..(n + 1)
        /\ Len(d) = n + 1 /\ d[n + 1] = call /\ \A k \in 1..n : d[k] = c[k]
    OBVIOUS
  <2>2. CallItem(call) \in Items /\ <<"call", call.id>> \in Entries
    BY DEF CallItem, Items, ToolCalls, Entries
  <2>3. CallItems(c) \in Seq(Items) /\ CallItems(d) \in Seq(Items)
        /\ CallEntries(c) \in Seq(Entries) /\ CallEntries(d) \in Seq(Entries)
    BY <2>1, CallItemsFacts, UseBlocksFacts
  <2>. HIDE DEF d, n
  <2>4. CallItems(d) = Append(CallItems(c), CallItem(call))
    <3>. DEFINE L == CallItems(d)  a == CallItems(c)  x == CallItem(call)
    <3>1. L = [k \in 1..(n + 1) |-> CallItem(d[k])] /\ a = [k \in 1..n |-> CallItem(c[k])]
      BY <2>1 DEF CallItems
    <3>2. Len(L) = n + 1 /\ L[n + 1] = x /\ \A k \in 1..n : L[k] = CallItem(c[k])
      BY <2>1, <3>1
    <3>3. Len(a) = n /\ \A k \in 1..n : a[k] = CallItem(c[k])
      BY <2>1, <3>1
    <3>. HIDE DEF L, a, x
    <3>4. /\ Append(a, x) \in Seq(Items) /\ Len(Append(a, x)) = n + 1 /\ Append(a, x)[n + 1] = x
          /\ \A k \in 1..n : Append(a, x)[k] = a[k]
      BY <2>2, <2>3, <3>3 DEF a, x
    <3>5. \A k \in 1..Len(L) : L[k] = Append(a, x)[k]
      <4>1. \A k \in 1..n : L[k] = Append(a, x)[k]
        BY <3>2, <3>3, <3>4
      <4>2. \A k \in 1..(n + 1) : k \in 1..n \/ k = n + 1
        BY <2>1
      <4>. QED BY <3>2, <3>4, <4>1, <4>2
    <3>6. L \in Seq(Items)
      BY <2>3 DEF L
    <3>. QED BY <3>2, <3>4, <3>5, <3>6, SeqEqual DEF L, a, x
  <2>5. CallEntries(d) = Append(CallEntries(c), <<"call", call.id>>)
    <3>. DEFINE L == CallEntries(d)  a == CallEntries(c)  x == <<"call", call.id>>
    <3>1. L = [k \in 1..(n + 1) |-> <<"call", d[k].id>>] /\ a = [k \in 1..n |-> <<"call", c[k].id>>]
      BY <2>1 DEF CallEntries
    <3>2. Len(L) = n + 1 /\ L[n + 1] = x /\ \A k \in 1..n : L[k] = <<"call", c[k].id>>
      BY <2>1, <3>1
    <3>3. Len(a) = n /\ \A k \in 1..n : a[k] = <<"call", c[k].id>>
      BY <2>1, <3>1
    <3>. HIDE DEF L, a, x
    <3>4. /\ Append(a, x) \in Seq(Entries) /\ Len(Append(a, x)) = n + 1 /\ Append(a, x)[n + 1] = x
          /\ \A k \in 1..n : Append(a, x)[k] = a[k]
      BY <2>2, <2>3, <3>3 DEF a, x
    <3>5. \A k \in 1..Len(L) : L[k] = Append(a, x)[k]
      <4>1. \A k \in 1..n : L[k] = Append(a, x)[k]
        BY <3>2, <3>3, <3>4
      <4>2. \A k \in 1..(n + 1) : k \in 1..n \/ k = n + 1
        BY <2>1
      <4>. QED BY <3>2, <3>4, <4>1, <4>2
    <3>6. L \in Seq(Entries)
      BY <2>3 DEF L
    <3>. QED BY <3>2, <3>4, <3>5, <3>6, SeqEqual DEF L, a, x
  <2>6. ItemEntries(CallItem(call)) = <<<<"call", call.id>>>>
    BY DEF ItemEntries, CallItem
  <2>. DEFINE a == CallItems(c)  x == CallItem(call)  y == <<"call", call.id>>  b == CallEntries(c)
              p == SaysItems(items)
  <2>. HIDE DEF a, x, y, b, p
  <2>7. items \o Append(a, x) = Append(items \o a, x) /\ items \o a \in Seq(Items)
    <3>1. a \in Seq(Items) /\ x \in Items
      BY <2>2, <2>3 DEF a, x
    <3>. QED BY <3>1
  <2>8. SaysItems(Append(items \o a, x)) = SaysItems(items \o a) \o ItemEntries(x)
    BY <2>2, <2>7, SaysItemsFacts DEF x
  <2>9. SaysItems(items \o a) = p \o b
    BY <1>2 DEF a, b, p
  <2>10. p \in Seq(Entries) /\ b \in Seq(Entries) /\ y \in Entries
    BY <1>0, <2>2, <2>3 DEF p, b, y
  <2>11. (p \o b) \o <<y>> = p \o Append(b, y)
    <3>. DEFINE q == <<y>>
    <3>1. q \in Seq(Entries) /\ Append(b, y) = b \o q
      BY <2>10
    <3>. HIDE DEF q
    <3>2. (p \o b) \o q = p \o (b \o q)
      BY <2>10, <3>1, ConcatAssociative, SMTT(30)
    <3>. QED BY <3>1, <3>2 DEF q
  <2>12. SaysItems(items \o CallItems(d)) = p \o CallEntries(d)
    <3>1. CallItems(d) = Append(a, x) /\ CallEntries(d) = Append(b, y) /\ ItemEntries(x) = <<y>>
      BY <2>4, <2>5, <2>6 DEF a, x, y, b
    <3>. QED BY <2>7, <2>8, <2>9, <2>11, <3>1
  <2>. QED BY <2>1, <2>12 DEF d, p
<1>. HIDE DEF G
<1>3. calls \in G
  BY <1>1, <1>2, Translation!ListInduction
<1>. QED BY <1>3 DEF G

\* One message more adds its items and says what it says.
LEMMA InputFacts ==
  ASSUME NEW t \in Inputs, NEW msg \in Messages, NEW u, u = InputItem(t, msg)
  PROVE  /\ u \in Inputs
         /\ SaysItems(u.input) = SaysItems(t.input) \o KeptEntries(msg)
         /\ \E more \in Seq(Items) : u.input = t.input \o more
         /\ u.instructions = IF msg.role = "system" /\ msg.form = "string"
                             THEN Append(t.instructions, msg.text) ELSE t.instructions
<1>0. /\ msg.role \in {"system", "user", "assistant", "tool"}
      /\ msg.role # "tool" => msg.text \in Nat
      /\ msg.role = "tool" => msg.id \in Nat
      /\ HasCalls(msg) => msg.role = "assistant" /\ msg.calls \in Seq(ToolCalls)
      /\ MessageEntries(msg) \in Seq(Entries)
  BY MessageKinds, MessageEntriesType
<1>1. t.input \in Seq(Items) /\ t.instructions \in Seq(Nat)
  BY DEF Inputs
<1>2. SaysItems(t.input) \in Seq(Entries)
  BY <1>1, SaysItemsFacts
<1>3. u = CASE msg.role = "system" /\ msg.form = "string" -> [t EXCEPT !.instructions = Append(@, msg.text)]
            [] msg.role = "tool" ->
                 [t EXCEPT !.input = Append(@, [type |-> "function_call_output", id |-> msg.id])]
            [] HasCalls(msg) ->
                 [t EXCEPT !.input = (IF msg.text = 0 THEN @ ELSE Append(@, PlainMessage(msg.text)))
                    \o CallItems(msg.calls)]
            [] OTHER -> [t EXCEPT !.input = Append(@, msg)]
  BY DEF InputItem, CallItems, CallItem
<1>4. ASSUME NEW item \in Items, u = [t EXCEPT !.input = Append(@, item)],
             ItemEntries(item) = KeptEntries(msg)
      PROVE  /\ u \in Inputs
             /\ SaysItems(u.input) = SaysItems(t.input) \o KeptEntries(msg)
             /\ \E more \in Seq(Items) : u.input = t.input \o more
             /\ u.instructions = t.instructions
  <2>1. u.input = Append(t.input, item) /\ u.instructions = t.instructions
    BY <1>4 DEF Inputs
  <2>2. u \in Inputs
    <3>1. Append(t.input, item) \in Seq(Items)
      BY <1>1
    <3>. QED BY <1>4, <3>1 DEF Inputs
  <2>3. SaysItems(Append(t.input, item)) = SaysItems(t.input) \o ItemEntries(item)
    BY <1>1, SaysItemsFacts
  <2>4. Append(t.input, item) = t.input \o <<item>> /\ <<item>> \in Seq(Items)
    BY <1>1
  <2>. QED BY <1>4, <2>1, <2>2, <2>3, <2>4
<1>5. CASE msg.role = "system" /\ msg.form = "string"
  <2>1. u = [t EXCEPT !.instructions = Append(@, msg.text)]
    BY <1>0, <1>3, <1>5
  <2>2. u.input = t.input /\ u.instructions = Append(t.instructions, msg.text)
    BY <2>1 DEF Inputs
  <2>3. u \in Inputs
    <3>1. Append(t.instructions, msg.text) \in Seq(Nat)
      BY <1>0, <1>1, <1>5
    <3>. QED BY <2>1, <3>1 DEF Inputs
  <2>4. KeptEntries(msg) = <<>>
    BY <1>5, KeptEntriesFacts
  <2>5. SaysItems(t.input) \o <<>> = SaysItems(t.input) /\ t.input \o <<>> = t.input
        /\ <<>> \in Seq(Items)
    BY <1>1, <1>2
  <2>. QED BY <1>5, <2>2, <2>3, <2>4, <2>5
<1>6. CASE msg.role = "tool"
  <2>. DEFINE item == [type |-> "function_call_output", id |-> msg.id]
  <2>1. u = [t EXCEPT !.input = Append(@, item)]
    BY <1>0, <1>3, <1>6
  <2>2. item \in Items
    BY <1>0, <1>6 DEF Items
  <2>3. ItemEntries(item) = <<<<"result", msg.id>>>>
    BY DEF ItemEntries
  <2>4. KeptEntries(msg) = <<<<"result", msg.id>>>>
    BY <1>6, KeptEntriesFacts, MessageEntriesType DEF BlockEntry, ResultBlock
  <2>. HIDE DEF item
  <2>5. /\ u \in Inputs /\ SaysItems(u.input) = SaysItems(t.input) \o KeptEntries(msg)
        /\ \E more \in Seq(Items) : u.input = t.input \o more
        /\ u.instructions = t.instructions
    BY <1>4, <2>1, <2>2, <2>3, <2>4
  <2>. QED BY <1>6, <2>5
<1>7. CASE HasCalls(msg)
  <2>. DEFINE text == IF msg.text = 0 THEN <<>> ELSE <<PlainMessage(msg.text)>>
              calls == CallItems(msg.calls)
  <2>1. u = [t EXCEPT !.input = (IF msg.text = 0 THEN @ ELSE Append(@, PlainMessage(msg.text))) \o calls]
    BY <1>0, <1>3, <1>7
  <2>2. PlainMessage(msg.text) \in Messages /\ PlainMessage(msg.text) \in Items
        /\ PlainMessage(msg.text).role # "system"
        /\ MessageEntries(PlainMessage(msg.text)) = TextEntry(msg.text)
    <3>1. PlainMessage(msg.text) \in PlainMessages
      BY <1>0, <1>7 DEF PlainMessage, PlainMessages
    <3>2. PlainMessage(msg.text) \in Messages /\ ~HasCalls(PlainMessage(msg.text))
          /\ PlainMessage(msg.text).role = "assistant" /\ PlainMessage(msg.text).text = msg.text
      BY <3>1, PassedOn DEF PlainMessage
    <3>. QED BY <3>2, MessageEntriesType DEF Items
  <2>3. calls \in Seq(Items) /\ text \in Seq(Items)
    BY <1>0, <1>7, <2>2, CallItemsFacts
  <2>4. /\ (IF msg.text = 0 THEN t.input ELSE Append(t.input, PlainMessage(msg.text))) = t.input \o text
        /\ t.input \o text \in Seq(Items)
        /\ SaysItems(t.input \o text) = SaysItems(t.input) \o TextEntry(msg.text)
    <3>1. CASE msg.text = 0
      <4>1. TextEntry(msg.text) = <<>> /\ text = <<>>
        BY <3>1 DEF TextEntry
      <4>2. t.input \o <<>> = t.input /\ SaysItems(t.input) \o <<>> = SaysItems(t.input)
        BY <1>1, <1>2
      <4>. QED BY <1>1, <3>1, <4>1, <4>2
    <3>2. CASE msg.text # 0
      <4>. DEFINE item == PlainMessage(msg.text)
      <4>1. ItemEntries(item) = TextEntry(msg.text)
        BY <2>2, ItemFacts, KeptEntriesFacts
      <4>2. item \in Items /\ text = <<item>>
        BY <2>2, <3>2
      <4>. HIDE DEF item, text
      <4>3. t.input \o text = Append(t.input, item) /\ Append(t.input, item) \in Seq(Items)
        BY <1>1, <4>2
      <4>4. SaysItems(Append(t.input, item)) = SaysItems(t.input) \o ItemEntries(item)
        BY <1>1, <4>2, SaysItemsFacts
      <4>. QED BY <3>2, <4>1, <4>3, <4>4 DEF item
    <3>. QED BY <3>1, <3>2
  <2>. HIDE DEF text, calls
  <2>5. u = [t EXCEPT !.input = (t.input \o text) \o calls]
    BY <2>1, <2>4
  <2>6. u.input = (t.input \o text) \o calls /\ u.instructions = t.instructions
    BY <2>5 DEF Inputs
  <2>7. (t.input \o text) \o calls \in Seq(Items)
    BY <2>3, <2>4, ConcatProperties
  <2>8. u \in Inputs
    BY <2>5, <2>7 DEF Inputs
  <2>9. SaysItems(u.input) = (SaysItems(t.input) \o TextEntry(msg.text)) \o CallEntries(msg.calls)
    BY <1>0, <1>7, <2>4, <2>6, CallItemsSay DEF calls
  <2>10. TextEntry(msg.text) \in Seq(Entries) /\ CallEntries(msg.calls) \in Seq(Entries)
    BY <1>0, <1>7, TextEntries, UseBlocksFacts
  <2>11. SaysItems(u.input) = SaysItems(t.input) \o (TextEntry(msg.text) \o CallEntries(msg.calls))
    BY <1>2, <2>9, <2>10, ConcatAssociative
  <2>12. u.input = t.input \o (text \o calls) /\ text \o calls \in Seq(Items)
    <3>1. (t.input \o text) \o calls = t.input \o (text \o calls)
      <4>. DEFINE i == t.input
      <4>1. i \in Seq(Items)
        BY <1>1
      <4>. HIDE DEF i
      <4>2. (i \o text) \o calls = i \o (text \o calls)
        BY <2>3, <4>1, ConcatAssociative
      <4>. QED BY <4>2 DEF i
    <3>2. text \o calls \in Seq(Items)
      BY <2>3, ConcatProperties
    <3>. QED BY <2>6, <3>1, <3>2
  <2>. QED BY <1>0, <1>7, <2>6, <2>8, <2>11, <2>12, MessageEntriesType, KeptEntriesFacts
<1>8. CASE ~(msg.role = "system" /\ msg.form = "string") /\ msg.role # "tool" /\ ~HasCalls(msg)
  <2>1. u = [t EXCEPT !.input = Append(@, msg)]
    BY <1>3, <1>8
  <2>2. msg \in Items /\ ItemEntries(msg) = KeptEntries(msg)
    BY ItemFacts DEF Items
  <2>3. /\ u \in Inputs /\ SaysItems(u.input) = SaysItems(t.input) \o KeptEntries(msg)
        /\ \E more \in Seq(Items) : u.input = t.input \o more
        /\ u.instructions = t.instructions
    BY <1>4, <2>1, <2>2
  <2>. QED BY <1>8, <2>3
<1>. QED BY <1>5, <1>6, <1>7, <1>8

LEMMA ResponsesInputIsFold ==
  ASSUME NEW list  PROVE ResponsesInput(list) = Itemization!Fold(NoInput, list)
BY DEF ResponsesInput, FoldLeft, MapThenFoldSet, Max,
       Itemization!Fold, Itemization!Top

LEMMA ResponsesInputFacts ==
  /\ ResponsesInput(<<>>) = NoInput
  /\ \A list \in Seq(Messages) : ResponsesInput(list) \in Inputs
  /\ \A list \in Seq(Messages), msg \in Messages :
       ResponsesInput(Append(list, msg)) = InputItem(ResponsesInput(list), msg)
<1>1. ResponsesInput(<<>>) = NoInput
  BY ResponsesInputIsFold, Itemization!FoldOfNone
<1>2. NoInput \in Inputs
  BY EmptySeq DEF NoInput, Inputs
<1>3. ASSUME NEW list \in Seq(Messages)  PROVE ResponsesInput(list) \in Inputs
  <2>1. \A t \in Inputs, x \in Messages : InputItem(t, x) \in Inputs
    BY InputFacts
  <2>2. Itemization!Fold(NoInput, list) \in Inputs
    BY <1>2, <2>1, Itemization!FoldKeeps
  <2>. QED BY <2>2, ResponsesInputIsFold
<1>4. ASSUME NEW list \in Seq(Messages), NEW msg \in Messages
      PROVE  ResponsesInput(Append(list, msg)) = InputItem(ResponsesInput(list), msg)
  BY ResponsesInputIsFold, Itemization!FoldOfOneMore
<1>. QED BY <1>1, <1>3, <1>4

LEMMA SpokenOrKeptIsFold ==
  ASSUME NEW list  PROVE SpokenOrKept(list) = KeptSpeech!Fold(<<>>, list)
BY DEF SpokenOrKept, FoldLeft, MapThenFoldSet, Max, KeptSpeech!Fold, KeptSpeech!Top

LEMMA SpokenOrKeptFacts ==
  /\ SpokenOrKept(<<>>) = <<>>
  /\ \A list \in Seq(Messages), msg \in Messages :
       SpokenOrKept(Append(list, msg)) = SpokenOrKept(list) \o KeptEntries(msg)
<1>1. SpokenOrKept(<<>>) = <<>>
  BY SpokenOrKeptIsFold, KeptSpeech!FoldOfNone
<1>2. ASSUME NEW list \in Seq(Messages), NEW msg \in Messages
      PROVE  SpokenOrKept(Append(list, msg)) = SpokenOrKept(list) \o KeptEntries(msg)
  <2>1. KeptSpeech!Fold(<<>>, Append(list, msg)) = SayKept(KeptSpeech!Fold(<<>>, list), msg)
    BY <1>2, KeptSpeech!FoldOfOneMore
  <2>. QED BY <2>1, SpokenOrKeptIsFold DEF SayKept
<1>. QED BY <1>1, <1>2

\* The Responses request says what the script's messages say, a system message written
\* in parts still among them, and its instructions are the system texts written as
\* strings.
LEMMA ResponsesSays ==
  ASSUME NEW list \in Seq(Messages)
  PROVE  /\ SaysItems(ResponsesInput(list).input) = SpokenOrKept(list)
         /\ ResponsesInput(list).instructions = StringSystem(list)
<1>. DEFINE Agree(l) == /\ SaysItems(ResponsesInput(l).input) = SpokenOrKept(l)
                        /\ ResponsesInput(l).instructions = StringSystem(l)
            G == {l \in Seq(Messages) : Agree(l)}
<1>1. <<>> \in G
  <2>1. Agree(<<>>)
    BY ResponsesInputFacts, SaysItemsFacts, SpokenOrKeptFacts, SystemTextsFacts DEF NoInput
  <2>. QED BY <2>1, EmptySeq
<1>2. ASSUME NEW l \in Seq(Messages), NEW msg \in Messages, l \in G  PROVE Append(l, msg) \in G
  <2>. DEFINE t == ResponsesInput(l)  u == ResponsesInput(Append(l, msg))
  <2>1. t \in Inputs /\ u = InputItem(t, msg)
    BY ResponsesInputFacts
  <2>. HIDE DEF t, u
  <2>2. /\ SaysItems(u.input) = SaysItems(t.input) \o KeptEntries(msg)
        /\ u.instructions = IF msg.role = "system" /\ msg.form = "string"
                            THEN Append(t.instructions, msg.text) ELSE t.instructions
    BY <2>1, InputFacts
  <2>3. SpokenOrKept(Append(l, msg)) = SpokenOrKept(l) \o KeptEntries(msg)
        /\ StringSystem(Append(l, msg)) = TakeString(StringSystem(l), msg)
    BY SpokenOrKeptFacts, SystemTextsFacts
  <2>4. SaysItems(t.input) = SpokenOrKept(l) /\ t.instructions = StringSystem(l)
    BY <1>2 DEF t
  <2>5. SaysItems(u.input) = SpokenOrKept(Append(l, msg))
    BY <2>2, <2>3, <2>4
  <2>6. u.instructions = StringSystem(Append(l, msg))
    BY <2>2, <2>3, <2>4 DEF TakeString
  <2>7. Append(l, msg) \in Seq(Messages)
    OBVIOUS
  <2>. QED BY <2>5, <2>6, <2>7 DEF u
<1>. HIDE DEF G
<1>3. list \in G
  BY <1>1, <1>2, Translation!ListInduction
<1>. QED BY <1>3 DEF G

-----------------------------------------------------------------------------
(* The record.                                                             *)

UseParts(calls) == [k \in DOMAIN calls |-> [type |-> "tool_use", id |-> calls[k].id]]

LEMMA UsePartsFacts ==
  ASSUME NEW calls \in Seq(ToolCalls)
  PROVE  /\ UseParts(calls) \in Seq(Parts)
         /\ BlockEntries(UseParts(calls)) = CallEntries(calls)
<1>0. DOMAIN calls = 1..Len(calls) /\ Len(calls) \in Nat
  OBVIOUS
<1>. DEFINE use(k) == [type |-> "tool_use", id |-> calls[k].id]
<1>1. ASSUME NEW k \in 1..Len(calls)
      PROVE  use(k) \in Parts /\ BlockEntry(use(k)) = <<"call", calls[k].id>>
  <2>1. calls[k].id \in Nat
    <3>1. calls[k] \in ToolCalls
      OBVIOUS
    <3>. QED BY <3>1 DEF ToolCalls
  <2>. QED BY <2>1 DEF Parts, BlockEntry
<1>2. UseParts(calls) = [k \in 1..Len(calls) |-> use(k)]
  BY <1>0 DEF UseParts
<1>. HIDE DEF use
<1>3. /\ UseParts(calls) \in Seq(Parts) /\ DOMAIN UseParts(calls) = 1..Len(calls)
      /\ \A k \in 1..Len(calls) : UseParts(calls)[k] = use(k)
  BY <1>0, <1>1, <1>2
<1>4. CallEntries(calls) = [k \in 1..Len(calls) |-> <<"call", calls[k].id>>]
  BY <1>0 DEF CallEntries
<1>5. BlockEntries(UseParts(calls)) = [k \in 1..Len(calls) |-> <<"call", calls[k].id>>]
  BY <1>1, <1>3 DEF BlockEntries
<1>. QED BY <1>3, <1>4, <1>5

\* The parts of a message say what it says, when its content is a string.
LEMMA MessagePartsFacts ==
  ASSUME NEW msg \in Messages
  PROVE  /\ MessageParts(msg) \in Seq(Parts)
         /\ msg.role # "system" => BlockEntries(MessageParts(msg)) =
                                     IF msg.form = "string" THEN MessageEntries(msg) ELSE <<>>
<1>0. /\ msg.role \in {"system", "user", "assistant", "tool"}
      /\ msg.role # "tool" => msg.text \in Nat
      /\ msg.role = "tool" => msg.id \in Nat /\ msg.form = "string"
      /\ msg.role = "assistant" => msg.form = "string"
      /\ HasCalls(msg) => msg.role = "assistant" /\ msg.calls \in Seq(ToolCalls)
  BY MessageKinds
<1>1. CASE msg.role = "tool"
  <2>. DEFINE r == ResultBlock(msg)
  <2>1. MessageParts(msg) = <<r>> /\ r \in Parts /\ r \in Blocks \cup Parts
    BY <1>0, <1>1 DEF MessageParts, ResultBlock, Parts, ResultBlocks
  <2>2. MessageEntries(msg) = <<BlockEntry(r)>>
    BY <1>1, MessageEntriesType
  <2>. HIDE DEF r
  <2>3. BlockEntries(<<r>>) = <<BlockEntry(r)>>
    BY <2>1, BlockEntriesOfOne
  <2>. QED BY <1>0, <1>1, <2>1, <2>2, <2>3
<1>2. CASE HasCalls(msg)
  <2>. DEFINE a == TextBlocks(msg.text)  b == UseParts(msg.calls)
  <2>1. MessageParts(msg) = a \o b
    BY <1>0, <1>2 DEF MessageParts, UseParts
  <2>2. a \in Seq(Blocks \cap Parts) /\ BlockEntries(a) = TextEntry(msg.text)
        /\ b \in Seq(Parts) /\ BlockEntries(b) = CallEntries(msg.calls)
    BY <1>0, <1>2, TextEntries, UsePartsFacts
  <2>. HIDE DEF a, b
  <2>3. a \in Seq(Parts) /\ a \in Seq(Blocks \cup Parts) /\ b \in Seq(Blocks \cup Parts)
    BY <2>2, SeqMonotonic
  <2>4. a \o b \in Seq(Parts) /\ BlockEntries(a \o b) = BlockEntries(a) \o BlockEntries(b)
    BY <2>2, <2>3, ConcatProperties, BlockEntriesConcat
  <2>. QED BY <1>0, <1>2, <2>1, <2>2, <2>4, MessageEntriesType
<1>3. CASE msg.role # "tool" /\ ~HasCalls(msg)
  <2>. DEFINE a == IF msg.form = "string" THEN TextBlocks(msg.text) ELSE <<>>
  <2>1. a \in Seq(Parts)
        /\ BlockEntries(a) = IF msg.form = "string" THEN TextEntry(msg.text) ELSE <<>>
    <3>1. TextBlocks(msg.text) \in Seq(Blocks \cap Parts)
          /\ BlockEntries(TextBlocks(msg.text)) = TextEntry(msg.text)
      BY <1>0, <1>3, TextEntries
    <3>2. TextBlocks(msg.text) \in Seq(Parts)
      BY <3>1, SeqMonotonic
    <3>3. BlockEntries(<<>>) = <<>> /\ <<>> \in Seq(Parts)
      BY DEF BlockEntries
    <3>. QED BY <3>1, <3>2, <3>3
  <2>2. MessageParts(msg) = a
    <3>1. MessageParts(msg) = a \o <<>>
      BY <1>3 DEF MessageParts
    <3>. HIDE DEF a
    <3>. QED BY <2>1, <3>1
  <2>3. msg.role # "system" => MessageEntries(msg) = TextEntry(msg.text)
    BY <1>0, <1>3, MessageEntriesType
  <2>. HIDE DEF a
  <2>. QED BY <2>1, <2>2, <2>3
<1>. QED BY <1>1, <1>2, <1>3

SaysStrings(list) == FoldLeft(SayString, <<>>, list)

LEMMA SaysStringsIsFold == ASSUME NEW list  PROVE SaysStrings(list) = StringSpeech!Fold(<<>>, list)
BY DEF SaysStrings, FoldLeft, MapThenFoldSet, Max,
       StringSpeech!Fold, StringSpeech!Top

LEMMA SaysStringsFacts ==
  /\ SaysStrings(<<>>) = <<>>
  /\ \A list \in Seq(Messages), msg \in Messages :
       SaysStrings(Append(list, msg)) = SayString(SaysStrings(list), msg)
BY SaysStringsIsFold, StringSpeech!FoldOfNone, StringSpeech!FoldOfOneMore

LEMMA PromptMessagesIsFold == ASSUME NEW list  PROVE PromptMessages(list) = Prompt!Fold(<<>>, list)
BY DEF PromptMessages, FoldLeft, MapThenFoldSet, Max,
       Prompt!Fold, Prompt!Top

\* A message is recorded as its parts, or not at all.
LEMMA AppendPromptFacts ==
  ASSUME NEW t \in Seq(RecordTurns), NEW msg \in Messages
  PROVE  /\ AppendPrompt(t, msg) \in Seq(RecordTurns)
         /\ Says(AppendPrompt(t, msg)) = SayString(Says(t), msg)
         /\ \E more \in Seq(RecordTurns) : AppendPrompt(t, msg) = t \o more
<1>0. t \in Seq(Turns \cup RecordTurns) /\ Says(t) \in Seq(Entries)
  BY SeqMonotonic, SaysFacts
<1>1. CASE msg.role = "system" \/ MessageParts(msg) = <<>>
  <2>1. AppendPrompt(t, msg) = t
    BY <1>1 DEF AppendPrompt
  <2>2. msg.form = "string" => MessageEntries(msg) = <<>>
    <3>1. BlockEntries(<<>>) = <<>>
      BY DEF BlockEntries
    <3>. QED BY <1>1, <3>1, MessagePartsFacts, MessageEntriesType
  <2>3. Says(t) \o <<>> = Says(t) /\ t \o <<>> = t /\ <<>> \in Seq(RecordTurns)
    BY <1>0
  <2>. QED BY <2>1, <2>2, <2>3 DEF SayString
<1>2. CASE ~(msg.role = "system" \/ MessageParts(msg) = <<>>)
  <2>. DEFINE turn == Turn(msg.role, MessageParts(msg))
  <2>1. AppendPrompt(t, msg) = Append(t, turn)
    BY <1>2 DEF AppendPrompt
  <2>2. /\ turn \in RecordTurns
        /\ TurnEntries(turn) = IF msg.form = "string" THEN MessageEntries(msg) ELSE <<>>
    <3>1. msg.role \in {"user", "assistant", "tool"} /\ MessageParts(msg) \in Seq(Parts)
      BY <1>2, MessageKinds, MessagePartsFacts
    <3>2. turn \in RecordTurns /\ TurnEntries(turn) = BlockEntries(MessageParts(msg))
      BY <3>1, TurnFacts
    <3>. QED BY <1>2, <3>2, MessagePartsFacts
  <2>. HIDE DEF turn
  <2>3. Says(Append(t, turn)) = Says(t) \o TurnEntries(turn)
    BY <1>0, <2>2, SaysFacts
  <2>4. Says(t) \o <<>> = Says(t)
    BY <1>0
  <2>5. Append(t, turn) = t \o <<turn>> /\ <<turn>> \in Seq(RecordTurns)
        /\ Append(t, turn) \in Seq(RecordTurns)
    BY <2>2
  <2>. QED BY <2>1, <2>2, <2>3, <2>4, <2>5 DEF SayString
<1>. QED BY <1>1, <1>2

LEMMA PromptMessagesFacts ==
  /\ PromptMessages(<<>>) = <<>>
  /\ \A list \in Seq(Messages) : PromptMessages(list) \in Seq(RecordTurns)
  /\ \A list \in Seq(Messages), msg \in Messages :
       PromptMessages(Append(list, msg)) = AppendPrompt(PromptMessages(list), msg)
<1>1. PromptMessages(<<>>) = <<>>
  BY PromptMessagesIsFold, Prompt!FoldOfNone
<1>2. ASSUME NEW list \in Seq(Messages)  PROVE PromptMessages(list) \in Seq(RecordTurns)
  <2>. DEFINE e == <<>>  T == Seq(RecordTurns)
  <2>1. e \in T
    BY EmptySeq
  <2>2. \A t \in T, x \in Messages : AppendPrompt(t, x) \in T
    BY AppendPromptFacts
  <2>. HIDE DEF e, T
  <2>3. Prompt!Fold(e, list) \in T
    BY <2>1, <2>2, Prompt!FoldKeeps
  <2>. QED BY <2>3, PromptMessagesIsFold DEF e, T
<1>3. ASSUME NEW list \in Seq(Messages), NEW msg \in Messages
      PROVE  PromptMessages(Append(list, msg)) = AppendPrompt(PromptMessages(list), msg)
  BY PromptMessagesIsFold, Prompt!FoldOfOneMore
<1>. QED BY <1>1, <1>2, <1>3

\* The record says what the script's messages say, as far as they are strings.
LEMMA RecordSays ==
  ASSUME NEW list \in Seq(Messages)  PROVE Says(PromptMessages(list)) = SaysStrings(list)
<1>. DEFINE G == {l \in Seq(Messages) : Says(PromptMessages(l)) = SaysStrings(l)}
<1>1. <<>> \in G
  BY PromptMessagesFacts, SaysFacts, SaysStringsFacts, EmptySeq
<1>2. ASSUME NEW l \in Seq(Messages), NEW msg \in Messages, l \in G  PROVE Append(l, msg) \in G
  <2>1. Says(PromptMessages(Append(l, msg))) = SayString(Says(PromptMessages(l)), msg)
    BY PromptMessagesFacts, AppendPromptFacts
  <2>2. SaysStrings(Append(l, msg)) = SayString(SaysStrings(l), msg)
    BY SaysStringsFacts
  <2>3. Append(l, msg) \in Seq(Messages)
    OBVIOUS
  <2>. QED BY <1>2, <2>1, <2>2, <2>3
<1>. HIDE DEF G
<1>3. list \in G
  BY <1>1, <1>2, Translation!ListInduction
<1>. QED BY <1>3 DEF G

\* No turn is a system message's.
LEMMA NoSystemTurn == ASSUME NEW turn \in Turns  PROVE turn.role # "system"
BY DEF Turns, UserMessages, PlainMessages

\* What ProjectionsAgree says, of any list a script can write.
THEOREM EveryListAgrees ==
  ASSUME NEW list \in Seq(Messages)
  PROVE LET anthropic == TranslateMessages(list)
            responses == ResponsesInput(list)
        IN /\ FoldLeft(SayTurn, <<>>, anthropic.out) = Spoken(list)
           /\ \A k \in DOMAIN anthropic.out : anthropic.out[k].role # "system"
           /\ anthropic.system = StringSystem(list) \o PartsSystem(list)
           /\ ToSet(anthropic.system) = ToSet(SystemPrompt(list))
           /\ Len(anthropic.system) = Len(SystemPrompt(list))
           /\ PartsSystem(list) = <<>> => anthropic.system = SystemPrompt(list)
           /\ FoldLeft(SayItem, <<>>, responses.input) = SpokenOrKept(list)
           /\ responses.instructions = StringSystem(list)
           /\ FoldLeft(SayTurn, <<>>, PromptMessages(list)) = FoldLeft(SayString, <<>>, list)
<1>. DEFINE a == TranslateMessages(list)  t == Translated(list)
<1>1. FoldLeft(SayTurn, <<>>, a.out) = Spoken(list)
  BY AnthropicSays DEF Says
<1>2. FoldLeft(SayItem, <<>>, ResponsesInput(list).input) = SpokenOrKept(list)
  BY ResponsesSays DEF SaysItems
<1>3. FoldLeft(SayTurn, <<>>, PromptMessages(list)) = FoldLeft(SayString, <<>>, list)
  BY RecordSays DEF Says, SaysStrings
<1>4. a.out \in Seq(Turns) /\ a.system = t.parts \o t.blocks
  BY RequestOf
<1>5. \A k \in DOMAIN a.out : a.out[k].role # "system"
  <2>1. \A k \in DOMAIN a.out : a.out[k] \in Turns
    BY <1>4
  <2>. QED BY <2>1, NoSystemTurn
<1>6. t.parts \in Seq(Nat) /\ t.blocks \in Seq(Nat) /\ SystemPrompt(list) \in Seq(Nat)
  <2>1. t \in TStates
    BY TranslatedFacts
  <2>. QED BY <2>1, SystemPromptFacts DEF TStates
<1>7. /\ ToSet(t.parts) \cup ToSet(t.blocks) = ToSet(SystemPrompt(list))
      /\ Len(t.parts) + Len(t.blocks) = Len(SystemPrompt(list))
      /\ t.parts = StringSystem(list) /\ t.blocks = PartsSystem(list)
      /\ t.blocks = <<>> => t.parts = SystemPrompt(list)
  BY SystemKeptByAll DEF SystemKept
<1>. HIDE DEF a, t
<1>8. ToSet(a.system) = ToSet(SystemPrompt(list))
  <2>. DEFINE S == Nat
  <2>1. t.parts \in Seq(S) /\ t.blocks \in Seq(S)
    BY <1>6
  <2>. HIDE DEF S
  <2>2. \A b \in Seq(S) : ToSet(t.parts \o b) = ToSet(t.parts) \cup ToSet(b)
    BY <2>1, ElementsOf
  <2>3. ToSet(t.parts \o t.blocks) = ToSet(t.parts) \cup ToSet(t.blocks)
    BY <2>1, <2>2
  <2>. QED BY <1>4, <1>7, <2>3
<1>9. Len(a.system) = Len(SystemPrompt(list))
  <2>1. Len(t.parts \o t.blocks) = Len(t.parts) + Len(t.blocks)
    BY <1>6
  <2>. QED BY <1>4, <1>7, <2>1
<1>10. PartsSystem(list) = <<>> => a.system = SystemPrompt(list)
  <2>1. t.parts \o <<>> = t.parts
    BY <1>6
  <2>. QED BY <1>4, <1>7, <2>1
<1>11. ResponsesInput(list).instructions = StringSystem(list)
  BY ResponsesSays
<1>12. a.system = StringSystem(list) \o PartsSystem(list)
  BY <1>4, <1>7
<1>. QED BY <1>1, <1>2, <1>3, <1>5, <1>8, <1>9, <1>10, <1>11, <1>12 DEF a

-----------------------------------------------------------------------------
(* The order of the calls.                                                 *)

Rank(S, i) == Cardinality({j \in S : j <= i})

\* Of n indexes, the k-th smallest exists, for each k up to n; a smaller one comes first.
LEMMA KthFacts ==
  ASSUME NEW S \in SUBSET Nat, IsFiniteSet(S), NEW n \in Nat, Cardinality(S) = n
  PROVE  /\ \A k \in 1..n : Kth(S, k) \in S /\ Rank(S, Kth(S, k)) = k
         /\ \A k, l \in 1..n : k < l => Kth(S, k) < Kth(S, l)
         /\ \A i \in S : \E k \in 1..n : Kth(S, k) = i
<1>1. ASSUME NEW i \in S  PROVE Rank(S, i) \in 1..n
  <2>. DEFINE T == {j \in S : j <= i}
  <2>1. T \in SUBSET S /\ i \in T
    OBVIOUS
  <2>. HIDE DEF T
  <2>2. IsFiniteSet(T) /\ Cardinality(T) <= n
    BY <2>1, FS_Subset
  <2>3. Cardinality(T) \in Nat /\ Cardinality(T) # 0
    BY <2>1, <2>2, FS_CardinalityType, FS_EmptySet
  <2>. QED BY <2>2, <2>3 DEF Rank, T
<1>2. ASSUME NEW i \in S, NEW j \in S, i < j  PROVE Rank(S, i) < Rank(S, j)
  <2>. DEFINE T == {m \in S : m <= i}  U == {m \in S : m <= j}
  <2>1. T \in SUBSET U /\ j \in U /\ j \notin T /\ U \in SUBSET S
    <3>1. i \in Nat /\ j \in Nat /\ \A m \in S : m \in Nat
      OBVIOUS
    <3>2. \A m \in S : m <= i => m <= j
      BY <1>2, <3>1
    <3>3. j <= j /\ ~(j <= i)
      BY <1>2, <3>1
    <3>. QED BY <3>2, <3>3
  <2>. HIDE DEF T, U
  <2>2. IsFiniteSet(U) /\ IsFiniteSet(T) /\ Cardinality(T) <= Cardinality(U)
        /\ Cardinality(T) # Cardinality(U)
    BY <2>1, FS_Subset
  <2>3. Cardinality(T) \in Nat /\ Cardinality(U) \in Nat
    BY <2>2, FS_CardinalityType
  <2>. QED BY <2>2, <2>3 DEF Rank, T, U
<1>3. \A i, j \in S : Rank(S, i) = Rank(S, j) => i = j
  <2>1. ASSUME NEW i \in S, NEW j \in S, i # j  PROVE Rank(S, i) # Rank(S, j)
    <3>1. i < j \/ j < i
      BY <2>1
    <3>2. Rank(S, i) \in Nat /\ Rank(S, j) \in Nat
      BY <1>1
    <3>3. i < j => Rank(S, i) < Rank(S, j)
      BY <1>2
    <3>4. j < i => Rank(S, j) < Rank(S, i)
      BY <1>2
    <3>. QED BY <3>1, <3>2, <3>3, <3>4
  <2>. QED BY <2>1
<1>. DEFINE f == [i \in S |-> Rank(S, i)]  K == 1..n
<1>4. f \in Injection(S, K)
  BY <1>1, <1>3 DEF Injection, IsInjective
<1>5. IsFiniteSet(K) /\ Cardinality(K) = n
  BY FS_Interval
<1>. HIDE DEF f, K
<1>6. f \in Surjection(S, K)
  BY <1>4, <1>5, FS_Injection
<1>7. \A k \in K : \E i \in S : f[i] = k
  BY <1>6 DEF Surjection
<1>8. ASSUME NEW k \in 1..n  PROVE Kth(S, k) \in S /\ Rank(S, Kth(S, k)) = k
  <2>1. \E i \in S : Rank(S, i) = k
    BY <1>7 DEF f, K
  <2>. QED BY <2>1 DEF Kth, Rank
<1>9. ASSUME NEW k \in 1..n, NEW l \in 1..n, k < l  PROVE Kth(S, k) < Kth(S, l)
  <2>1. /\ Kth(S, k) \in S /\ Rank(S, Kth(S, k)) = k
        /\ Kth(S, l) \in S /\ Rank(S, Kth(S, l)) = l
    BY <1>8
  <2>. DEFINE a == Kth(S, k)  b == Kth(S, l)
  <2>. HIDE DEF a, b
  <2>2. a \in S /\ b \in S /\ Rank(S, a) = k /\ Rank(S, b) = l
    BY <2>1 DEF a, b
  <2>3. ~(b < a) /\ a # b
    BY <1>2, <1>9, <2>2
  <2>4. a \in Nat /\ b \in Nat
    BY <2>2
  <2>. QED BY <2>3, <2>4 DEF a, b
<1>10. ASSUME NEW i \in S  PROVE \E k \in 1..n : Kth(S, k) = i
  <2>1. Rank(S, i) \in 1..n
    BY <1>1
  <2>2. Kth(S, Rank(S, i)) \in S /\ Rank(S, Kth(S, Rank(S, i))) = Rank(S, i)
    BY <1>8, <2>1
  <2>3. Kth(S, Rank(S, i)) = i
    BY <1>3, <2>2
  <2>. QED BY <2>1, <2>3
<1>. QED BY <1>8, <1>9, <1>10

\* Of the indexes from 1 to n, the k-th is k.
LEMMA KthOfAll == ASSUME NEW n \in Nat, NEW k \in 1..n  PROVE Kth(1..n, k) = k
<1>. DEFINE S == 1..n
<1>1. S \in SUBSET Nat /\ IsFiniteSet(S) /\ Cardinality(S) = n
  BY FS_Interval
<1>2. \A i \in S : Rank(S, i) = i
  <2>1. ASSUME NEW i \in S  PROVE Rank(S, i) = i
    <3>1. {j \in S : j <= i} = 1..i
      OBVIOUS
    <3>2. Cardinality(1..i) = i
      BY FS_Interval
    <3>. QED BY <3>1, <3>2 DEF Rank
  <2>. QED BY <2>1
<1>. HIDE DEF S
<1>3. Kth(S, k) \in S /\ Rank(S, Kth(S, k)) = k
  BY <1>1, KthFacts
<1>. QED BY <1>2, <1>3 DEF S

-----------------------------------------------------------------------------
(* The reply.                                                              *)

UsageReports ==
  {u \in [input: Nat, read: Nat, write: Nat, early: Nat, output: Nat, thinking: Nat] :
     u.early <= u.output /\ u.thinking <= u.output}
UsageCounts == [prompt: Nat, completion: Nat, cached: Nat, write: Nat, thinking: Nat]
CallsMade == [id: Nat, of: Nat]
Tellings == [opened: BOOLEAN, parts: Nat, done: 0..2]

\* A reply its wire can carry; its calls are numbered in their order.
ReplyFits ==
  /\ reply \in [text: Nat, calls: Seq(CallsMade), usage: UsageReports]
  /\ \A i, j \in Indexes : i < j => reply.calls[i].id < reply.calls[j].id
  /\ wire = "providerwire-v4" => reply.calls = <<>>
  /\ wire \in {"openai", "responses"} => reply.usage.read <= reply.usage.input

\* The buffer entry b of the call rc, of which the provider has told t: fragments of
\* this call only, without a gap unless the wire can drop them, and all of them once
\* the authoritative text has come.
Assembled(w, rc, b, t) ==
  LET whole == WholeArguments(rc.id, rc.of) IN
  /\ b \in ToolCalls /\ b.id = rc.id
  /\ \A p \in DOMAIN b.args : b.args[p].id = rc.id /\ b.args[p].of = rc.of
  /\ w # "responses" => b.args = SubSeq(whole, 1, t.parts)
  /\ t.done > 0 => t.parts = rc.of /\ b.args = whole
  /\ rc.of = 0 => b.args = <<>>

\* The order lists the indexes of the buffer, each once.
Listed(order, indexes) ==
  /\ order \in Seq(indexes)
  /\ \A k, l \in DOMAIN order : order[k] = order[l] => k = l
  /\ \A i \in indexes : \E k \in DOMAIN order : order[k] = i

BufferInv ==
  /\ told \in [Indexes -> Tellings]
  /\ \A i \in Indexes : /\ told[i].parts <= reply.calls[i].of
                        /\ ~told[i].opened => told[i].done = 0
  /\ DOMAIN toolBuf = {i \in Indexes : told[i].opened}
  /\ \A i \in DOMAIN toolBuf : Assembled(wire, reply.calls[i], toolBuf[i], told[i])
  /\ Listed(toolOrder, DOMAIN toolBuf)

\* The counts read so far.
UsageSoFar ==
  IF usageTold = 0 THEN NoUsage
  ELSE CASE wire = "anthropic" ->
              LET start == AnthropicStart(NoUsage, reply.usage)
              IN IF usageTold = 1 THEN start ELSE AnthropicDelta(start, reply.usage)
         [] wire = "openai" -> OpenAIUsage(NoUsage, reply.usage)
         [] OTHER -> V4Usage(NoUsage, reply.usage)

\* What a call of a reply that ended is: one of the calls the model made, with the
\* arguments it meant or, where not all of them came, none.
ReadFrom(call, rc) ==
  /\ call.id = rc.id
  /\ DecodeToolArguments(call.args) \in
       {DecodeToolArguments(WholeArguments(rc.id, rc.of)), EmptyObject}

CallsRead ==
  /\ result.calls \in Seq(ToolCalls)
  /\ \A k \in DOMAIN result.calls : \E i \in Indexes : ReadFrom(result.calls[k], reply.calls[i])
  /\ \A k, l \in DOMAIN result.calls : k < l => result.calls[k].id < result.calls[l].id
  /\ status = "cut" => \A k \in DOMAIN result.calls : \E i \in Indexes :
       /\ result.calls[k].id = reply.calls[i].id
       /\ \A p \in DOMAIN result.calls[k].args :
            result.calls[k].args[p].id = reply.calls[i].id

AllRead ==
  /\ result.text = reply.text /\ result.usage = ParseUnary(wire).usage
  /\ Len(result.calls) = Len(reply.calls)
  /\ \A i \in Indexes :
       /\ result.calls[i].id = reply.calls[i].id
       /\ DecodeToolArguments(result.calls[i].args) = DecodeToolArguments(Whole(i))

ReplyInv ==
  /\ status \in {"none", "reading", "complete", "cut"}
  /\ ReplyFits /\ BufferInv
  /\ usageTold \in 0..2 /\ (usageTold = 1 => wire = "anthropic")
  /\ wire = "responses" => usageTold = 0
  /\ result \in [text: Nat, calls: Seq(ToolCalls), usage: UsageCounts]
  /\ result.text \in {0, reply.text}
  /\ status # "complete" => result.usage = UsageSoFar
  /\ status = "none" => NoReplyYet
  /\ status = "reading" /\ usageTold = 2 => ContentTold(wire)
  /\ status \in {"complete", "cut"} => CallsRead
  /\ status = "complete" => AllRead

-----------------------------------------------------------------------------

\* A sequence cut short, and what it becomes with its next element.
LEMMA CutShort ==
  ASSUME NEW S, NEW s \in Seq(S)
  PROVE  /\ SubSeq(s, 1, 0) = <<>> /\ SubSeq(s, 1, Len(s)) = s
         /\ \A n \in 0..Len(s) : /\ SubSeq(s, 1, n) \in Seq(S) /\ Len(SubSeq(s, 1, n)) = n
                                 /\ \A k \in 1..n : SubSeq(s, 1, n)[k] = s[k]
         /\ \A n \in 0..(Len(s) - 1) : Append(SubSeq(s, 1, n), s[n + 1]) = SubSeq(s, 1, n + 1)
<1>. Len(s) \in Nat
  OBVIOUS
<1>1. ASSUME NEW n \in 0..Len(s)
      PROVE  /\ SubSeq(s, 1, n) \in Seq(S) /\ Len(SubSeq(s, 1, n)) = n
             /\ \A k \in 1..n : SubSeq(s, 1, n)[k] = s[k]
  <2>1. SubSeq(s, 1, n) = [k \in 1..n |-> s[k]]
    <3>1. SubSeq(s, 1, n) = [k \in 1..((n - 1) + 1) |-> s[(k + 1) - 1]]
      OBVIOUS
    <3>2. (n - 1) + 1 = n /\ \A k \in 1..n : (k + 1) - 1 = k
      OBVIOUS
    <3>. QED BY <3>1, <3>2
  <2>2. \A k \in 1..n : s[k] \in S
    OBVIOUS
  <2>. QED BY <2>1, <2>2
<1>2. SubSeq(s, 1, 0) = <<>>
  <2>. DEFINE e == SubSeq(s, 1, 0)
  <2>1. e \in Seq(S) /\ Len(e) = 0
    BY <1>1
  <2>. HIDE DEF e
  <2>2. e = <<>>
    BY <2>1
  <2>. QED BY <2>2 DEF e
<1>3. SubSeq(s, 1, Len(s)) = s
  <2>1. Len(s) \in 0..Len(s)
    OBVIOUS
  <2>. QED BY <1>1, <2>1, SeqEqual
<1>4. ASSUME NEW n \in 0..(Len(s) - 1)
      PROVE  Append(SubSeq(s, 1, n), s[n + 1]) = SubSeq(s, 1, n + 1)
  <2>. DEFINE a == SubSeq(s, 1, n)  b == SubSeq(s, 1, n + 1)  m == n + 1
  <2>1. n \in 0..Len(s) /\ n + 1 \in 0..Len(s) /\ s[n + 1] \in S /\ n \in Nat
    OBVIOUS
  <2>2. a \in Seq(S) /\ Len(a) = n /\ (\A k \in 1..n : a[k] = s[k])
    BY <1>1, <2>1
  <2>3. b \in Seq(S) /\ Len(b) = n + 1 /\ (\A k \in 1..(n + 1) : b[k] = s[k])
    BY <1>1, <2>1
  <2>. HIDE DEF a, b
  <2>4. /\ Append(a, s[n + 1]) \in Seq(S) /\ Len(Append(a, s[n + 1])) = n + 1
        /\ (\A k \in 1..n : Append(a, s[n + 1])[k] = a[k])
        /\ Append(a, s[n + 1])[n + 1] = s[n + 1]
    BY <2>1, <2>2
  <2>5. \A k \in 1..(n + 1) : Append(a, s[n + 1])[k] = b[k]
    <3>1. \A k \in 1..(n + 1) : k \in 1..n \/ k = n + 1
      BY <2>1
    <3>2. \A k \in 1..n : k \in 1..(n + 1)
      BY <2>1
    <3>. QED BY <2>2, <2>3, <2>4, <3>1, <3>2
  <2>6. Append(a, s[n + 1]) = b
    BY <2>3, <2>4, <2>5, SeqEqual
  <2>. QED BY <2>6 DEF a, b
<1>. QED BY <1>1, <1>2, <1>3, <1>4

LEMMA WholeFacts ==
  ASSUME NEW id \in Nat, NEW of \in Nat
  PROVE  /\ WholeArguments(id, of) \in Seq(Fragments) /\ Len(WholeArguments(id, of)) = of
         /\ \A p \in 1..of : /\ WholeArguments(id, of)[p] = Fragment(id, p, of)
                             /\ WholeArguments(id, of)[p].id = id
                             /\ WholeArguments(id, of)[p].of = of
         /\ of = 0 <=> WholeArguments(id, of) = <<>>
<1>1. \A p \in 1..of : Fragment(id, p, of) \in Fragments /\ Fragment(id, p, of).id = id
                       /\ Fragment(id, p, of).of = of
  BY DEF Fragment, Fragments
<1>2. WholeArguments(id, of) = [p \in 1..of |-> Fragment(id, p, of)]
  BY DEF WholeArguments
<1>3. /\ WholeArguments(id, of) \in Seq(Fragments) /\ Len(WholeArguments(id, of)) = of
      /\ \A p \in 1..of : WholeArguments(id, of)[p] = Fragment(id, p, of)
  BY <1>1, <1>2
<1>4. of = 0 <=> WholeArguments(id, of) = <<>>
  BY <1>3
<1>. QED BY <1>1, <1>3, <1>4

\* Whatever fragments of a call came: its arguments, or the empty object.
LEMMA FragmentsDecode ==
  ASSUME NEW id \in Nat, NEW of \in Nat, NEW args \in Seq(Fragments),
         \A p \in DOMAIN args : args[p].id = id /\ args[p].of = of
  PROVE  DecodeToolArguments(args) \in {DecodeToolArguments(WholeArguments(id, of)), EmptyObject}
<1>1. CASE Parses(args)
  <2>1. args # <<>> /\ args = WholeArguments(args[1].id, args[1].of)
    BY <1>1 DEF Parses
  <2>2. 1 \in DOMAIN args
    BY <2>1
  <2>3. args = WholeArguments(id, of)
    BY <2>1, <2>2
  <2>. QED BY <2>3
<1>2. CASE ~Parses(args)
  BY <1>2 DEF DecodeToolArguments
<1>. QED BY <1>1, <1>2

-----------------------------------------------------------------------------
(* What each event of a stream keeps.                                      *)

LEMMA ReplyTypes ==
  ASSUME ReplyFits
  PROVE  /\ reply.text \in Nat /\ reply.calls \in Seq(CallsMade) /\ reply.usage \in UsageReports
         /\ Indexes = 1..Len(reply.calls) /\ Len(reply.calls) \in Nat
         /\ \A i \in Indexes :
              /\ reply.calls[i] \in CallsMade
              /\ reply.calls[i].id \in Nat /\ reply.calls[i].of \in Nat
              /\ Whole(i) = WholeArguments(reply.calls[i].id, reply.calls[i].of)
<1>1. reply.text \in Nat /\ reply.calls \in Seq(CallsMade) /\ reply.usage \in UsageReports
  BY DEF ReplyFits
<1>2. Indexes = 1..Len(reply.calls) /\ Len(reply.calls) \in Nat
  BY <1>1 DEF Indexes
<1>3. \A i \in Indexes : reply.calls[i] \in CallsMade
  BY <1>1, <1>2
<1>. QED BY <1>1, <1>2, <1>3 DEF CallsMade, Whole

LEMMA WholeCall ==
  ASSUME ReplyFits, NEW i \in Indexes
  PROVE  /\ Whole(i) \in Seq(Fragments) /\ Len(Whole(i)) = reply.calls[i].of
         /\ \A p \in 1..reply.calls[i].of : /\ Whole(i)[p].id = reply.calls[i].id
                                            /\ Whole(i)[p].of = reply.calls[i].of
         /\ reply.calls[i].of = 0 <=> Whole(i) = <<>>
<1>. DEFINE id == reply.calls[i].id  of == reply.calls[i].of
<1>1. id \in Nat /\ of \in Nat /\ Whole(i) = WholeArguments(id, of)
  BY ReplyTypes
<1>. HIDE DEF id, of
<1>2. /\ WholeArguments(id, of) \in Seq(Fragments) /\ Len(WholeArguments(id, of)) = of
      /\ \A p \in 1..of : WholeArguments(id, of)[p].id = id /\ WholeArguments(id, of)[p].of = of
      /\ of = 0 <=> WholeArguments(id, of) = <<>>
  BY <1>1, WholeFacts
<1>. QED BY <1>1, <1>2 DEF id, of

\* Of an entry that is written, the order remembers the first time.
LEMMA SetToolOrder ==
  ASSUME NEW S, NEW order, Listed(order, S), NEW i, NEW later,
         later = IF i \in S THEN order ELSE Append(order, i)
  PROVE  Listed(later, S \cup {i})
<1>0. /\ order \in Seq(S) /\ \A k, l \in DOMAIN order : order[k] = order[l] => k = l
      /\ \A j \in S : \E k \in DOMAIN order : order[k] = j
  BY DEF Listed
<1>1. CASE i \in S
  <2>1. S \cup {i} = S /\ later = order
    BY <1>1
  <2>. QED BY <2>1
<1>2. CASE i \notin S
  <2>. DEFINE n == Len(order)  U == S \cup {i}
  <2>1. order \in Seq(U) /\ i \in U /\ n \in Nat /\ DOMAIN order = 1..n
    BY <1>0, SeqMonotonic
  <2>. HIDE DEF U
  <2>2. /\ later \in Seq(U) /\ DOMAIN later = 1..(n + 1) /\ later[n + 1] = i
        /\ \A k \in 1..n : later[k] = order[k]
    BY <1>2, <2>1
  <2>. HIDE DEF n
  <2>3. \A k \in 1..(n + 1) : k \in 1..n \/ k = n + 1
    BY <2>1
  <2>4. \A k \in 1..n : order[k] \in S /\ k \in 1..(n + 1)
    BY <1>0, <2>1
  <2>5. n + 1 \in 1..(n + 1)
    BY <2>1
  <2>6. \A k, l \in DOMAIN later : later[k] = later[l] => k = l
    BY <1>0, <1>2, <2>1, <2>2, <2>3, <2>4
  <2>7. \A j \in U : \E k \in DOMAIN later : later[k] = j
    BY <1>0, <2>1, <2>2, <2>4, <2>5 DEF U
  <2>. QED BY <2>2, <2>6, <2>7 DEF Listed, U
<1>. QED BY <1>1, <1>2

\* An event that writes the entry of one call.
LEMMA BufferStep ==
  ASSUME ReplyFits, BufferInv, NEW i \in Indexes, NEW call, NEW t \in Tellings,
         UNCHANGED <<reply, wire>>, told' = [told EXCEPT ![i] = t], SetTool(i, call),
         t.opened, t.parts <= reply.calls[i].of, Assembled(wire, reply.calls[i], call, t)
  PROVE  BufferInv'
<1>0. /\ told \in [Indexes -> Tellings]
      /\ \A j \in Indexes : /\ told[j].parts <= reply.calls[j].of
                            /\ ~told[j].opened => told[j].done = 0
      /\ DOMAIN toolBuf = {j \in Indexes : told[j].opened}
      /\ \A j \in DOMAIN toolBuf : Assembled(wire, reply.calls[j], toolBuf[j], told[j])
      /\ Listed(toolOrder, DOMAIN toolBuf)
  BY DEF BufferInv
<1>1. Indexes' = Indexes /\ reply' = reply /\ wire' = wire
  BY DEF Indexes
<1>2. told' \in [Indexes -> Tellings] /\ \A j \in Indexes : told'[j] = IF j = i THEN t ELSE told[j]
  BY <1>0
<1>3. /\ DOMAIN toolBuf' = DOMAIN toolBuf \cup {i}
      /\ \A j \in DOMAIN toolBuf \cup {i} : toolBuf'[j] = IF j = i THEN call ELSE toolBuf[j]
      /\ toolOrder' = IF i \in DOMAIN toolBuf THEN toolOrder ELSE Append(toolOrder, i)
  BY DEF SetTool
<1>4. DOMAIN toolBuf' = {j \in Indexes : told'[j].opened}
  BY <1>0, <1>2, <1>3
<1>5. \A j \in DOMAIN toolBuf' : Assembled(wire, reply.calls[j], toolBuf'[j], told'[j])
  BY <1>0, <1>2, <1>3, <1>4
<1>6. Listed(toolOrder', DOMAIN toolBuf')
  <2>. DEFINE D == DOMAIN toolBuf  o == toolOrder  p == toolOrder'
  <2>1. Listed(o, D) /\ p = IF i \in D THEN o ELSE Append(o, i)
    BY <1>0, <1>3
  <2>. HIDE DEF D, o, p
  <2>2. Listed(p, D \cup {i})
    BY <2>1, SetToolOrder
  <2>. QED BY <1>3, <2>2 DEF D, p
<1>7. \A j \in Indexes : /\ told'[j].parts <= reply.calls[j].of
                         /\ ~told'[j].opened => told'[j].done = 0
  BY <1>0, <1>2
<1>. QED BY <1>1, <1>2, <1>4, <1>5, <1>6, <1>7 DEF BufferInv

LEMMA ToolCallType ==
  ASSUME NEW call \in ToolCalls
  PROVE  /\ call.id \in Nat /\ call.args \in Seq(Fragments)
         /\ \A args \in Seq(Fragments) :
              /\ [call EXCEPT !.args = args] \in ToolCalls
              /\ [call EXCEPT !.args = args].args = args
              /\ [call EXCEPT !.args = args].id = call.id
<1>. DEFINE T == Seq(Fragments)
<1>. HIDE DEF T
<1>1. call \in [id: Nat, args: T]
  BY DEF ToolCalls, T
<1>2. ASSUME NEW args \in T
      PROVE  /\ [call EXCEPT !.args = args] \in [id: Nat, args: T]
             /\ [call EXCEPT !.args = args].args = args
             /\ [call EXCEPT !.args = args].id = call.id
  BY <1>1
<1>. QED BY <1>1, <1>2 DEF T, ToolCalls

LEMMA OpenCallFrame ==
  ASSUME NEW w, NEW i, OpenCall(w, i)  PROVE UNCHANGED <<reply, usageTold, result, status>>
BY DEF OpenCall

LEMMA OpenCallKeeps ==
  ASSUME ReplyFits, BufferInv, NEW i \in Indexes, OpenCall(wire, i), UNCHANGED wire
  PROVE  BufferInv'
<1>. DEFINE rc == reply.calls[i]  W == Whole(i)
<1>0. told \in [Indexes -> Tellings] /\ told[i] \in Tellings /\ told[i].done = 0
      /\ DOMAIN toolBuf = {j \in Indexes : told[j].opened} /\ i \notin DOMAIN toolBuf
  BY DEF BufferInv, OpenCall
<1>1. rc.id \in Nat /\ rc.of \in Nat /\ W = WholeArguments(rc.id, rc.of)
  BY ReplyTypes
<1>2. W \in Seq(Fragments) /\ Len(W) = rc.of
      /\ \A p \in 1..rc.of : W[p].id = rc.id /\ W[p].of = rc.of
  BY WholeCall
<1>3. PICK parts \in {0} \cup (IF wire = "openai" /\ rc.of > 0 THEN {1} ELSE {}) :
        /\ told' = [told EXCEPT ![i].opened = TRUE, ![i].parts = parts]
        /\ SetTool(i, [ToolAt(i) EXCEPT !.id = rc.id, !.args = @ \o SubSeq(W, 1, parts)])
  BY DEF OpenCall
<1>. DEFINE t == [[told[i] EXCEPT !.opened = TRUE] EXCEPT !.parts = parts]
            call == [ToolAt(i) EXCEPT !.id = rc.id, !.args = @ \o SubSeq(W, 1, parts)]
<1>. HIDE DEF rc, W
<1>4. parts \in Nat /\ parts <= rc.of /\ parts \in 0..Len(W)
  BY <1>1, <1>2, <1>3
<1>5. SubSeq(W, 1, parts) \in Seq(Fragments) /\ Len(SubSeq(W, 1, parts)) = parts
      /\ \A p \in 1..parts : SubSeq(W, 1, parts)[p] = W[p]
  BY <1>2, <1>4, CutShort
<1>6. /\ t \in Tellings /\ t.opened /\ t.parts = parts /\ t.done = 0
      /\ told' = [told EXCEPT ![i] = t]
  <2>1. [told EXCEPT ![i].opened = TRUE, ![i].parts = parts] = [told EXCEPT ![i] = t]
    BY <1>0
  <2>2. t \in Tellings /\ t.opened /\ t.parts = parts /\ t.done = 0
    BY <1>0, <1>4 DEF Tellings
  <2>. QED BY <1>3, <2>1, <2>2
<1>7. SetTool(i, call)
  BY <1>3
<1>8. Assembled(wire, rc, call, t)
  <2>1. call \in ToolCalls /\ call.id = rc.id /\ call.args = SubSeq(W, 1, parts)
    <3>. DEFINE b == ToolAt(i)  a == SubSeq(W, 1, parts)
    <3>1. b = NoToolCall
      BY <1>0 DEF ToolAt
    <3>2. b \in ToolCalls /\ b.args = <<>>
      BY <3>1, EmptySeq DEF NoToolCall, ToolCalls
    <3>3. b.args \o a = a
      BY <1>5, <3>2
    <3>. HIDE DEF a, b
    <3>4. a \in Seq(Fragments)
      BY <1>5 DEF a
    <3>5. call = [b EXCEPT !.id = rc.id, !.args = b.args \o a]
      BY DEF a, b
    <3>. DEFINE n == rc.id
    <3>6. n \in Nat /\ call = [b EXCEPT !.id = n, !.args = a]
      BY <1>1, <3>3, <3>5
    <3>. HIDE DEF n, call
    <3>7. call \in ToolCalls /\ call.id = n /\ call.args = a
      <4>. DEFINE T == Seq(Fragments)
      <4>. HIDE DEF T
      <4>1. b \in [id: Nat, args: T] /\ a \in T
        BY <3>2, <3>4 DEF ToolCalls, T
      <4>. QED BY <3>6, <4>1 DEF T, ToolCalls
    <3>. QED BY <3>7 DEF a, n
  <2>2. \A p \in DOMAIN call.args : call.args[p].id = rc.id /\ call.args[p].of = rc.of
    <3>. HIDE DEF call
    <3>1. DOMAIN call.args = 1..parts
      BY <1>5, <2>1
    <3>2. \A p \in 1..parts : p \in 1..rc.of
      BY <1>1, <1>4
    <3>. QED BY <1>2, <1>5, <2>1, <3>1, <3>2
  <2>3. rc.of = 0 => call.args = <<>>
    <3>1. rc.of = 0 => parts = 0
      BY <1>4
    <3>2. SubSeq(W, 1, 0) = <<>>
      BY <1>2, CutShort
    <3>. QED BY <2>1, <3>1, <3>2
  <2>4. t.done = 0 /\ t.parts = parts
    BY <1>6
  <2>. HIDE DEF call, t
  <2>5. ~(t.done > 0)
    BY <2>4
  <2>. QED BY <1>1, <2>1, <2>2, <2>3, <2>4, <2>5 DEF Assembled
<1>9. t.opened /\ t.parts <= rc.of
  BY <1>4, <1>6
<1>10. UNCHANGED <<reply, wire>>
  <2>1. UNCHANGED <<reply, usageTold, result, status>>
    BY OpenCallFrame
  <2>. QED BY <2>1
<1>. HIDE DEF t, call
<1>. QED BY <1>6, <1>7, <1>8, <1>9, <1>10, BufferStep DEF rc

LEMMA ArgumentsDeltaKeeps ==
  ASSUME ReplyFits, BufferInv, NEW i \in Indexes, ArgumentsDelta(wire, i), UNCHANGED wire
  PROVE  BufferInv'
<1>. DEFINE rc == reply.calls[i]  W == Whole(i)  n == told[i].parts  b == toolBuf[i]
<1>0. told \in [Indexes -> Tellings] /\ told[i] \in Tellings /\ told[i].done = 0 /\ told[i].opened
      /\ i \in DOMAIN toolBuf /\ Assembled(wire, rc, b, told[i])
      /\ n \in Nat /\ n < rc.of /\ told[i].parts = n
  BY DEF BufferInv, ArgumentsDelta, Tellings
<1>1. rc.id \in Nat /\ rc.of \in Nat /\ W = WholeArguments(rc.id, rc.of)
  BY ReplyTypes
<1>2. W \in Seq(Fragments) /\ Len(W) = rc.of
      /\ \A p \in 1..rc.of : W[p].id = rc.id /\ W[p].of = rc.of
  BY WholeCall
<1>. DEFINE t == [told[i] EXCEPT !.parts = n + 1]
            args == Append(b.args, W[n + 1])
            call == [b EXCEPT !.args = args]
<1>3. /\ t \in Tellings /\ t.opened /\ t.done = 0 /\ t.parts = n + 1
      /\ told' = [told EXCEPT ![i] = t] /\ told'[i].parts = n + 1
  <2>1. told' = [told EXCEPT ![i] = t]
    BY DEF ArgumentsDelta
  <2>2. t \in Tellings /\ t.opened /\ t.done = 0 /\ t.parts = n + 1
    <3>. HIDE DEF n
    <3>. QED BY <1>0 DEF Tellings
  <2>. HIDE DEF t
  <2>3. told'[i] = t
    BY <1>0, <2>1
  <2>. QED BY <2>1, <2>2, <2>3
<1>4. SetTool(i, call)
  <2>1. ToolAt(i) = b
    BY <1>0 DEF ToolAt
  <2>2. SetTool(i, [ToolAt(i) EXCEPT !.args = Append(@, W[told'[i].parts])])
    BY DEF ArgumentsDelta, TargetOf
  <2>. QED BY <1>3, <2>1, <2>2
<1>5. UNCHANGED <<reply, wire>>
  BY DEF ArgumentsDelta
<1>. HIDE DEF rc, W, n
<1>6. b \in ToolCalls /\ b.id = rc.id /\ b.args \in Seq(Fragments)
      /\ (\A p \in DOMAIN b.args : b.args[p].id = rc.id /\ b.args[p].of = rc.of)
      /\ (wire # "responses" => b.args = SubSeq(W, 1, n))
  <2>1. b \in ToolCalls
    BY <1>0 DEF Assembled
  <2>. QED BY <1>0, <1>1, <2>1, ToolCallType DEF Assembled
<1>7. n + 1 \in 1..rc.of /\ W[n + 1] \in Fragments /\ W[n + 1].id = rc.id /\ W[n + 1].of = rc.of
      /\ n \in 0..(Len(W) - 1)
  <2>1. n + 1 \in 1..rc.of /\ n \in 0..(Len(W) - 1)
    BY <1>0, <1>1, <1>2
  <2>2. W[n + 1] \in Fragments
    BY <1>2, <2>1
  <2>. QED BY <1>2, <2>1, <2>2
<1>8. args \in Seq(Fragments)
      /\ \A p \in DOMAIN args : args[p].id = rc.id /\ args[p].of = rc.of
  <2>. DEFINE a == b.args  x == W[n + 1]  m == Len(b.args)
  <2>1. a \in Seq(Fragments) /\ x \in Fragments /\ DOMAIN a = 1..m /\ m \in Nat
    BY <1>6, <1>7
  <2>2. /\ Append(a, x) \in Seq(Fragments) /\ DOMAIN Append(a, x) = 1..(m + 1)
        /\ Append(a, x)[m + 1] = x /\ \A p \in 1..m : Append(a, x)[p] = a[p]
    BY <2>1
  <2>3. \A p \in 1..(m + 1) : p \in 1..m \/ p = m + 1
    BY <2>1
  <2>. HIDE DEF m
  <2>. QED BY <1>6, <1>7, <2>1, <2>2, <2>3
<1>9. wire # "responses" => args = SubSeq(W, 1, n + 1)
  <2>1. Append(SubSeq(W, 1, n), W[n + 1]) = SubSeq(W, 1, n + 1)
    BY <1>2, <1>7, CutShort
  <2>. QED BY <1>6, <2>1
<1>10. rc.of # 0
  BY <1>0, <1>1
<1>11. call \in ToolCalls /\ call.id = rc.id /\ call.args = args
  <2>. HIDE DEF args, b
  <2>. QED BY <1>6, <1>8, ToolCallType
<1>12. t.opened /\ t.done = 0 /\ t.parts = n + 1 /\ n + 1 <= rc.of
  BY <1>0, <1>1, <1>3
<1>. HIDE DEF args, call, t, b
<1>13. Assembled(wire, rc, call, t)
  <2>1. ~(t.done > 0)
    BY <1>12
  <2>. QED BY <1>1, <1>8, <1>9, <1>10, <1>11, <1>12, <2>1 DEF Assembled
<1>14. t.parts <= rc.of
  BY <1>12
<1>. QED BY <1>3, <1>4, <1>5, <1>12, <1>13, <1>14, BufferStep DEF rc

LEMMA CallDoneKeeps ==
  ASSUME ReplyFits, BufferInv, NEW i \in Indexes, CallDone(wire, i), UNCHANGED wire
  PROVE  BufferInv'
<1>. DEFINE rc == reply.calls[i]  W == Whole(i)  b == toolBuf[i]
<1>0. told \in [Indexes -> Tellings] /\ told[i] \in Tellings /\ told[i].opened
      /\ i \in DOMAIN toolBuf /\ Assembled(wire, rc, b, told[i])
      /\ told[i].parts = rc.of /\ told[i].done \in 0..2 /\ told[i].done < 2 /\ wire = "responses"
  BY DEF BufferInv, CallDone, Tellings
<1>1. rc.id \in Nat /\ rc.of \in Nat /\ W = WholeArguments(rc.id, rc.of)
  BY ReplyTypes
<1>2. W \in Seq(Fragments) /\ Len(W) = rc.of
      /\ (\A p \in 1..rc.of : W[p].id = rc.id /\ W[p].of = rc.of)
      /\ (rc.of = 0 <=> W = <<>>)
  BY WholeCall
<1>. DEFINE d == told[i].done + 1
            t == [told[i] EXCEPT !.done = d]
            call == [b EXCEPT !.id = rc.id, !.args = W]
<1>3. t \in Tellings /\ t.opened /\ t.parts = rc.of /\ told' = [told EXCEPT ![i] = t]
  <2>1. told' = [told EXCEPT ![i] = t]
    BY DEF CallDone
  <2>2. d \in 0..2
    BY <1>0
  <2>3. t \in Tellings /\ t.opened /\ t.parts = rc.of
    <3>. HIDE DEF d, rc
    <3>. QED BY <1>0, <2>2 DEF Tellings
  <2>. QED BY <2>1, <2>3
<1>4. SetTool(i, call)
  <2>1. ToolAt(i) = b
    BY <1>0 DEF ToolAt
  <2>2. b \in ToolCalls /\ (rc.of = 0 => b.args = <<>>)
    BY <1>0 DEF Assembled
  <2>3. DoneArguments(i) = W
    BY <1>2, <2>1, <2>2 DEF DoneArguments
  <2>4. SetTool(i, [ToolAt(i) EXCEPT !.id = rc.id, !.args = DoneArguments(i)])
    BY DEF CallDone
  <2>. QED BY <2>1, <2>3, <2>4
<1>5. UNCHANGED <<reply, wire>>
  BY DEF CallDone
<1>. HIDE DEF rc, W
<1>6. call \in ToolCalls /\ call.id = rc.id /\ call.args = W
  <2>1. b \in ToolCalls
    BY <1>0 DEF Assembled
  <2>. DEFINE n == rc.id
  <2>2. n \in Nat /\ W \in Seq(Fragments) /\ call = [b EXCEPT !.id = n, !.args = W]
    BY <1>1, <1>2
  <2>. HIDE DEF b, n, call
  <2>3. call \in ToolCalls /\ call.id = n /\ call.args = W
    <3>. DEFINE T == Seq(Fragments)
    <3>. HIDE DEF T
    <3>1. b \in [id: Nat, args: T] /\ W \in T
      BY <2>1, <2>2 DEF ToolCalls, T
    <3>. QED BY <2>2, <3>1 DEF T, ToolCalls
  <2>. QED BY <2>3 DEF n
<1>7. t.opened /\ t.parts = rc.of /\ t.parts <= rc.of
  BY <1>1, <1>3
<1>. HIDE DEF call, t, b
<1>8. \A p \in DOMAIN W : W[p].id = rc.id /\ W[p].of = rc.of
  BY <1>2
<1>9. Assembled(wire, rc, call, t)
  BY <1>0, <1>1, <1>2, <1>6, <1>7, <1>8 DEF Assembled
<1>. QED BY <1>3, <1>4, <1>5, <1>7, <1>9, BufferStep DEF rc

LEMMA DroppedDeltaKeeps ==
  ASSUME ReplyFits, BufferInv, NEW i \in Indexes, DroppedDelta(wire, i), UNCHANGED wire
  PROVE  BufferInv'
<1>0. /\ told \in [Indexes -> Tellings] /\ wire = "responses"
      /\ told[i].opened /\ told[i].done = 0 /\ told[i].parts < reply.calls[i].of
      /\ told' = [told EXCEPT ![i] = [told[i] EXCEPT !.parts = told[i].parts + 1]]
      /\ UNCHANGED <<reply, toolBuf, toolOrder>>
  BY DEF BufferInv, DroppedDelta
<1>1. reply.calls[i].of \in Nat
  BY ReplyTypes
<1>2. told[i].parts \in Nat /\ told[i] \in Tellings
  BY <1>0 DEF Tellings
<1>. DEFINE t == [told[i] EXCEPT !.parts = told[i].parts + 1]
<1>3. t \in Tellings /\ t.opened /\ t.done = 0 /\ t.parts <= reply.calls[i].of
  BY <1>0, <1>1, <1>2 DEF Tellings
<1>. HIDE DEF t
<1>4. told' = [told EXCEPT ![i] = t]
  BY <1>0 DEF t
<1>5. told' \in [Indexes -> Tellings] /\ \A j \in Indexes : told'[j] = IF j = i THEN t ELSE told[j]
  BY <1>0, <1>3, <1>4
<1>6. Indexes' = Indexes
  BY <1>0 DEF Indexes
<1>7. /\ \A j \in Indexes : /\ told[j].parts <= reply.calls[j].of
                            /\ ~told[j].opened => told[j].done = 0
      /\ DOMAIN toolBuf = {j \in Indexes : told[j].opened}
      /\ \A j \in DOMAIN toolBuf : Assembled(wire, reply.calls[j], toolBuf[j], told[j])
      /\ Listed(toolOrder, DOMAIN toolBuf)
  BY DEF BufferInv
<1>8. \A j \in Indexes : /\ told'[j].parts <= reply.calls[j].of
                         /\ ~told'[j].opened => told'[j].done = 0
  BY <1>3, <1>5, <1>7
<1>9. DOMAIN toolBuf = {j \in Indexes : told'[j].opened}
  BY <1>0, <1>3, <1>5, <1>7
<1>10. \A j \in DOMAIN toolBuf : Assembled(wire, reply.calls[j], toolBuf[j], told'[j])
  <2>1. ASSUME NEW j \in DOMAIN toolBuf
        PROVE  Assembled(wire, reply.calls[j], toolBuf[j], told'[j])
    <3>1. Assembled(wire, reply.calls[j], toolBuf[j], told[j]) /\ j \in Indexes
      BY <1>7
    <3>2. CASE j = i
      <4>1. ~(t.done > 0) /\ told'[j] = t
        BY <1>3, <1>5, <3>1, <3>2
      <4>. QED BY <1>0, <3>1, <4>1 DEF Assembled
    <3>3. CASE j # i
      BY <1>5, <3>1, <3>3
    <3>. QED BY <3>2, <3>3
  <2>. QED BY <2>1
<1>. QED BY <1>0, <1>5, <1>6, <1>7, <1>8, <1>9, <1>10 DEF BufferInv

-----------------------------------------------------------------------------
(* The token counts.                                                       *)

\* Two reports with the same counts are the same.
LEMMA SameCounts ==
  ASSUME NEW a \in UsageCounts, NEW b \in UsageCounts,
         a.prompt = b.prompt, a.completion = b.completion, a.cached = b.cached,
         a.write = b.write, a.thinking = b.thinking
  PROVE  a = b
BY DEF UsageCounts

Counts(o, prompt, completion, cached, write, thinking) ==
  /\ o \in UsageCounts /\ o.prompt = prompt /\ o.completion = completion
  /\ o.cached = cached /\ o.write = write /\ o.thinking = thinking

LEMMA NoUsageCounts == Counts(NoUsage, 0, 0, 0, 0, 0)
BY DEF NoUsage, UsageCounts, Counts

LEMMA OpenAICounts ==
  ASSUME NEW u \in UsageReports, NEW v, Counts(v, 0, 0, 0, 0, 0)
  PROVE  Counts(OpenAIUsage(v, u), u.input, u.output, u.read, 0, u.thinking)
BY DEF OpenAIUsage, UsageCounts, UsageReports, Counts

LEMMA V4Counts ==
  ASSUME NEW u \in UsageReports, NEW v, Counts(v, 0, 0, 0, 0, 0)
  PROVE  Counts(V4Usage(v, u), u.input, u.output, 0, 0, 0)
BY DEF V4Usage, UsageCounts, UsageReports, Counts

LEMMA AnthropicCounts ==
  ASSUME NEW u \in UsageReports, NEW v, Counts(v, 0, 0, 0, 0, 0)
  PROVE  LET start == AnthropicStart(v, u) IN
         /\ Counts(start, u.input + u.read + u.write, u.early, u.read, u.write, 0)
         /\ Counts(AnthropicDelta(start, u), u.input + u.read + u.write, u.output, u.read, u.write, u.thinking)
<1>. DEFINE p == u.input + u.read + u.write
            early == IF u.early > v.completion THEN u.early ELSE v.completion
            start == AnthropicStart(v, u)
<1>1. /\ p \in Nat /\ u.early \in Nat /\ u.output \in Nat /\ u.thinking \in Nat /\ u.read \in Nat
      /\ u.write \in Nat /\ u.early <= u.output /\ u.thinking <= u.output
  BY DEF UsageReports
<1>2. early = u.early
  BY <1>1 DEF Counts
<1>3. start = [v EXCEPT !.prompt = p, !.cached = u.read, !.write = u.write, !.completion = early]
  BY DEF AnthropicStart, PromptInclusive
<1>. HIDE DEF p, early, start
<1>4. Counts(start, p, u.early, u.read, u.write, 0)
  BY <1>1, <1>2, <1>3 DEF Counts, UsageCounts
<1>5. Counts(AnthropicDelta(start, u), p, u.output, u.read, u.write, u.thinking)
  <2>1. CASE u.output = 0
    <3>1. u.early = u.output /\ u.thinking = 0 /\ AnthropicDelta(start, u) = start
      BY <1>1, <2>1 DEF AnthropicDelta
    <3>. QED BY <1>4, <3>1 DEF Counts
  <2>2. CASE u.output # 0
    BY <1>1, <1>4, <2>2 DEF AnthropicDelta, Counts, UsageCounts
  <2>. QED BY <2>1, <2>2
<1>. QED BY <1>4, <1>5 DEF p, start

\* A count and the total it is part of.
WithinTotals(o) == o.cached + o.write <= o.prompt /\ o.thinking <= o.completion

\* No count read so far, or from a document, exceeds the total it is part of, and the
\* two agree once a stream has told its usage.
LEMMA UsageFacts ==
  ASSUME ReplyFits, wire \in AllWires, usageTold \in 0..2, usageTold = 1 => wire = "anthropic"
  PROVE  /\ UsageSoFar \in UsageCounts /\ WithinTotals(UsageSoFar)
         /\ ParseUnary(wire).usage \in UsageCounts /\ WithinTotals(ParseUnary(wire).usage)
         /\ wire # "responses" /\ usageTold = 2 => UsageSoFar = ParseUnary(wire).usage
         /\ wire = "responses" => OpenAIUsage(NoUsage, reply.usage) = ParseUnary(wire).usage
<1>. DEFINE u == reply.usage
<1>1. u \in UsageReports
  BY ReplyTypes
<1>. HIDE DEF u
<1>2. /\ u.input \in Nat /\ u.read \in Nat /\ u.write \in Nat /\ u.early \in Nat /\ u.output \in Nat
      /\ u.thinking \in Nat /\ u.early <= u.output /\ u.thinking <= u.output
  BY <1>1 DEF UsageReports
<1>3. wire \in {"openai", "responses"} => u.read <= u.input
  BY DEF ReplyFits, u
<1>4. wire \in {"openai", "anthropic", "responses", "providerwire-v4"}
  BY DEF AllWires
<1>5. Counts(OpenAIUsage(NoUsage, u), u.input, u.output, u.read, 0, u.thinking)
  BY <1>1, NoUsageCounts, OpenAICounts
<1>6. Counts(V4Usage(NoUsage, u), u.input, u.output, 0, 0, 0)
  BY <1>1, NoUsageCounts, V4Counts
<1>7. /\ Counts(AnthropicStart(NoUsage, u), u.input + u.read + u.write, u.early, u.read, u.write, 0)
      /\ Counts(AnthropicDelta(AnthropicStart(NoUsage, u), u), u.input + u.read + u.write, u.output,
                u.read, u.write, u.thinking)
  BY <1>1, NoUsageCounts, AnthropicCounts
<1>8. Counts(NoUsage, 0, 0, 0, 0, 0)
  BY NoUsageCounts
<1>9. ASSUME NEW o, NEW p \in Nat, NEW c \in Nat, NEW r \in Nat, NEW w \in Nat, NEW t \in Nat,
             Counts(o, p, c, r, w, t), r + w <= p, t <= c
      PROVE  o \in UsageCounts /\ WithinTotals(o)
  BY <1>9 DEF Counts, WithinTotals
<1>10. NoUsage \in UsageCounts /\ WithinTotals(NoUsage)
  BY <1>8 DEF Counts, WithinTotals
<1>11. CASE wire = "anthropic"
  <2>1. ParseUnary(wire).usage = [prompt |-> u.input + u.read + u.write, completion |-> u.output,
                                  cached |-> u.read, write |-> u.write, thinking |-> u.thinking]
    BY <1>11 DEF ParseUnary, ParseAnthropicMessage, UnaryReply, u
  <2>2. Counts(ParseUnary(wire).usage, u.input + u.read + u.write, u.output, u.read, u.write, u.thinking)
    BY <1>2, <2>1 DEF Counts, UsageCounts
  <2>. DEFINE start == AnthropicStart(NoUsage, u)  end == AnthropicDelta(AnthropicStart(NoUsage, u), u)
  <2>3. UsageSoFar = IF usageTold = 0 THEN NoUsage ELSE IF usageTold = 1 THEN start ELSE end
    BY <1>11 DEF UsageSoFar, u
  <2>4. ParseUnary(wire).usage \in UsageCounts /\ WithinTotals(ParseUnary(wire).usage)
    BY <1>2, <2>2 DEF Counts, WithinTotals
  <2>5. end = ParseUnary(wire).usage
    <3>. DEFINE a == end  b == ParseUnary(wire).usage
    <3>1. /\ a \in UsageCounts /\ b \in UsageCounts /\ a.prompt = b.prompt /\ a.completion = b.completion
          /\ a.cached = b.cached /\ a.write = b.write /\ a.thinking = b.thinking
      BY <1>7, <2>2 DEF Counts
    <3>. HIDE DEF a, b
    <3>2. a = b
      BY <3>1, SameCounts
    <3>. QED BY <3>2 DEF a, b
  <2>6. start \in UsageCounts /\ WithinTotals(start)
    BY <1>2, <1>7 DEF Counts, WithinTotals
  <2>. HIDE DEF start, end
  <2>. QED BY <1>10, <1>11, <2>3, <2>4, <2>5, <2>6
<1>12. CASE wire = "openai"
  <2>1. ParseUnary(wire).usage = OpenAIUsage(NoUsage, u)
    BY <1>12 DEF ParseUnary, ParseChatCompletion, UnaryReply, u
  <2>2. UsageSoFar = IF usageTold = 0 THEN NoUsage ELSE OpenAIUsage(NoUsage, u)
    BY <1>12 DEF UsageSoFar, u
  <2>. DEFINE o == OpenAIUsage(NoUsage, u)
  <2>3. o \in UsageCounts /\ WithinTotals(o)
    BY <1>2, <1>3, <1>5, <1>12 DEF Counts, WithinTotals
  <2>. HIDE DEF o
  <2>. QED BY <1>10, <1>12, <2>1, <2>2, <2>3 DEF o
<1>13. CASE wire = "responses"
  <2>1. ParseUnary(wire).usage = OpenAIUsage(NoUsage, u)
    BY <1>13 DEF ParseUnary, ParseResponsesObject, UnaryReply, u
  <2>2. UsageSoFar = IF usageTold = 0 THEN NoUsage ELSE V4Usage(NoUsage, u)
    BY <1>13 DEF UsageSoFar, u
  <2>. DEFINE o == OpenAIUsage(NoUsage, u)  v == V4Usage(NoUsage, u)
  <2>3. o \in UsageCounts /\ WithinTotals(o)
    BY <1>2, <1>3, <1>5, <1>13 DEF Counts, WithinTotals
  <2>4. v \in UsageCounts /\ WithinTotals(v)
    BY <1>2, <1>6 DEF Counts, WithinTotals
  <2>. HIDE DEF o, v
  <2>. QED BY <1>10, <1>13, <2>1, <2>2, <2>3, <2>4 DEF o, v, u
<1>14. CASE wire = "providerwire-v4"
  <2>1. ParseUnary(wire).usage = V4Usage(NoUsage, u)
    BY <1>14 DEF ParseUnary, ParseProviderWireV4Unary, UnaryReply, u
  <2>2. UsageSoFar = IF usageTold = 0 THEN NoUsage ELSE V4Usage(NoUsage, u)
    BY <1>14 DEF UsageSoFar, u
  <2>. DEFINE v == V4Usage(NoUsage, u)
  <2>4. v \in UsageCounts /\ WithinTotals(v)
    BY <1>2, <1>6 DEF Counts, WithinTotals
  <2>. HIDE DEF v
  <2>. QED BY <1>10, <1>14, <2>1, <2>2, <2>4 DEF v
<1>. QED BY <1>4, <1>11, <1>12, <1>13, <1>14

-----------------------------------------------------------------------------
(* The calls, in the order of their indexes.                               *)

LEMMA BufferEntry ==
  ASSUME ReplyFits, BufferInv, NEW i \in DOMAIN toolBuf
  PROVE  /\ i \in Indexes /\ toolBuf[i] \in ToolCalls /\ ReadFrom(toolBuf[i], reply.calls[i])
         /\ toolBuf[i].id = reply.calls[i].id
         /\ \A p \in DOMAIN toolBuf[i].args : toolBuf[i].args[p].id = reply.calls[i].id
         /\ told[i].parts = reply.calls[i].of /\ (wire = "responses" => told[i].done = 2) =>
              toolBuf[i].args = Whole(i)
<1>. DEFINE rc == reply.calls[i]  b == toolBuf[i]  t == told[i]
<1>1. i \in Indexes /\ Assembled(wire, rc, b, t)
  BY DEF BufferInv
<1>2. rc.id \in Nat /\ rc.of \in Nat /\ Whole(i) = WholeArguments(rc.id, rc.of)
  BY <1>1, ReplyTypes
<1>3. Whole(i) \in Seq(Fragments) /\ Len(Whole(i)) = rc.of
  BY <1>1, WholeCall
<1>. HIDE DEF rc, b, t
<1>4. /\ b \in ToolCalls /\ b.id = rc.id
      /\ \A p \in DOMAIN b.args : b.args[p].id = rc.id /\ b.args[p].of = rc.of
      /\ wire # "responses" => b.args = SubSeq(Whole(i), 1, t.parts)
      /\ t.done > 0 => b.args = Whole(i)
  BY <1>1, <1>2 DEF Assembled
<1>5. b.args \in Seq(Fragments)
  BY <1>4, ToolCallType
<1>6. ReadFrom(b, rc)
  <2>. DEFINE id == rc.id  of == rc.of  args == b.args
  <2>1. id \in Nat /\ of \in Nat /\ args \in Seq(Fragments)
        /\ \A p \in DOMAIN args : args[p].id = id /\ args[p].of = of
    BY <1>2, <1>4, <1>5
  <2>. HIDE DEF id, of, args
  <2>2. DecodeToolArguments(args) \in {DecodeToolArguments(WholeArguments(id, of)), EmptyObject}
    BY <2>1, FragmentsDecode
  <2>. QED BY <1>4, <2>2 DEF ReadFrom, id, of, args
<1>7. ASSUME t.parts = rc.of, wire = "responses" => t.done = 2  PROVE b.args = Whole(i)
  <2>1. CASE wire = "responses"
    BY <1>4, <1>7, <2>1
  <2>2. CASE wire # "responses"
    <3>1. SubSeq(Whole(i), 1, rc.of) = Whole(i)
      BY <1>3, CutShort
    <3>. QED BY <1>4, <1>7, <2>2, <3>1
  <2>. QED BY <2>1, <2>2
<1>. QED BY <1>1, <1>4, <1>6, <1>7 DEF rc, b, t

LEMMA OrderedFacts ==
  ASSUME ReplyFits, BufferInv
  PROVE  /\ OrderedToolCalls \in Seq(ToolCalls)
         /\ \A k \in DOMAIN OrderedToolCalls : \E i \in DOMAIN toolBuf : OrderedToolCalls[k] = toolBuf[i]
         /\ \A k, l \in DOMAIN OrderedToolCalls : k < l => OrderedToolCalls[k].id < OrderedToolCalls[l].id
         /\ (\A i \in Indexes : told[i].opened) =>
              /\ Len(OrderedToolCalls) = Len(reply.calls)
              /\ \A i \in Indexes : OrderedToolCalls[i] = toolBuf[i]
<1>. DEFINE D == DOMAIN toolBuf  n == Len(toolOrder)  m == Len(reply.calls)
<1>1. /\ toolOrder \in Seq(D) /\ \A k, l \in 1..n : toolOrder[k] = toolOrder[l] => k = l
      /\ (\A i \in D : \E k \in 1..n : toolOrder[k] = i) /\ n \in Nat /\ DOMAIN toolOrder = 1..n
      /\ \A k \in 1..n : toolOrder[k] \in D
  <2>1. Listed(toolOrder, D)
    BY DEF BufferInv
  <2>. QED BY <2>1 DEF Listed
<1>2. D \subseteq Indexes /\ D = {i \in Indexes : told[i].opened} /\ Indexes = 1..m /\ m \in Nat
  BY ReplyTypes DEF BufferInv
<1>3. {toolOrder[k] : k \in DOMAIN toolOrder} = D
  <2>. HIDE DEF D, n
  <2>. DEFINE R == {toolOrder[k] : k \in 1..n}
  <2>1. \A i \in D : i \in R
    BY <1>1
  <2>2. \A i \in R : i \in D
    BY <1>1
  <2>3. R = D
    <3>. HIDE DEF R
    <3>. QED BY <2>1, <2>2
  <2>. QED BY <1>1, <2>3
<1>4. OrderedToolCalls = [k \in 1..n |-> toolBuf[Kth(D, k)]]
  BY <1>1, <1>3 DEF OrderedToolCalls
<1>5. \A i \in D : toolBuf[i] \in ToolCalls /\ toolBuf[i].id = reply.calls[i].id
  BY BufferEntry
<1>. HIDE DEF D, n, m
<1>6. D \in SUBSET Nat /\ IsFiniteSet(D) /\ Cardinality(D) = n
  <2>. DEFINE K == 1..n
  <2>1. IsFiniteSet(K) /\ Cardinality(K) = n
    BY <1>1, FS_Interval
  <2>2. toolOrder \in [K -> D]
    BY <1>1
  <2>3. toolOrder \in Bijection(K, D)
    BY <1>1, <2>2 DEF Bijection, Injection, IsInjective, Surjection
  <2>4. ExistsBijection(K, D)
    BY <2>3 DEF ExistsBijection
  <2>. HIDE DEF K
  <2>5. IsFiniteSet(D) /\ Cardinality(D) = Cardinality(K)
    BY <2>1, <2>4, FS_Bijection
  <2>. QED BY <1>2, <2>1, <2>5
<1>7. /\ \A k \in 1..n : Kth(D, k) \in D
      /\ \A k, l \in 1..n : k < l => Kth(D, k) < Kth(D, l)
  BY <1>1, <1>6, KthFacts
<1>8. OrderedToolCalls \in Seq(ToolCalls) /\ DOMAIN OrderedToolCalls = 1..n /\ Len(OrderedToolCalls) = n
      /\ \A k \in 1..n : OrderedToolCalls[k] = toolBuf[Kth(D, k)]
  BY <1>1, <1>4, <1>5, <1>7
<1>9. ASSUME NEW k \in 1..n, NEW l \in 1..n, k < l
      PROVE  OrderedToolCalls[k].id < OrderedToolCalls[l].id
  <2>. DEFINE a == Kth(D, k)  b == Kth(D, l)
  <2>1. a \in D /\ b \in D /\ a < b
    BY <1>7, <1>9
  <2>. HIDE DEF a, b
  <2>2. toolBuf[a].id = reply.calls[a].id /\ toolBuf[b].id = reply.calls[b].id
        /\ reply.calls[a].id < reply.calls[b].id
    BY <1>2, <1>5, <2>1 DEF ReplyFits
  <2>. QED BY <1>8, <2>2 DEF a, b
<1>10. ASSUME \A i \in Indexes : told[i].opened
       PROVE  n = m /\ \A i \in 1..m : OrderedToolCalls[i] = toolBuf[i]
  <2>1. D = 1..m
    BY <1>2, <1>10
  <2>2. n = m
    <3>1. Cardinality(1..m) = m
      BY <1>2, FS_Interval
    <3>. QED BY <1>6, <2>1, <3>1
  <2>3. \A i \in 1..m : Kth(1..m, i) = i
    BY <1>2, KthOfAll
  <2>. QED BY <1>8, <2>1, <2>2, <2>3
<1>. QED BY <1>2, <1>7, <1>8, <1>9, <1>10 DEF D, m

-----------------------------------------------------------------------------
(* What each step of a reader keeps.                                       *)

LEMMA SameReply ==
  ASSUME UNCHANGED <<reply, wire>>
  PROVE  /\ ReplyFits => ReplyFits'
         /\ Indexes' = Indexes /\ \A i : Whole(i)' = Whole(i)
         /\ UNCHANGED usageTold => UsageSoFar' = UsageSoFar
         /\ ParseUnary(wire)' = ParseUnary(wire)
<1>1. Indexes' = Indexes /\ \A i : Whole(i)' = Whole(i)
  BY DEF Indexes, Whole
<1>2. ReplyFits => ReplyFits'
  BY <1>1 DEF ReplyFits
<1>3. UNCHANGED usageTold => UsageSoFar' = UsageSoFar
  BY DEF UsageSoFar
<1>4. UnaryCalls' = UnaryCalls
  BY <1>1 DEF UnaryCalls
<1>5. ParseUnary(wire)' = ParseUnary(wire)
  BY <1>1, <1>4 DEF ParseUnary, ParseChatCompletion, ParseAnthropicMessage, ParseResponsesObject,
                    ParseProviderWireV4Unary, UnaryReply
<1>. QED BY <1>1, <1>2, <1>3, <1>5

LEMMA SameBuffer ==
  ASSUME BufferInv, UNCHANGED <<reply, wire, told, toolBuf, toolOrder>>  PROVE BufferInv'
BY DEF BufferInv, Indexes

\* The content of a reply comes before its usage.
LEMMA ContentKeeps ==
  ASSUME ReplyInv, status = "reading", UNCHANGED <<reply, wire, usageTold, status, result>>,
         BufferInv', usageTold # 2
  PROVE  ReplyInv'
BY SameReply DEF ReplyInv

ResultTypes == [text: Nat, calls: Seq(ToolCalls), usage: UsageCounts]

LEMMA ResultType ==
  ASSUME NEW r \in ResultTypes
  PROVE  /\ r.text \in Nat /\ r.calls \in Seq(ToolCalls) /\ r.usage \in UsageCounts
         /\ \A u \in UsageCounts : LET v == [r EXCEPT !.usage = u] IN
              v \in ResultTypes /\ v.usage = u /\ v.text = r.text /\ v.calls = r.calls
         /\ \A n \in Nat : LET v == [r EXCEPT !.text = n] IN
              v \in ResultTypes /\ v.text = n /\ v.usage = r.usage /\ v.calls = r.calls
         /\ \A c \in Seq(ToolCalls) : LET v == [r EXCEPT !.calls = c] IN
              v \in ResultTypes /\ v.calls = c /\ v.usage = r.usage /\ v.text = r.text
<1>. DEFINE T == Seq(ToolCalls)
<1>. HIDE DEF T
<1>1. r \in [text: Nat, calls: T, usage: UsageCounts]
  BY DEF ResultTypes, T
<1>2. ASSUME NEW u \in UsageCounts
      PROVE  LET v == [r EXCEPT !.usage = u] IN
              v \in [text: Nat, calls: T, usage: UsageCounts] /\ v.usage = u /\ v.text = r.text /\ v.calls = r.calls
  BY <1>1
<1>3. ASSUME NEW n \in Nat
      PROVE  LET v == [r EXCEPT !.text = n] IN
              v \in [text: Nat, calls: T, usage: UsageCounts] /\ v.text = n /\ v.usage = r.usage /\ v.calls = r.calls
  BY <1>1
<1>4. ASSUME NEW c \in T
      PROVE  LET v == [r EXCEPT !.calls = c] IN
              v \in [text: Nat, calls: T, usage: UsageCounts] /\ v.calls = c /\ v.usage = r.usage /\ v.text = r.text
  BY <1>1
<1>. QED BY <1>1, <1>2, <1>3, <1>4 DEF T, ResultTypes

LEMMA MessageStartKeeps ==
  ASSUME ReplyInv, wire \in AllWires, MessageStart(wire), UNCHANGED wire
  PROVE  ReplyInv'
<1>. USE DEF ResultTypes
<1>1. /\ status = "reading" /\ status' = status /\ usageTold = 0 /\ usageTold' = 1 /\ wire = "anthropic"
      /\ result' = [result EXCEPT !.usage = AnthropicStart(result.usage, reply.usage)]
      /\ UNCHANGED <<reply, told, toolBuf, toolOrder>>
  BY DEF MessageStart, Telling
<1>2. /\ result \in ResultTypes /\ result.usage = NoUsage /\ ReplyFits /\ BufferInv
      /\ result.text \in {0, reply.text}
  BY <1>1 DEF ReplyInv, UsageSoFar
<1>3. UsageSoFar' = AnthropicStart(NoUsage, reply.usage)
  BY <1>1 DEF UsageSoFar
<1>4. ReplyFits' /\ BufferInv'
  BY <1>1, <1>2, SameReply, SameBuffer
<1>5. UsageSoFar' \in UsageCounts
  <2>1. Counts(NoUsage, 0, 0, 0, 0, 0) /\ reply.usage \in UsageReports
    BY <1>2, NoUsageCounts, ReplyTypes
  <2>2. AnthropicStart(NoUsage, reply.usage) \in UsageCounts
    BY <2>1, AnthropicCounts DEF Counts
  <2>. QED BY <1>3, <2>2
<1>. DEFINE u == UsageSoFar'
<1>6. result' = [result EXCEPT !.usage = u]
  BY <1>1, <1>2, <1>3
<1>7. u \in UsageCounts
  BY <1>5
<1>. HIDE DEF u
<1>8. result' \in ResultTypes /\ result'.usage = u /\ result'.text = result.text
  BY <1>2, <1>6, <1>7, ResultType
<1>. QED BY <1>1, <1>2, <1>4, <1>8 DEF ReplyInv, u

LEMMA TextDeltaKeeps ==
  ASSUME ReplyInv, wire \in AllWires, TextDelta(wire), UNCHANGED wire
  PROVE  ReplyInv'
<1>1. /\ status = "reading" /\ usageTold < 2
      /\ result' = [result EXCEPT !.text = reply.text]
      /\ UNCHANGED <<reply, told, usageTold, toolBuf, toolOrder, status>>
  BY DEF TextDelta, Started, Telling
<1>2. /\ result \in ResultTypes /\ ReplyFits /\ BufferInv /\ result.usage = UsageSoFar
      /\ usageTold \in 0..2 /\ (usageTold = 1 => wire = "anthropic") /\ (wire = "responses" => usageTold = 0)
  BY <1>1 DEF ReplyInv, ResultTypes
<1>3. ReplyFits' /\ BufferInv' /\ UsageSoFar' = UsageSoFar
  BY <1>1, <1>2, SameReply, SameBuffer
<1>. DEFINE n == reply.text
<1>4. n \in Nat
  BY <1>2, ReplyTypes
<1>5. result' \in ResultTypes /\ result'.text = n /\ result'.usage = result.usage
  <2>1. result' = [result EXCEPT !.text = n]
    BY <1>1
  <2>. HIDE DEF n
  <2>. QED BY <1>2, <1>4, <2>1, ResultType
<1>. QED BY <1>1, <1>2, <1>3, <1>5 DEF ReplyInv, ResultTypes

LEMMA TellUsageKeeps ==
  ASSUME ReplyInv, wire \in AllWires, TellUsage(wire), UNCHANGED wire
  PROVE  ReplyInv'
<1>1. /\ status = "reading" /\ wire # "responses" /\ ContentTold(wire) /\ usageTold' = 2
      /\ (wire = "anthropic" => usageTold = 1) /\ usageTold < 2
      /\ result' = [result EXCEPT !.usage =
           CASE wire = "anthropic" -> AnthropicDelta(result.usage, reply.usage)
             [] wire = "openai" -> OpenAIUsage(result.usage, reply.usage)
             [] OTHER -> V4Usage(result.usage, reply.usage)]
      /\ UNCHANGED <<reply, told, toolBuf, toolOrder, status>>
  BY DEF TellUsage, Started, Telling
<1>2. /\ result \in ResultTypes /\ ReplyFits /\ BufferInv /\ result.usage = UsageSoFar
      /\ usageTold \in 0..2 /\ (usageTold = 1 => wire = "anthropic")
      /\ result.text \in {0, reply.text}
  BY <1>1 DEF ReplyInv, ResultTypes
<1>3. ReplyFits' /\ BufferInv'
  BY <1>1, <1>2, SameReply, SameBuffer
<1>4. /\ wire = "anthropic" => result.usage = AnthropicStart(NoUsage, reply.usage)
      /\ wire # "anthropic" => result.usage = NoUsage
  <2>1. wire # "anthropic" => usageTold = 0
    BY <1>1, <1>2
  <2>. QED BY <1>1, <1>2, <2>1 DEF UsageSoFar
<1>. DEFINE u == UsageSoFar'
<1>5. u = CASE wire = "anthropic" -> AnthropicDelta(result.usage, reply.usage)
            [] wire = "openai" -> OpenAIUsage(result.usage, reply.usage)
            [] OTHER -> V4Usage(result.usage, reply.usage)
  <2>1. u = CASE wire = "anthropic" -> AnthropicDelta(AnthropicStart(NoUsage, reply.usage), reply.usage)
              [] wire = "openai" -> OpenAIUsage(NoUsage, reply.usage)
              [] OTHER -> V4Usage(NoUsage, reply.usage)
    BY <1>1 DEF UsageSoFar
  <2>. QED BY <1>4, <2>1
<1>6. u \in UsageCounts
  <2>1. Counts(NoUsage, 0, 0, 0, 0, 0) /\ reply.usage \in UsageReports
    BY <1>2, NoUsageCounts, ReplyTypes
  <2>2. AnthropicDelta(AnthropicStart(NoUsage, reply.usage), reply.usage) \in UsageCounts
    BY <2>1, AnthropicCounts DEF Counts
  <2>3. OpenAIUsage(NoUsage, reply.usage) \in UsageCounts /\ V4Usage(NoUsage, reply.usage) \in UsageCounts
    BY <2>1, OpenAICounts, V4Counts DEF Counts
  <2>. HIDE DEF u
  <2>. QED BY <1>4, <1>5, <2>2, <2>3
<1>7. result' = [result EXCEPT !.usage = u]
  <2>. HIDE DEF u
  <2>. QED BY <1>1, <1>5
<1>. HIDE DEF u
<1>8. result' \in ResultTypes /\ result'.usage = u /\ result'.text = result.text
  BY <1>2, <1>6, <1>7, ResultType
<1>9. ContentTold(wire)'
  <2>1. Indexes' = Indexes
    BY <1>1, SameReply
  <2>. QED BY <1>1, <1>8, <2>1 DEF ContentTold
<1>. QED BY <1>1, <1>2, <1>3, <1>8, <1>9 DEF ReplyInv, ResultTypes, u

\* The calls of a reply that ends, wherever it does.
LEMMA CallsAreRead ==
  ASSUME ReplyFits, BufferInv, NEW r \in ResultTypes, r.calls = OrderedToolCalls,
         result' = r, UNCHANGED reply
  PROVE  CallsRead'
<1>1. /\ r.calls \in Seq(ToolCalls)
      /\ \A k \in DOMAIN r.calls : \E i \in DOMAIN toolBuf : r.calls[k] = toolBuf[i]
      /\ \A k, l \in DOMAIN r.calls : k < l => r.calls[k].id < r.calls[l].id
  BY OrderedFacts
<1>2. ASSUME NEW k \in DOMAIN r.calls
      PROVE  \E i \in Indexes : /\ ReadFrom(r.calls[k], reply.calls[i]) /\ r.calls[k].id = reply.calls[i].id
                                /\ \A p \in DOMAIN r.calls[k].args :
                                     r.calls[k].args[p].id = reply.calls[i].id
  <2>1. PICK i \in DOMAIN toolBuf : r.calls[k] = toolBuf[i]
    BY <1>1
  <2>. QED BY <2>1, BufferEntry
<1>3. Indexes' = Indexes
  BY DEF Indexes
<1>4. \A k \in DOMAIN r.calls : \E i \in Indexes : ReadFrom(r.calls[k], reply.calls[i])
  BY <1>2
<1>5. \A k \in DOMAIN r.calls : \E i \in Indexes :
         /\ r.calls[k].id = reply.calls[i].id
         /\ \A p \in DOMAIN r.calls[k].args : r.calls[k].args[p].id = reply.calls[i].id
  BY <1>2
<1>. QED BY <1>1, <1>3, <1>4, <1>5 DEF CallsRead

LEMMA CutKeeps ==
  ASSUME ReplyInv, wire \in AllWires, Cut, UNCHANGED wire
  PROVE  ReplyInv'
<1>1. /\ status = "reading" /\ status' = "cut"
      /\ result' = [result EXCEPT !.calls = OrderedToolCalls]
      /\ UNCHANGED <<reply, told, usageTold, toolBuf, toolOrder>>
  BY DEF Cut
<1>2. /\ result \in ResultTypes /\ ReplyFits /\ BufferInv /\ result.usage = UsageSoFar
      /\ usageTold \in 0..2 /\ (usageTold = 1 => wire = "anthropic") /\ (wire = "responses" => usageTold = 0)
      /\ result.text \in {0, reply.text}
  BY <1>1 DEF ReplyInv, ResultTypes
<1>3. ReplyFits' /\ BufferInv' /\ UsageSoFar' = UsageSoFar
  BY <1>1, <1>2, SameReply, SameBuffer
<1>. DEFINE c == OrderedToolCalls
<1>4. result' \in ResultTypes /\ result'.calls = c /\ result'.text = result.text
      /\ result'.usage = result.usage
  <2>1. c \in Seq(ToolCalls) /\ result' = [result EXCEPT !.calls = c]
    BY <1>1, <1>2, OrderedFacts
  <2>. HIDE DEF c
  <2>. QED BY <1>2, <2>1, ResultType
<1>5. CallsRead'
  BY <1>1, <1>2, <1>4, CallsAreRead
<1>. QED BY <1>1, <1>2, <1>3, <1>4, <1>5 DEF ReplyInv, ResultTypes

LEMMA TerminalKeeps ==
  ASSUME ReplyInv, wire \in AllWires, Terminal(wire), UNCHANGED wire
  PROVE  ReplyInv'
<1>1. /\ status = "reading" /\ status' = "complete"
      /\ IF wire = "responses" THEN ContentTold(wire) ELSE usageTold = 2
      /\ result' = [result EXCEPT !.calls = OrderedToolCalls,
            !.usage = IF wire = "responses" THEN OpenAIUsage(result.usage, reply.usage) ELSE result.usage]
      /\ UNCHANGED <<reply, told, usageTold, toolBuf, toolOrder>>
  BY DEF Terminal
<1>2. /\ result \in ResultTypes /\ ReplyFits /\ BufferInv /\ result.usage = UsageSoFar
      /\ usageTold \in 0..2 /\ (usageTold = 1 => wire = "anthropic") /\ (wire = "responses" => usageTold = 0)
      /\ result.text \in {0, reply.text} /\ (usageTold = 2 => ContentTold(wire))
  BY <1>1 DEF ReplyInv, ResultTypes
<1>3. ReplyFits' /\ BufferInv'
  BY <1>1, <1>2, SameReply, SameBuffer
<1>4. ContentTold(wire)
  BY <1>1, <1>2
<1>. DEFINE c == OrderedToolCalls  U == ParseUnary(wire).usage
<1>5. /\ (IF wire = "responses" THEN OpenAIUsage(result.usage, reply.usage) ELSE result.usage) = U
      /\ U \in UsageCounts
  <2>1. /\ wire # "responses" /\ usageTold = 2 => UsageSoFar = ParseUnary(wire).usage
        /\ wire = "responses" => OpenAIUsage(NoUsage, reply.usage) = ParseUnary(wire).usage
        /\ ParseUnary(wire).usage \in UsageCounts
    BY <1>2, UsageFacts
  <2>2. wire = "responses" => UsageSoFar = NoUsage
    BY <1>2 DEF UsageSoFar
  <2>. QED BY <1>1, <1>2, <2>1, <2>2
<1>6. /\ result' \in ResultTypes /\ result'.calls = c /\ result'.usage = U /\ result'.text = result.text
  <2>. DEFINE T == Seq(ToolCalls)
  <2>1. c \in T /\ result' = [result EXCEPT !.calls = c, !.usage = U]
    BY <1>1, <1>2, <1>5, OrderedFacts
  <2>. HIDE DEF T, c, U
  <2>2. result \in [text: Nat, calls: T, usage: UsageCounts]
    BY <1>2 DEF ResultTypes, T
  <2>3. result' \in [text: Nat, calls: T, usage: UsageCounts] /\ result'.calls = c /\ result'.usage = U
        /\ result'.text = result.text
    BY <1>5, <2>1, <2>2
  <2>. QED BY <2>3 DEF ResultTypes, T
<1>7. CallsRead'
  BY <1>1, <1>2, <1>6, CallsAreRead
<1>8. AllRead'
  <2>1. \A i \in Indexes : /\ told[i].opened /\ told[i].parts = reply.calls[i].of
                           /\ wire = "responses" => told[i].done = 2
    BY <1>4 DEF ContentTold
  <2>2. DOMAIN toolBuf = Indexes
    BY <1>2, <2>1 DEF BufferInv
  <2>3. Len(c) = Len(reply.calls) /\ \A i \in Indexes : c[i] = toolBuf[i]
    BY <1>2, <2>1, OrderedFacts
  <2>4. \A i \in Indexes : toolBuf[i].id = reply.calls[i].id /\ toolBuf[i].args = Whole(i)
    BY <1>2, <2>1, <2>2, BufferEntry
  <2>5. Indexes' = Indexes /\ (\A i : Whole(i)' = Whole(i)) /\ ParseUnary(wire)' = ParseUnary(wire)
    BY <1>1, SameReply
  <2>6. result'.text = reply.text
    BY <1>4, <1>6 DEF ContentTold
  <2>7. \A i \in Indexes : c[i].id = reply.calls[i].id /\ c[i].args = Whole(i)
    BY <2>3, <2>4
  <2>. HIDE DEF c, U
  <2>8. ParseUnary(wire)'.usage = U
    BY <2>5 DEF U
  <2>. QED BY <1>1, <1>6, <2>3, <2>5, <2>6, <2>7, <2>8 DEF AllRead
<1>. QED BY <1>1, <1>2, <1>3, <1>6, <1>7, <1>8 DEF ReplyInv, ResultTypes

\* Reading changes neither the reply nor what the script has.
LEMMA ReadFrame == ASSUME NEW w, ReadStep(w)  PROVE UNCHANGED reply
<1>1. ASSUME NEW i \in Indexes, OpenCall(w, i)  PROVE UNCHANGED reply
  BY <1>1 DEF OpenCall
<1>2. ASSUME NEW i \in Indexes, ArgumentsDelta(w, i)  PROVE UNCHANGED reply
  BY <1>2 DEF ArgumentsDelta
<1>3. ASSUME NEW i \in Indexes, DroppedDelta(w, i)  PROVE UNCHANGED reply
  BY <1>3 DEF DroppedDelta
<1>4. ASSUME NEW i \in Indexes, CallDone(w, i)  PROVE UNCHANGED reply
  BY <1>4 DEF CallDone
<1>5. CASE MessageStart(w) \/ TextDelta(w)
  BY <1>5 DEF MessageStart, TextDelta
<1>6. CASE TellUsage(w) \/ Terminal(w) \/ Cut
  BY <1>6 DEF TellUsage, Terminal, Cut
<1>. QED BY <1>1, <1>2, <1>3, <1>4, <1>5, <1>6 DEF ReadStep

LEMMA ReadKeeps ==
  ASSUME ReplyInv, wire \in AllWires, ReadStep(wire), UNCHANGED wire
  PROVE  ReplyInv'
<1>0. ReplyFits /\ BufferInv
  BY DEF ReplyInv
<1>1. ASSUME NEW i \in Indexes, OpenCall(wire, i)  PROVE ReplyInv'
  <2>1. BufferInv'
    BY <1>0, <1>1, OpenCallKeeps
  <2>2. UNCHANGED <<reply, usageTold, result, status>>
    BY <1>1, OpenCallFrame
  <2>3. status = "reading" /\ usageTold # 2
    <3>1. Started(wire)
      BY <1>1 DEF OpenCall
    <3>. QED BY <3>1 DEF Started, Telling
  <2>. QED BY <2>1, <2>2, <2>3, ContentKeeps
<1>2. ASSUME NEW i \in Indexes, ArgumentsDelta(wire, i)  PROVE ReplyInv'
  <2>1. BufferInv'
    BY <1>0, <1>2, ArgumentsDeltaKeeps
  <2>2. UNCHANGED <<reply, usageTold, result, status>> /\ Started(wire)
    BY <1>2 DEF ArgumentsDelta
  <2>3. status = "reading" /\ usageTold # 2
    BY <2>2 DEF Started, Telling
  <2>. QED BY <2>1, <2>2, <2>3, ContentKeeps
<1>3. ASSUME NEW i \in Indexes, DroppedDelta(wire, i)  PROVE ReplyInv'
  <2>1. BufferInv'
    BY <1>0, <1>3, DroppedDeltaKeeps
  <2>2. UNCHANGED <<reply, usageTold, result, status>> /\ Started(wire)
    BY <1>3 DEF DroppedDelta
  <2>3. status = "reading" /\ usageTold # 2
    BY <2>2 DEF Started, Telling
  <2>. QED BY <2>1, <2>2, <2>3, ContentKeeps
<1>4. ASSUME NEW i \in Indexes, CallDone(wire, i)  PROVE ReplyInv'
  <2>1. BufferInv'
    BY <1>0, <1>4, CallDoneKeeps
  <2>2. UNCHANGED <<reply, usageTold, result, status>> /\ Started(wire)
    BY <1>4 DEF CallDone
  <2>3. status = "reading" /\ usageTold # 2
    BY <2>2 DEF Started, Telling
  <2>. QED BY <2>1, <2>2, <2>3, ContentKeeps
<1>. QED BY <1>1, <1>2, <1>3, <1>4, MessageStartKeeps, TextDeltaKeeps, TellUsageKeeps, TerminalKeeps,
            CutKeeps DEF ReadStep

-----------------------------------------------------------------------------
(* The conversation.                                                       *)

SaidCalls == [id: Nat, args: Seq(Fragments), cut: BOOLEAN]

\* How many calls the replies before this one held.
Base == Len(said) - Len(reply.calls)

\* The calls of this reply are the last that were said, whole.
SaidInv ==
  /\ said \in Seq(SaidCalls) /\ \A k \in DOMAIN said : said[k].id = k
  /\ Base \in Nat
  /\ \A i \in Indexes : /\ Base + i \in DOMAIN said
                        /\ reply.calls[i].id = Base + i
                        /\ said[Base + i].args = Whole(i) /\ ~said[Base + i].cut

LoopInv ==
  /\ messages \in Seq(Messages) /\ wire \in AllWires
  /\ ReplyInv /\ SaidInv

\* A reply that is one document is read in one step, as far as it goes.
LEMMA UnaryReads ==
  ASSUME ReplyFits, wire \in AllWires, result = ParseUnary(wire), status = "complete", usageTold = 0
  PROVE  result \in ResultTypes /\ CallsRead /\ AllRead
<1>. DEFINE m == Len(reply.calls)
            T == Seq(ToolCalls)
            ObjectOf(call) == [call EXCEPT !.args = IF @ = <<>> THEN EmptyObject ELSE @]
            calls == CASE wire = "anthropic" -> [i \in Indexes |-> ObjectOf(UnaryCalls[i])]
                       [] wire = "providerwire-v4" -> <<>>
                       [] OTHER -> UnaryCalls
<1>1. Indexes = 1..m /\ m \in Nat /\ reply.text \in Nat /\ reply.calls \in Seq(CallsMade)
  BY ReplyTypes
<1>2. /\ \A i \in Indexes : /\ Whole(i) \in Seq(Fragments) /\ reply.calls[i].id \in Nat
                            /\ Len(Whole(i)) = reply.calls[i].of
                            /\ reply.calls[i].of \in Nat
                            /\ \A p \in 1..reply.calls[i].of : /\ Whole(i)[p].id = reply.calls[i].id
                                                               /\ Whole(i)[p].of = reply.calls[i].of
      /\ EmptyObject \in Seq(Fragments)
  <2>1. \A i \in Indexes : reply.calls[i].id \in Nat /\ reply.calls[i].of \in Nat
    BY ReplyTypes
  <2>2. \A i \in Indexes : /\ Whole(i) \in Seq(Fragments) /\ Len(Whole(i)) = reply.calls[i].of
                           /\ \A p \in 1..reply.calls[i].of : /\ Whole(i)[p].id = reply.calls[i].id
                                                              /\ Whole(i)[p].of = reply.calls[i].of
    BY WholeCall
  <2>3. EmptyObject \in Seq(Fragments)
    <3>. DEFINE zero == 0  one == 1
    <3>1. zero \in Nat /\ one \in Nat
      OBVIOUS
    <3>. HIDE DEF zero, one
    <3>2. WholeArguments(zero, one) \in Seq(Fragments)
      BY <3>1, WholeFacts
    <3>. QED BY <3>2 DEF EmptyObject, zero, one
  <2>. QED BY <2>1, <2>2, <2>3
<1>3. /\ result.text = reply.text /\ result.calls = calls
      /\ result = [text |-> reply.text, calls |-> calls, usage |-> ParseUnary(wire).usage]
  <2>. wire \in {"openai", "anthropic", "responses", "providerwire-v4"}
    BY DEF AllWires
  <2>1. ParseUnary(wire) = CASE wire = "anthropic" -> ParseAnthropicMessage
                             [] wire = "providerwire-v4" -> ParseProviderWireV4Unary
                             [] wire = "responses" -> ParseResponsesObject
                             [] wire = "openai" -> ParseChatCompletion
    BY DEF ParseUnary
  <2>2. CASE wire = "anthropic"
    <3>. DEFINE objects == [i \in Indexes |-> ObjectOf(UnaryCalls[i])]
    <3>1. \E u : ParseAnthropicMessage = [text |-> reply.text, calls |-> objects, usage |-> u]
      BY DEF ParseAnthropicMessage, UnaryReply
    <3>2. ParseUnary(wire) = ParseAnthropicMessage /\ calls = objects
      BY <2>1, <2>2
    <3>. HIDE DEF objects, calls
    <3>. QED BY <3>1, <3>2
  <2>3. CASE wire = "providerwire-v4"
    BY <2>1, <2>3 DEF ParseProviderWireV4Unary, UnaryReply
  <2>4. CASE wire = "responses"
    BY <2>1, <2>4 DEF ParseResponsesObject, UnaryReply
  <2>5. CASE wire = "openai"
    BY <2>1, <2>5 DEF ParseChatCompletion, UnaryReply
  <2>. QED BY <2>2, <2>3, <2>4, <2>5
<1>4. UnaryCalls \in T /\ DOMAIN UnaryCalls = Indexes
      /\ \A i \in Indexes : /\ UnaryCalls[i] \in ToolCalls /\ UnaryCalls[i].id = reply.calls[i].id
                            /\ UnaryCalls[i].args = Whole(i)
  <2>. DEFINE F == Seq(Fragments)
  <2>. HIDE DEF F
  <2>1. \A i \in Indexes : Whole(i) \in F /\ reply.calls[i].id \in Nat
    BY <1>2 DEF F
  <2>2. \A i \in Indexes : [id |-> reply.calls[i].id, args |-> Whole(i)] \in [id: Nat, args: F]
    BY <2>1
  <2>3. UnaryCalls = [i \in 1..m |-> [id |-> reply.calls[i].id, args |-> Whole(i)]]
    BY <1>1 DEF UnaryCalls
  <2>4. \A i \in Indexes : [id |-> reply.calls[i].id, args |-> Whole(i)] \in ToolCalls
    BY <2>2 DEF ToolCalls, F
  <2>. QED BY <1>1, <2>3, <2>4
<1>5. ASSUME NEW i \in Indexes
      PROVE  LET c == ObjectOf(UnaryCalls[i]) IN
             /\ c \in ToolCalls /\ c.id = reply.calls[i].id
             /\ DecodeToolArguments(c.args) = DecodeToolArguments(Whole(i))
  <2>. DEFINE call == UnaryCalls[i]
              args == IF call.args = <<>> THEN EmptyObject ELSE call.args
  <2>1. call \in ToolCalls /\ call.id = reply.calls[i].id /\ call.args = Whole(i)
    BY <1>4
  <2>2. args \in Seq(Fragments)
    BY <1>2, <2>1
  <2>3. DecodeToolArguments(args) = DecodeToolArguments(Whole(i))
    <3>1. DecodeToolArguments(<<>>) = EmptyObject
      BY DEF DecodeToolArguments, Parses
    <3>2. DecodeToolArguments(EmptyObject) = EmptyObject
      BY DEF DecodeToolArguments
    <3>. QED BY <2>1, <3>1, <3>2
  <2>4. ObjectOf(UnaryCalls[i]) = [call EXCEPT !.args = args]
    OBVIOUS
  <2>. HIDE DEF call, args
  <2>5. [call EXCEPT !.args = args] \in ToolCalls /\ [call EXCEPT !.args = args].args = args
        /\ [call EXCEPT !.args = args].id = call.id
    BY <2>1, <2>2, ToolCallType
  <2>. QED BY <2>1, <2>3, <2>4, <2>5
<1>. HIDE DEF ObjectOf, T
<1>6. /\ calls \in T /\ DOMAIN calls = Indexes /\ Len(calls) = m
      /\ \A i \in Indexes : /\ calls[i].id = reply.calls[i].id
                            /\ DecodeToolArguments(calls[i].args) = DecodeToolArguments(Whole(i))
  <2>1. CASE wire = "anthropic"
    <3>1. calls = [i \in 1..m |-> ObjectOf(UnaryCalls[i])]
      BY <1>1, <2>1
    <3>. HIDE DEF calls
    <3>. QED BY <1>1, <1>5, <3>1 DEF T
  <2>2. CASE wire = "providerwire-v4"
    <3>1. calls = <<>> /\ reply.calls = <<>>
      BY <2>2 DEF ReplyFits
    <3>. HIDE DEF calls
    <3>2. m = 0 /\ Indexes = {}
      BY <1>1, <3>1
    <3>. QED BY <3>1, <3>2 DEF T
  <2>3. CASE wire \notin {"anthropic", "providerwire-v4"}
    <3>1. calls = UnaryCalls
      BY <2>3
    <3>. HIDE DEF calls
    <3>2. Len(UnaryCalls) = m
      BY <1>1, <1>4 DEF T
    <3>. QED BY <1>4, <3>1, <3>2
  <2>. QED BY <2>1, <2>2, <2>3
<1>. HIDE DEF calls
<1>7. AllRead
  BY <1>3, <1>6 DEF AllRead
<1>8. result \in ResultTypes
  <2>1. ParseUnary(wire).usage \in UsageCounts
    BY UsageFacts
  <2>. QED BY <1>1, <1>3, <1>6, <2>1 DEF ResultTypes, T
<1>9. CallsRead
  <2>1. \A i \in Indexes : ReadFrom(calls[i], reply.calls[i])
    BY <1>6 DEF ReadFrom, Whole
  <2>2. \A k, l \in DOMAIN calls : k < l => calls[k].id < calls[l].id
    BY <1>6 DEF ReplyFits
  <2>. QED BY <1>3, <1>6, <2>1, <2>2 DEF CallsRead, T
<1>. QED BY <1>7, <1>8, <1>9

\* Before a reply nothing of one is kept.
LEMMA NothingRead == ASSUME NoReplyYet, wire \in AllWires  PROVE ReplyInv
<1>1. /\ reply = NoReply /\ told = <<>> /\ usageTold = 0 /\ toolBuf = EmptyBuf /\ toolOrder = <<>>
      /\ result = NoResult /\ status = "none"
  BY DEF NoReplyYet
<1>2. reply.calls = <<>> /\ reply.text = 0 /\ Indexes = {} /\ DOMAIN toolBuf = {}
  BY <1>1 DEF NoReply, Indexes, EmptyBuf
<1>3. reply \in [text: Nat, calls: Seq(CallsMade), usage: UsageReports]
  <2>. DEFINE T == Seq(CallsMade)
  <2>1. <<>> \in T
    OBVIOUS
  <2>. HIDE DEF T
  <2>2. reply.usage \in UsageReports
    BY <1>1 DEF NoReply, UsageReports
  <2>3. reply \in [text: Nat, calls: T, usage: UsageReports]
    BY <1>1, <2>1, <2>2 DEF NoReply
  <2>. QED BY <2>3 DEF T
<1>4. ReplyFits
  <2>1. reply.usage.read <= reply.usage.input
    BY <1>1 DEF NoReply
  <2>. QED BY <1>2, <1>3, <2>1 DEF ReplyFits
<1>5. BufferInv
  <2>1. told \in [{} -> Tellings] /\ toolOrder \in Seq({}) /\ DOMAIN toolOrder = {}
    BY <1>1
  <2>. QED BY <1>1, <1>2, <2>1 DEF BufferInv, Listed
<1>6. result \in [text: Nat, calls: Seq(ToolCalls), usage: UsageCounts] /\ result.usage = NoUsage
      /\ result.text = 0
  <2>. DEFINE T == Seq(ToolCalls)
  <2>1. <<>> \in T
    OBVIOUS
  <2>2. NoUsage \in UsageCounts
    BY NoUsageCounts DEF Counts
  <2>. HIDE DEF T
  <2>3. result \in [text: Nat, calls: T, usage: UsageCounts] /\ result.usage = NoUsage /\ result.text = 0
    BY <1>1, <2>1, <2>2 DEF NoResult
  <2>. QED BY <2>3 DEF T
<1>7. UsageSoFar = NoUsage
  BY <1>1 DEF UsageSoFar
<1>. QED BY <1>1, <1>4, <1>5, <1>6, <1>7 DEF ReplyInv

\* Between two calls what was said is all there is.
LEMMA NothingReadSaid ==
  ASSUME reply = NoReply
  PROVE  /\ Indexes = {} /\ (said \in Seq(SaidCalls) => Base = Len(said) /\ Base \in Nat)
<1>1. reply.calls = <<>>
  BY DEF NoReply
<1>2. Len(reply.calls) = 0 /\ Indexes = {}
  BY <1>1 DEF Indexes
<1>. QED BY <1>2 DEF Base

LEMMA LoopStarts == ASSUME LoopInit  PROVE LoopInv
<1>1. wire \in AllWires /\ NoReplyYet /\ messages = <<>> /\ said = <<>>
  BY BodyAssumption DEF LoopInit
<1>2. ReplyInv
  BY <1>1, NothingRead
<1>3. SaidInv
  <2>1. reply = NoReply
    BY <1>1 DEF NoReplyYet
  <2>. QED BY <1>1, <2>1, NothingReadSaid DEF SaidInv
<1>4. messages \in Seq(Messages)
  BY <1>1
<1>. QED BY <1>1, <1>2, <1>3, <1>4 DEF LoopInv

\* What the provider says to this call is new to the conversation.
LEMMA ReplyOfFacts ==
  ASSUME messages \in Seq(Messages), said \in Seq(SaidCalls), wire \in AllWires,
         NEW r \in RepliesOver(wire), NEW q, q = ReplyOf(r)
  PROVE  /\ q \in [text: Nat, calls: Seq(CallsMade), usage: UsageReports]
         /\ r.calls \in Seq(Nat) /\ Len(q.calls) = Len(r.calls) /\ DOMAIN q.calls = DOMAIN r.calls
         /\ \A i \in DOMAIN q.calls : q.calls[i].id = Len(said) + i /\ q.calls[i].of \in Nat
         /\ wire = "providerwire-v4" => q.calls = <<>>
         /\ wire \in {"openai", "responses"} => q.usage.read <= q.usage.input
<1>1. /\ r \in Replies /\ (wire = "providerwire-v4" => r.calls = <<>>)
      /\ (wire \in {"openai", "responses"} => r.usage.read <= r.usage.input)
  BY DEF RepliesOver
<1>2. r.text \in BOOLEAN /\ r.calls \in Seq(Nat) /\ r.usage \in UsageReports
  BY <1>1, RepliesAssumption DEF UsageReports
<1>. DEFINE m == Len(r.calls)
            n == Len(said)
            call(i) == [id |-> n + i, of |-> r.calls[i]]
            calls == [i \in DOMAIN r.calls |-> call(i)]
            T == Seq(CallsMade)
            text == IF r.text THEN NextText ELSE 0
<1>3. q = [text |-> text, calls |-> calls, usage |-> r.usage]
  BY DEF ReplyOf
<1>4. text \in Nat
  BY DEF NextText
<1>5. m \in Nat /\ n \in Nat /\ DOMAIN r.calls = 1..m /\ \A i \in 1..m : r.calls[i] \in Nat
  BY <1>2
<1>. HIDE DEF m, n, text
<1>6. \A i \in 1..m : call(i) \in CallsMade /\ call(i).id = n + i /\ call(i).of \in Nat
  BY <1>5 DEF CallsMade
<1>. HIDE DEF call
<1>7. calls \in T /\ Len(calls) = m /\ DOMAIN calls = 1..m /\ \A i \in 1..m : calls[i] = call(i)
  BY <1>5, <1>6
<1>8. m = 0 => calls = <<>>
  BY <1>7
<1>. HIDE DEF calls, T
<1>9. q \in [text: Nat, calls: T, usage: UsageReports] /\ q.calls = calls /\ q.usage = r.usage
  BY <1>2, <1>3, <1>4, <1>7
<1>10. wire = "providerwire-v4" => m = 0
  BY <1>1 DEF m
<1>. QED BY <1>1, <1>2, <1>5, <1>6, <1>7, <1>8, <1>9, <1>10 DEF T, m, n

LEMMA MeantByFacts ==
  ASSUME NEW q, q.calls \in Seq(CallsMade)
  PROVE  /\ MeantBy(q) \in Seq(SaidCalls) /\ Len(MeantBy(q)) = Len(q.calls)
         /\ \A i \in DOMAIN q.calls :
              /\ MeantBy(q)[i].id = q.calls[i].id /\ ~MeantBy(q)[i].cut
              /\ MeantBy(q)[i].args = WholeArguments(q.calls[i].id, q.calls[i].of)
<1>. DEFINE m == Len(q.calls)
            F == Seq(Fragments)
            meant(i) == [id |-> q.calls[i].id, args |-> WholeArguments(q.calls[i].id, q.calls[i].of),
                         cut |-> FALSE]
<1>1. m \in Nat /\ DOMAIN q.calls = 1..m /\ \A i \in 1..m : q.calls[i] \in CallsMade
  OBVIOUS
<1>2. MeantBy(q) = [i \in DOMAIN q.calls |-> meant(i)]
  BY DEF MeantBy
<1>. HIDE DEF F
<1>3. ASSUME NEW i \in 1..m
      PROVE  /\ meant(i) \in SaidCalls /\ meant(i).id = q.calls[i].id /\ ~meant(i).cut
             /\ meant(i).args = WholeArguments(q.calls[i].id, q.calls[i].of)
  <2>. DEFINE id == q.calls[i].id  of == q.calls[i].of
  <2>1. id \in Nat /\ of \in Nat
    BY <1>1 DEF CallsMade
  <2>. HIDE DEF id, of
  <2>2. WholeArguments(id, of) \in F
    BY <2>1, WholeFacts DEF F
  <2>3. [id |-> id, args |-> WholeArguments(id, of), cut |-> FALSE] \in [id: Nat, args: F, cut: BOOLEAN]
    BY <2>1, <2>2
  <2>. QED BY <2>3 DEF SaidCalls, F, id, of
<1>. HIDE DEF meant, m
<1>4. MeantBy(q) = [i \in 1..m |-> meant(i)]
  BY <1>1, <1>2
<1>5. MeantBy(q) \in Seq(SaidCalls) /\ Len(MeantBy(q)) = m /\ \A i \in 1..m : MeantBy(q)[i] = meant(i)
  BY <1>1, <1>3, <1>4
<1>. QED BY <1>1, <1>3, <1>5 DEF m

\* Nothing is told of a reply's calls yet.
NothingTold ==
  /\ reply.calls \in Seq(CallsMade) /\ told = [i \in Indexes |-> Untold]
  /\ toolBuf = EmptyBuf /\ toolOrder = <<>>

LEMMA NothingBuffered == ASSUME NothingTold  PROVE BufferInv
<1>. USE DEF NothingTold
<1>. DEFINE m == Len(reply.calls)
<1>1. Indexes = 1..m /\ m \in Nat /\ \A i \in 1..m : reply.calls[i] \in CallsMade
  BY DEF Indexes
<1>2. Untold \in Tellings /\ ~Untold.opened /\ Untold.parts = 0 /\ Untold.done = 0
  BY DEF Untold, Tellings
<1>3. told \in [Indexes -> Tellings] /\ \A i \in Indexes : told[i] = Untold
  BY <1>2
<1>4. \A i \in Indexes : 0 <= reply.calls[i].of
  BY <1>1 DEF CallsMade
<1>5. DOMAIN toolBuf = {} /\ {i \in Indexes : told[i].opened} = {}
  BY <1>2, <1>3 DEF EmptyBuf
<1>6. Listed(toolOrder, {})
  <2>1. toolOrder \in Seq({}) /\ DOMAIN toolOrder = {}
    OBVIOUS
  <2>. QED BY <2>1 DEF Listed
<1>. QED BY <1>2, <1>3, <1>4, <1>5, <1>6 DEF BufferInv

\* Where a streamed reply begins, and where one document ends.
ReplyBegun ==
  /\ wire \in AllWires /\ ReplyFits /\ BufferInv /\ usageTold = 0
  /\ \/ status = "reading" /\ result = NoResult
     \/ status = "complete" /\ result = ParseUnary(wire)

LEMMA ReplyBegins == ASSUME ReplyBegun  PROVE ReplyInv
<1>. USE DEF ReplyBegun
<1>1. CASE status = "reading" /\ result = NoResult
  <2>1. result \in [text: Nat, calls: Seq(ToolCalls), usage: UsageCounts] /\ result.usage = NoUsage
        /\ result.text = 0
    <3>. DEFINE T == Seq(ToolCalls)
    <3>1. <<>> \in T
      OBVIOUS
    <3>2. NoUsage \in UsageCounts
      BY NoUsageCounts DEF Counts
    <3>. HIDE DEF T
    <3>3. result \in [text: Nat, calls: T, usage: UsageCounts] /\ result.usage = NoUsage
          /\ result.text = 0
      BY <1>1, <3>1, <3>2 DEF NoResult
    <3>. QED BY <3>3 DEF T
  <2>2. UsageSoFar = NoUsage
    BY DEF UsageSoFar
  <2>. QED BY <1>1, <2>1, <2>2 DEF ReplyInv
<1>2. CASE status = "complete" /\ result = ParseUnary(wire)
  <2>1. result \in ResultTypes /\ CallsRead /\ AllRead
    BY <1>2, UnaryReads
  <2>2. result.text = reply.text
    BY <2>1 DEF AllRead
  <2>. QED BY <1>2, <2>1, <2>2 DEF ReplyInv, ResultTypes
<1>. QED BY <1>1, <1>2

LEMMA PostKeeps == ASSUME LoopInv, Post  PROVE LoopInv'
<1>1. /\ status = "none" /\ UNCHANGED <<wire, messages, asked, usageTold, toolBuf, toolOrder>>
      /\ messages \in Seq(Messages) /\ wire \in AllWires /\ said \in Seq(SaidCalls)
      /\ \A k \in DOMAIN said : said[k].id = k
  BY DEF Post, LoopInv, SaidInv
<1>2. PICK r \in RepliesOver(wire) :
        /\ reply' = ReplyOf(r)
        /\ said' = said \o MeantBy(reply')
        /\ told' = [i \in DOMAIN r.calls |-> Untold]
        /\ IF given.unary
           THEN status' = "complete" /\ result' = ParseUnary(wire)'
           ELSE status' = "reading" /\ UNCHANGED result
  BY DEF Post
<1>3. NoReplyYet
  BY <1>1 DEF LoopInv, ReplyInv
<1>. DEFINE q == reply'
<1>4. /\ q \in [text: Nat, calls: Seq(CallsMade), usage: UsageReports]
      /\ r.calls \in Seq(Nat) /\ Len(q.calls) = Len(r.calls) /\ DOMAIN q.calls = DOMAIN r.calls
      /\ \A i \in DOMAIN q.calls : q.calls[i].id = Len(said) + i /\ q.calls[i].of \in Nat
      /\ wire = "providerwire-v4" => q.calls = <<>>
      /\ wire \in {"openai", "responses"} => q.usage.read <= q.usage.input
  <2>1. q = ReplyOf(r)
    BY <1>2
  <2>. HIDE DEF q
  <2>. QED BY <1>1, <2>1, ReplyOfFacts
<1>5. q.calls \in Seq(CallsMade)
  <2>. DEFINE T == Seq(CallsMade)
  <2>1. q \in [text: Nat, calls: T, usage: UsageReports]
    BY <1>4
  <2>. HIDE DEF T, q
  <2>2. q.calls \in T
    BY <2>1
  <2>. QED BY <2>2 DEF T
<1>. DEFINE m == Len(q.calls)  n == Len(said)
<1>6. m \in Nat /\ n \in Nat /\ DOMAIN q.calls = 1..m
  BY <1>1, <1>5
<1>7. Indexes' = 1..m
  BY <1>6 DEF Indexes
<1>8. ReplyFits'
  <2>1. \A i, j \in 1..m : i < j => q.calls[i].id < q.calls[j].id
    <3>. SUFFICES ASSUME NEW i \in 1..m, NEW j \in 1..m, i < j  PROVE q.calls[i].id < q.calls[j].id
      OBVIOUS
    <3>1. q.calls[i].id = n + i /\ q.calls[j].id = n + j
      BY <1>4, <1>6
    <3>. HIDE DEF q, n, m
    <3>. QED BY <1>6, <3>1
  <2>. QED BY <1>1, <1>4, <1>7, <2>1 DEF ReplyFits
<1>9. BufferInv'
  <2>1. told' = [i \in Indexes' |-> Untold] /\ toolBuf' = EmptyBuf /\ toolOrder' = <<>>
    BY <1>1, <1>2, <1>3, <1>4, <1>6, <1>7 DEF NoReplyYet
  <2>2. NothingTold'
    BY <1>5, <2>1 DEF NothingTold
  <2>3. NothingTold' => BufferInv'
    BY NothingBuffered, PTL
  <2>. QED BY <2>2, <2>3
<1>10. ReplyInv'
  <2>1. \/ status' = "reading" /\ result' = NoResult
        \/ status' = "complete" /\ result' = ParseUnary(wire)'
    BY <1>2, <1>3 DEF NoReplyYet
  <2>2. usageTold' = 0 /\ wire' \in AllWires
    BY <1>1, <1>3 DEF NoReplyYet
  <2>3. ReplyBegun'
    BY <1>8, <1>9, <2>1, <2>2 DEF ReplyBegun
  <2>4. ReplyBegun' => ReplyInv'
    BY ReplyBegins, PTL
  <2>. QED BY <2>3, <2>4
<1>11. SaidInv'
  <2>. DEFINE a == said  b == MeantBy(q)  c == said'
  <2>1. /\ b \in Seq(SaidCalls) /\ Len(b) = m
        /\ \A i \in 1..m : /\ b[i].id = q.calls[i].id /\ ~b[i].cut
                           /\ b[i].args = WholeArguments(q.calls[i].id, q.calls[i].of)
    BY <1>5, <1>6, MeantByFacts
  <2>2. c = a \o b
    BY <1>2
  <2>3. a \in Seq(SaidCalls) /\ Len(a) = n /\ \A k \in 1..n : a[k].id = k
    BY <1>1, <1>6
  <2>4. Base' = Len(c) - m
    BY DEF Base
  <2>5. \A i \in 1..m : Whole(i)' = WholeArguments(q.calls[i].id, q.calls[i].of)
    BY DEF Whole
  <2>6. \A i \in 1..m : q.calls[i].id = n + i
    BY <1>4, <1>6
  <2>. HIDE DEF a, b, c, n, m, q
  <2>7. /\ c \in Seq(SaidCalls) /\ Len(c) = n + m /\ DOMAIN c = 1..(n + m)
        /\ \A k \in 1..n : c[k] = a[k]
        /\ \A i \in 1..m : c[n + i] = b[i]
    <3>1. a \in Seq(SaidCalls) /\ b \in Seq(SaidCalls) /\ Len(a) = n /\ Len(b) = m /\ c = a \o b
      BY <2>1, <2>2, <2>3
    <3>2. c \in Seq(SaidCalls) /\ Len(c) = n + m /\ \A k \in 1..(n + m) : c[k] = IF k <= n THEN a[k] ELSE b[k - n]
      BY <3>1
    <3>3. \A k \in 1..n : k \in 1..(n + m) /\ k <= n
      BY <1>6
    <3>4. \A i \in 1..m : n + i \in 1..(n + m) /\ ~(n + i <= n) /\ (n + i) - n = i
      BY <1>6
    <3>5. DOMAIN c = 1..(n + m)
      BY <3>2
    <3>. QED BY <3>2, <3>3, <3>4, <3>5
  <2>8. Base' = n
    BY <1>6, <2>4, <2>7
  <2>9. \A i \in 1..m : n + i \in 1..(n + m)
    BY <1>6
  <2>10. \A k \in 1..(n + m) : c[k].id = k
    <3>1. \A k \in 1..(n + m) : k \in 1..n \/ \E i \in 1..m : k = n + i
      <4>. SUFFICES ASSUME NEW k \in 1..(n + m), k \notin 1..n  PROVE \E i \in 1..m : k = n + i
        OBVIOUS
      <4>1. k - n \in 1..m /\ k = n + (k - n)
        BY <1>6
      <4>. QED BY <4>1
    <3>2. \A i \in 1..m : c[n + i].id = n + i
      BY <2>1, <2>6, <2>7
    <3>3. \A k \in 1..n : c[k].id = k
      BY <2>3, <2>7
    <3>. QED BY <3>1, <3>2, <3>3
  <2>. QED BY <1>6, <1>7, <2>1, <2>5, <2>6, <2>7, <2>8, <2>9, <2>10 DEF SaidInv, c, q
<1>. QED BY <1>1, <1>10, <1>11 DEF LoopInv

\* The messages a script writes are of the kinds the translations know.
LEMMA WrittenAreMessages ==
  /\ \A n \in Nat, form \in {"string", "parts"} :
       UserMessage(n, form) \in Messages /\ SystemMessage(n, form) \in Messages
  /\ \A id \in Nat : ToolMessage(id) \in Messages
  /\ \A n \in Nat : PlainMessage(n) \in Messages
  /\ \A n \in Nat, calls \in Seq(ToolCalls) : CallingMessage(n, calls) \in Messages
<1>1. ASSUME NEW n \in Nat, NEW form \in {"string", "parts"}
      PROVE  UserMessage(n, form) \in Messages /\ SystemMessage(n, form) \in Messages
  BY DEF UserMessage, SystemMessage, Messages, UserMessages, SystemMessages
<1>2. ASSUME NEW id \in Nat  PROVE ToolMessage(id) \in Messages
  BY DEF ToolMessage, Messages, ToolMessages
<1>3. ASSUME NEW n \in Nat  PROVE PlainMessage(n) \in Messages
  BY DEF PlainMessage, Messages, PlainMessages
<1>4. ASSUME NEW n \in Nat, NEW calls \in Seq(ToolCalls)  PROVE CallingMessage(n, calls) \in Messages
  <2>. DEFINE T == Seq(ToolCalls)
  <2>. HIDE DEF T
  <2>1. CallingMessage(n, calls) \in [role: {"assistant"}, form: {"string"}, text: Nat, calls: T]
    BY DEF CallingMessage, T
  <2>. QED BY <2>1 DEF Messages, CallingMessages, T
<1>. QED BY <1>1, <1>2, <1>3, <1>4

\* What ends a call is that its reply is forgotten and those of its calls that were
\* cut are marked.
LEMMA MarkedCut ==
  ASSUME NEW s \in Seq(SaidCalls), NEW base, NEW cut \in BOOLEAN, NEW t,
         t = [k \in DOMAIN s |-> [s[k] EXCEPT !.cut = @ \/ (cut /\ k > base)]]
  PROVE  /\ t \in Seq(SaidCalls) /\ Len(t) = Len(s) /\ DOMAIN t = DOMAIN s
         /\ \A k \in DOMAIN s : /\ t[k].id = s[k].id /\ t[k].args = s[k].args
                                /\ t[k].cut = (s[k].cut \/ (cut /\ k > base))
<1>. DEFINE n == Len(s)
            F == Seq(Fragments)
            marked(k) == s[k].cut \/ (cut /\ k > base)
            next(k) == [s[k] EXCEPT !.cut = marked(k)]
<1>1. n \in Nat /\ DOMAIN s = 1..n /\ \A k \in 1..n : s[k] \in SaidCalls
  OBVIOUS
<1>2. t = [k \in 1..n |-> next(k)]
  BY <1>1
<1>3. ASSUME NEW k \in 1..n
      PROVE  /\ next(k) \in SaidCalls /\ next(k).id = s[k].id /\ next(k).args = s[k].args
             /\ next(k).cut = marked(k)
  <2>. DEFINE call == s[k]  b == marked(k)
  <2>1. b \in BOOLEAN
    OBVIOUS
  <2>. HIDE DEF b, F
  <2>2. call \in [id: Nat, args: F, cut: BOOLEAN]
    BY <1>1 DEF SaidCalls, F
  <2>. HIDE DEF call
  <2>3. /\ [call EXCEPT !.cut = b] \in [id: Nat, args: F, cut: BOOLEAN]
        /\ [call EXCEPT !.cut = b].id = call.id /\ [call EXCEPT !.cut = b].args = call.args
        /\ [call EXCEPT !.cut = b].cut = b
    BY <2>1, <2>2
  <2>. QED BY <2>3 DEF call, b, SaidCalls, F
<1>4. t \in Seq(SaidCalls) /\ Len(t) = n /\ DOMAIN t = 1..n /\ \A k \in 1..n : t[k] = next(k)
  <2>1. n \in Nat /\ \A k \in 1..n : next(k) \in SaidCalls
    BY <1>1, <1>3
  <2>. HIDE DEF next, n
  <2>2. DOMAIN t = 1..n /\ \A k \in 1..n : t[k] = next(k)
    BY <1>2
  <2>. DEFINE S == SaidCalls
  <2>. HIDE DEF S
  <2>3. t \in [1..n -> S]
    BY <1>2, <2>1 DEF S
  <2>4. t \in Seq(S) /\ Len(t) = n
    BY <2>1, <2>3
  <2>. QED BY <2>2, <2>4 DEF S
<1>. HIDE DEF next, n
<1>. QED BY <1>1, <1>3, <1>4, SMTT(30) DEF n

LEMMA EchoFacts ==
  ASSUME LoopInv, Echo
  PROVE  /\ status \in {"complete", "cut"} /\ UNCHANGED wire
         /\ EchoOf(result) \in Messages /\ messages' = Append(messages, EchoOf(result))
         /\ NoReplyYet'
         /\ said' \in Seq(SaidCalls) /\ Len(said') = Len(said) /\ DOMAIN said' = DOMAIN said
         /\ \A k \in DOMAIN said :
              /\ said'[k].id = said[k].id /\ said'[k].args = said[k].args
              /\ said'[k].cut = (said[k].cut \/ (status = "cut" /\ k > Base))
<1>1. status \in {"complete", "cut"} /\ messages' = Append(messages, EchoOf(result)) /\ UNCHANGED bodyVars
  BY DEF Echo
<1>2. NoReplyYet'
  BY DEF Echo, NoReplyYet, EmptyBuf, NoReply, NoResult, NoToolCall, NoUsage
<1>3. EchoOf(result) \in Messages
  <2>1. result.text \in Nat /\ result.calls \in Seq(ToolCalls)
    <3>1. result \in ResultTypes
      BY DEF LoopInv, ReplyInv, ResultTypes
    <3>. QED BY <3>1, ResultType
  <2>. QED BY <2>1, WrittenAreMessages DEF EchoOf
<1>4. /\ said' \in Seq(SaidCalls) /\ Len(said') = Len(said) /\ DOMAIN said' = DOMAIN said
      /\ \A k \in DOMAIN said :
           /\ said'[k].id = said[k].id /\ said'[k].args = said[k].args
           /\ said'[k].cut = (said[k].cut \/ (status = "cut" /\ k > Base))
  <2>. DEFINE s == said  t == said'  cut == (status = "cut")  base == Base
  <2>1. s \in Seq(SaidCalls) /\ cut \in BOOLEAN
    BY DEF LoopInv, SaidInv
  <2>2. t = [k \in DOMAIN s |-> [s[k] EXCEPT !.cut = @ \/ (cut /\ k > base)]]
    BY DEF Echo, Base
  <2>. HIDE DEF s, t, cut, base
  <2>3. /\ t \in Seq(SaidCalls) /\ Len(t) = Len(s) /\ DOMAIN t = DOMAIN s
        /\ \A k \in DOMAIN s : /\ t[k].id = s[k].id /\ t[k].args = s[k].args
                               /\ t[k].cut = (s[k].cut \/ (cut /\ k > base))
    BY <2>1, <2>2, MarkedCut
  <2>. QED BY <2>3 DEF s, t, cut, base
<1>. QED BY <1>1, <1>2, <1>3, <1>4 DEF bodyVars

LEMMA EchoKeeps == ASSUME LoopInv, Echo  PROVE LoopInv'
<1>1. /\ UNCHANGED wire /\ EchoOf(result) \in Messages /\ messages' = Append(messages, EchoOf(result))
      /\ NoReplyYet' /\ said' \in Seq(SaidCalls) /\ DOMAIN said' = DOMAIN said
      /\ \A k \in DOMAIN said : said'[k].id = said[k].id
  BY EchoFacts
<1>2. messages \in Seq(Messages) /\ wire \in AllWires /\ \A k \in DOMAIN said : said[k].id = k
  BY DEF LoopInv, SaidInv
<1>3. messages' \in Seq(Messages)
  BY <1>1, <1>2
<1>4. ReplyInv'
  <2>1. NoReplyYet' /\ (wire \in AllWires)' => ReplyInv'
    BY NothingRead, PTL
  <2>. QED BY <1>1, <1>2, <2>1
<1>5. SaidInv'
  <2>1. (reply = NoReply)' => (/\ Indexes = {} /\ (said \in Seq(SaidCalls) => Base = Len(said) /\ Base \in Nat))'
    BY NothingReadSaid, PTL
  <2>2. (reply = NoReply)'
    BY <1>1 DEF NoReplyYet
  <2>3. Indexes' = {} /\ Base' \in Nat
    BY <1>1, <2>1, <2>2
  <2>. QED BY <1>1, <1>2, <2>3 DEF SaidInv
<1>. QED BY <1>1, <1>2, <1>3, <1>4, <1>5 DEF LoopInv

\* A step that leaves the reply alone.
LEMMA SameReplyInv ==
  ASSUME ReplyInv, UNCHANGED <<wire, replyVars>>  PROVE ReplyInv'
<1>1. UNCHANGED <<reply, told, usageTold, toolBuf, toolOrder, result, status, wire>>
  BY DEF replyVars
<1>2. /\ Indexes' = Indexes /\ (\A i : Whole(i)' = Whole(i))
      /\ UsageSoFar' = UsageSoFar /\ ParseUnary(wire)' = ParseUnary(wire)
      /\ ReplyFits' /\ BufferInv'
  BY <1>1, SameReply, SameBuffer DEF ReplyInv
<1>3. ContentTold(wire) => ContentTold(wire)'
  BY <1>1, <1>2 DEF ContentTold
<1>4. CallsRead => CallsRead'
  BY <1>1, <1>2 DEF CallsRead
<1>5. AllRead => AllRead'
  BY <1>1, <1>2 DEF AllRead
<1>6. NoReplyYet => NoReplyYet'
  BY <1>1 DEF NoReplyYet
<1>. QED BY <1>1, <1>2, <1>3, <1>4, <1>5, <1>6 DEF ReplyInv

LEMMA SameSaidInv == ASSUME SaidInv, UNCHANGED <<said, reply>>  PROVE SaidInv'
BY DEF SaidInv, Base, Indexes, Whole

\* What a script writes while no call is pending.
LEMMA WriteKeeps ==
  ASSUME LoopInv, NEW msg \in Messages, Write(msg)
  PROVE  LoopInv' /\ messages' = Append(messages, msg)
<1>1. messages' = Append(messages, msg) /\ UNCHANGED <<said, bodyVars, replyVars>>
  BY DEF Write
<1>2. UNCHANGED wire /\ UNCHANGED reply
  BY <1>1 DEF bodyVars, replyVars
<1>3. ReplyInv' /\ SaidInv'
  BY <1>1, <1>2, SameReplyInv, SameSaidInv DEF LoopInv
<1>4. messages' \in Seq(Messages)
  BY <1>1 DEF LoopInv
<1>. QED BY <1>1, <1>2, <1>3, <1>4 DEF LoopInv

\* The only step that changes the conversation adds a message of the script, or the
\* echo of a reply.
LEMMA Written ==
  ASSUME LoopInv, Say \/ Instruct \/ \E id \in CalledIds : Answer(id)
  PROVE  \E msg \in Messages : /\ Write(msg) /\ ~HasCalls(msg)
<1>0. NextText \in Nat /\ Forms \subseteq {"string", "parts"}
  BY LoopAssumption DEF NextText, LoopInv
<1>1. CASE Say
  <2>1. PICK form \in Forms : Write(UserMessage(NextText, form))
    BY <1>1 DEF Say
  <2>2. ~HasCalls(UserMessage(NextText, form))
    BY DEF HasCalls, UserMessage
  <2>. QED BY <1>0, <2>1, <2>2, WrittenAreMessages
<1>2. CASE Instruct
  <2>1. PICK form \in Forms : Write(SystemMessage(NextText, form))
    BY <1>2 DEF Instruct
  <2>2. ~HasCalls(SystemMessage(NextText, form))
    BY DEF HasCalls, SystemMessage
  <2>. QED BY <1>0, <2>1, <2>2, WrittenAreMessages
<1>3. ASSUME NEW id \in CalledIds, Answer(id)  PROVE \E msg \in Messages : Write(msg) /\ ~HasCalls(msg)
  <2>1. PICK k \in DOMAIN messages : id \in Called(messages[k])
    BY DEF CalledIds
  <2>2. messages[k] \in Messages /\ HasCalls(messages[k])
    BY <2>1 DEF LoopInv, Called
  <2>3. messages[k].calls \in Seq(ToolCalls)
    BY <2>2, MessageKinds
  <2>. DEFINE calls == messages[k].calls
  <2>4. PICK i \in DOMAIN calls : id = calls[i].id
    BY <2>1, <2>2 DEF Called
  <2>5. calls[i] \in ToolCalls
    BY <2>3
  <2>6. id \in Nat
    BY <2>4, <2>5 DEF ToolCalls
  <2>7. ~HasCalls(ToolMessage(id))
    BY DEF HasCalls, ToolMessage
  <2>. QED BY <1>3, <2>6, <2>7, WrittenAreMessages DEF Answer
<1>. QED BY <1>1, <1>2, <1>3

\* The steps that leave the conversation, and what was said, alone.
Quiet == Ask \/ Build \/ Post \/ Read \/ EmbedQuery \/ Over \/ UNCHANGED vars

LEMMA QuietKeeps == ASSUME LoopInv, Quiet  PROVE LoopInv' /\ UNCHANGED messages
<1>1. CASE Post
  BY <1>1, PostKeeps DEF Post
<1>2. CASE Read
  <2>1. UNCHANGED <<messages, said, wire>> /\ ReadStep(wire)
    BY <1>2 DEF Read, loopVars, bodyVars
  <2>2. UNCHANGED reply
    BY <2>1, ReadFrame
  <2>3. ReplyInv'
    BY <2>1, ReadKeeps DEF LoopInv
  <2>. QED BY <2>1, <2>2, <2>3, SameSaidInv DEF LoopInv
<1>3. CASE Ask \/ Build \/ EmbedQuery \/ Over \/ UNCHANGED vars
  <2>1. UNCHANGED <<messages, said, wire, replyVars>>
    <3>1. CASE Ask
      BY <3>1 DEF Ask
    <3>2. CASE Build
      BY <3>2 DEF Build, loopVars, BuildStep, RangeField, RefuseField, CloseAnthropic, CloseResponses,
                  CloseV4, UseBody
    <3>3. CASE EmbedQuery \/ Over \/ UNCHANGED vars
      BY <3>3 DEF EmbedQuery, Over, vars, loopVars, bodyVars
    <3>. QED BY <1>3, <3>1, <3>2, <3>3
  <2>2. UNCHANGED reply
    BY <2>1 DEF replyVars
  <2>. QED BY <2>1, <2>2, SameReplyInv, SameSaidInv DEF LoopInv
<1>. QED BY <1>1, <1>2, <1>3 DEF Quiet

LEMMA LoopKeeps == ASSUME LoopInv, [LoopNext]_vars  PROVE LoopInv'
<1>1. CASE Say \/ Instruct \/ \E id \in CalledIds : Answer(id)
  <2>1. PICK msg \in Messages : Write(msg)
    BY <1>1, Written
  <2>. QED BY <2>1, WriteKeeps
<1>. QED BY <1>1, EchoKeeps, QuietKeeps DEF LoopNext, Converse, Quiet

\* The conversation is well formed, and what was read of a reply is what there is of it.
LEMMA LoopAlways == LoopSpec => []LoopInv
<1>1. LoopInit => LoopInv
  BY LoopStarts
<1>2. LoopInv /\ [LoopNext]_vars => LoopInv'
  BY LoopKeeps
<1>. QED BY <1>1, <1>2, PTL DEF LoopSpec

LEMMA FaithfulReply == ASSUME LoopInv  PROVE ReplyFaithful
<1>1. ReplyInv /\ wire \in AllWires
  BY DEF LoopInv
<1>2. status = "complete" => AllRead
  BY <1>1 DEF ReplyInv
<1>3. status = "cut" => CallsRead
  BY <1>1 DEF ReplyInv
<1>4. WithinTotals(result.usage)
  <2>1. WithinTotals(UsageSoFar) /\ WithinTotals(ParseUnary(wire).usage)
    BY <1>1, UsageFacts DEF ReplyInv
  <2>2. status = "complete" => result.usage = ParseUnary(wire).usage
    BY <1>2 DEF AllRead
  <2>3. status # "complete" => result.usage = UsageSoFar
    BY <1>1 DEF ReplyInv
  <2>. QED BY <2>1, <2>2, <2>3
<1>. QED BY <1>2, <1>3, <1>4 DEF ReplyFaithful, AllRead, CallsRead, WithinTotals

\* A complete reply says what the model meant whether it was streamed or unary and in
\* whatever order its calls interleaved; a cut one holds nothing of another call, and no
\* count exceeds its total.
THEOREM RepliesAreFaithful == LoopSpec => []ReplyFaithful
BY LoopAlways, FaithfulReply, PTL

\* Every projection of a conversation, whatever the script and the providers put into it,
\* says the same.
THEOREM ProjectionsOfALoopAgree == LoopSpec => []ProjectionsAgree
<1>1. LoopInv => ProjectionsAgree
  <2>. SUFFICES ASSUME messages \in Seq(Messages)  PROVE ProjectionsAgree
    BY DEF LoopInv
  <2>. QED BY EveryListAgrees DEF ProjectionsAgree
<1>. QED BY <1>1, LoopAlways, PTL

-----------------------------------------------------------------------------
(* Each request repeats the one before.                                    *)

LEMMA PrefixFacts ==
  ASSUME NEW S, NEW a \in Seq(S)
  PROVE  /\ IsPrefix(a, a)
         /\ \A more \in Seq(S) : IsPrefix(a, a \o more)
         /\ \A x \in S : /\ IsPrefix(a, Append(a, x)) /\ Front(Append(a, x)) = a
                         /\ Last(Append(a, x)) = x /\ Append(a, x) # <<>>
                         /\ Len(Append(a, x)) = Len(a) + 1
<1>. DEFINE n == Len(a)
<1>1. n \in Nat /\ SubSeq(a, 1, n) = a
  BY CutShort
<1>2. ASSUME NEW b \in Seq(S), n <= Len(b), \A k \in 1..n : b[k] = a[k]
      PROVE  SubSeq(b, 1, n) = a
  <2>1. n \in 0..Len(b)
    BY <1>1, <1>2
  <2>. DEFINE c == SubSeq(b, 1, n)
  <2>2. c \in Seq(S) /\ Len(c) = n /\ \A k \in 1..n : c[k] = b[k]
    BY <2>1, CutShort
  <2>. HIDE DEF c
  <2>3. c = a
    BY <1>2, <2>2, SeqEqual
  <2>. QED BY <2>3 DEF c
<1>3. ASSUME NEW more \in Seq(S)  PROVE IsPrefix(a, a \o more)
  <2>. DEFINE b == a \o more
  <2>1. b \in Seq(S) /\ n <= Len(b) /\ \A k \in 1..n : b[k] = a[k]
    OBVIOUS
  <2>. HIDE DEF b, n
  <2>2. SubSeq(b, 1, n) = a
    BY <1>2, <2>1
  <2>. QED BY <1>1, <2>1, <2>2 DEF IsPrefix, b, n
<1>4. ASSUME NEW x \in S
      PROVE  /\ IsPrefix(a, Append(a, x)) /\ Front(Append(a, x)) = a
             /\ Last(Append(a, x)) = x /\ Append(a, x) # <<>> /\ Len(Append(a, x)) = n + 1
  <2>. DEFINE b == Append(a, x)
  <2>1. b \in Seq(S) /\ Len(b) = n + 1 /\ b[n + 1] = x /\ b # <<>> /\ \A k \in 1..n : b[k] = a[k]
    OBVIOUS
  <2>2. n <= Len(b) /\ Len(b) - 1 = n
    BY <1>1, <2>1
  <2>. HIDE DEF b, n
  <2>3. SubSeq(b, 1, n) = a
    BY <1>2, <2>1, <2>2
  <2>. QED BY <1>1, <2>1, <2>2, <2>3 DEF IsPrefix, Front, Last, b, n
<1>5. IsPrefix(a, a)
  BY <1>1 DEF IsPrefix
<1>. QED BY <1>3, <1>4, <1>5

\* A turn of results says which.
LEMMA ResultsOfTurn ==
  ASSUME NEW p \in Seq(ResultBlocks), NEW role
  PROVE  /\ ResultsOf(Turn(role, p)) = {p[k].id : k \in DOMAIN p}
         /\ p # <<>> => ResultsOf(Turn(role, p)) # {}
<1>1. "content" \in DOMAIN Turn(role, p) /\ Turn(role, p).content = p
  BY TurnFacts
<1>2. \A k \in DOMAIN p : p[k] \in ResultBlocks /\ p[k].type = "tool_result"
  <2>1. ASSUME NEW k \in DOMAIN p  PROVE p[k] \in ResultBlocks
    OBVIOUS
  <2>. QED BY <2>1 DEF ResultBlocks
<1>3. {j \in DOMAIN p : p[j].type = "tool_result"} = DOMAIN p
  BY <1>2
<1>4. ResultsOf(Turn(role, p)) = {p[k].id : k \in DOMAIN p}
  BY <1>1, <1>3 DEF ResultsOf
<1>5. p # <<>> => 1 \in DOMAIN p
  OBVIOUS
<1>. QED BY <1>4, <1>5

\* The two ways the turns of a list may grow.
LEMMA TurnsMayGrow ==
  ASSUME NEW o \in Seq(Turns)
  PROVE  /\ ExtendsTurns(o, o)
         /\ \A turn \in Turns : ExtendsTurns(o, Append(o, turn))
         /\ \A a, b \in Turns : ResultsOf(a) # {} /\ IsPrefix(a.content, b.content) =>
              ExtendsTurns(Append(o, a), Append(o, b))
<1>1. IsPrefix(o, o)
  BY PrefixFacts
<1>2. ASSUME NEW turn \in Turns
      PROVE  /\ IsPrefix(o, Append(o, turn)) /\ Append(o, turn) # <<>> /\ Front(Append(o, turn)) = o
             /\ Last(Append(o, turn)) = turn /\ Len(Append(o, turn)) = Len(o) + 1
  BY PrefixFacts
<1>3. ASSUME NEW a \in Turns, NEW b \in Turns, ResultsOf(a) # {}, IsPrefix(a.content, b.content)
      PROVE  ExtendsTurns(Append(o, a), Append(o, b))
  <2>. DEFINE c == Append(o, a)  d == Append(o, b)
  <2>1. c # <<>> /\ Front(c) = o /\ Last(c) = a /\ Last(d) = b /\ IsPrefix(o, d) /\ Len(d) = Len(c)
    BY <1>2
  <2>. HIDE DEF c, d
  <2>2. ExtendsTurns(c, d)
    BY <1>3, <2>1 DEF ExtendsTurns
  <2>. QED BY <2>2 DEF c, d
<1>4. ASSUME NEW turn \in Turns  PROVE ExtendsTurns(o, Append(o, turn))
  <2>. DEFINE d == Append(o, turn)
  <2>1. IsPrefix(o, d)
    BY <1>2
  <2>. HIDE DEF d
  <2>2. ExtendsTurns(o, d)
    BY <2>1 DEF ExtendsTurns
  <2>. QED BY <2>2 DEF d
<1>. QED BY <1>1, <1>3, <1>4 DEF ExtendsTurns

\* One message more extends the turns, or the last group of results.
LEMMA TurnsExtend ==
  ASSUME NEW t \in TStates, NEW msg \in Messages
  PROVE  ExtendsTurns(Flushed(t), Flushed(TranslateMessage(t, msg)))
<1>. DEFINE u == TranslateMessage(t, msg)
<1>. SUFFICES ExtendsTurns(Flushed(t), Flushed(u))
  OBVIOUS
<1>1. /\ u \in TStates
      /\ msg.role = "system" => u.out = Flushed(t) /\ u.pending = <<>>
      /\ msg.role = "tool" => u.out = t.out /\ u.pending = Append(t.pending, ResultBlock(msg))
      /\ HasCalls(msg) => u.out = Append(Flushed(t), CallingTurn(msg)) /\ u.pending = <<>>
      /\ msg.role \in {"user", "assistant"} /\ ~HasCalls(msg) =>
           u.out = Append(Flushed(t), msg) /\ u.pending = <<>>
  BY TranslateFacts
<1>. HIDE DEF u
<1>2. /\ Flushed(t) \in Seq(Turns)
      /\ t.pending = <<>> => Flushed(t) = t.out
      /\ t.pending # <<>> => /\ Flushed(t) = Append(t.out, Turn("user", t.pending))
                             /\ Turn("user", t.pending) \in Turns
  BY FlushFacts
<1>3. /\ u.pending = <<>> => Flushed(u) = u.out
      /\ u.pending # <<>> => /\ Flushed(u) = Append(u.out, Turn("user", u.pending))
                             /\ Turn("user", u.pending) \in Turns
  BY <1>1, FlushFacts
<1>4. /\ msg.role \in {"system", "user", "assistant", "tool"}
      /\ HasCalls(msg) => msg.role = "assistant" /\ CallingTurn(msg) \in Turns
      /\ msg.role \in {"user", "assistant"} /\ ~HasCalls(msg) => msg \in Turns
  BY MessageKinds, CallingTurnFacts, PassedOn
<1>5. CASE msg.role = "system"
  <2>1. Flushed(u) = Flushed(t)
    BY <1>1, <1>3, <1>5
  <2>. QED BY <1>2, <2>1, TurnsMayGrow
<1>6. CASE msg.role \in {"user", "assistant"}
  <2>1. \E turn \in Turns : Flushed(u) = Append(Flushed(t), turn)
    BY <1>1, <1>3, <1>4, <1>6
  <2>. QED BY <1>2, <2>1, TurnsMayGrow
<1>7. CASE msg.role = "tool"
  <2>. DEFINE o == t.out  p == t.pending  q == Append(p, ResultBlock(msg))
  <2>1. o \in Seq(Turns) /\ p \in Seq(ResultBlocks)
    BY DEF TStates
  <2>2. ResultBlock(msg) \in ResultBlocks
    <3>1. msg.id \in Nat
      BY <1>7, MessageKinds
    <3>. QED BY <3>1 DEF ResultBlock, ResultBlocks
  <2>3. q \in Seq(ResultBlocks) /\ q # <<>> /\ IsPrefix(p, q)
    BY <2>1, <2>2, PrefixFacts
  <2>4. Flushed(u) = Append(o, Turn("user", q)) /\ Turn("user", q) \in Turns
    BY <1>1, <1>3, <1>7, <2>3
  <2>. HIDE DEF o, q
  <2>5. CASE p = <<>>
    BY <1>2, <2>1, <2>4, <2>5, TurnsMayGrow DEF o
  <2>6. CASE p # <<>>
    <3>. DEFINE a == Turn("user", p)  b == Turn("user", q)
    <3>1. Flushed(t) = Append(o, a) /\ a \in Turns /\ b \in Turns /\ Flushed(u) = Append(o, b)
      BY <1>2, <2>4, <2>6 DEF o
    <3>2. ResultsOf(a) # {} /\ a.content = p /\ b.content = q
      BY <2>1, <2>6, ResultsOfTurn, TurnFacts
    <3>. HIDE DEF a, b, p
    <3>. QED BY <2>1, <2>3, <3>1, <3>2, TurnsMayGrow
  <2>. QED BY <2>5, <2>6
<1>. QED BY <1>4, <1>5, <1>6, <1>7

\* What PrefixStable says, of any list a script can write and any message it appends.
THEOREM EveryAppendExtends ==
  ASSUME NEW list \in Seq(Messages), NEW msg \in Messages, NEW later, later = Append(list, msg)
  PROVE  /\ ExtendsTurns(TranslateMessages(list).out, TranslateMessages(later).out)
         /\ IsPrefix(ResponsesInput(list).input, ResponsesInput(later).input)
         /\ IsPrefix(PromptMessages(list), PromptMessages(later))
         /\ Last(later).role # "system" =>
              /\ TranslateMessages(later).system = TranslateMessages(list).system
              /\ ResponsesInput(later).instructions = ResponsesInput(list).instructions
<1>1. later \in Seq(Messages) /\ Last(later) = msg
  BY PrefixFacts
<1>. DEFINE t == Translated(list)  u == Translated(later)
<1>2. t \in TStates /\ u = TranslateMessage(t, msg)
  BY TranslatedFacts
<1>3. /\ TranslateMessages(list).out = Flushed(t) /\ TranslateMessages(later).out = Flushed(u)
      /\ TranslateMessages(list).system = t.parts \o t.blocks
      /\ TranslateMessages(later).system = u.parts \o u.blocks
  BY <1>1, RequestOf
<1>4. msg.role # "system" => u.parts = t.parts /\ u.blocks = t.blocks
  BY <1>2, TranslateFacts
<1>5. ExtendsTurns(Flushed(t), Flushed(u))
  BY <1>2, TurnsExtend
<1>6. /\ IsPrefix(ResponsesInput(list).input, ResponsesInput(later).input)
      /\ msg.role # "system" => ResponsesInput(later).instructions = ResponsesInput(list).instructions
  <2>. DEFINE v == ResponsesInput(list)  w == ResponsesInput(later)
  <2>1. v \in Inputs /\ w = InputItem(v, msg)
    BY ResponsesInputFacts
  <2>. HIDE DEF v, w
  <2>2. /\ \E more \in Seq(Items) : w.input = v.input \o more
        /\ w.instructions = IF msg.role = "system" /\ msg.form = "string"
                            THEN Append(v.instructions, msg.text) ELSE v.instructions
    BY <2>1, InputFacts, ZenonT(60)
  <2>3. v.input \in Seq(Items)
    BY <2>1 DEF Inputs
  <2>4. IsPrefix(v.input, w.input)
    BY <2>2, <2>3, PrefixFacts
  <2>. QED BY <2>2, <2>4 DEF v, w
<1>7. IsPrefix(PromptMessages(list), PromptMessages(later))
  <2>. DEFINE v == PromptMessages(list)  w == PromptMessages(later)
  <2>1. v \in Seq(RecordTurns) /\ w = AppendPrompt(v, msg)
    BY PromptMessagesFacts
  <2>. HIDE DEF v, w
  <2>2. \E more \in Seq(RecordTurns) : w = v \o more
    BY <2>1, AppendPromptFacts
  <2>3. IsPrefix(v, w)
    BY <2>1, <2>2, PrefixFacts
  <2>. QED BY <2>3 DEF v, w
<1>. HIDE DEF t, u
<1>. QED BY <1>1, <1>3, <1>4, <1>5, <1>6, <1>7

\* What a step does to the conversation.
LEMMA MessagesGrow ==
  ASSUME LoopInv, [LoopNext]_vars, messages' # messages
  PROVE  \E msg \in Messages : messages' = Append(messages, msg)
<1>1. CASE Say \/ Instruct \/ \E id \in CalledIds : Answer(id)
  <2>1. PICK msg \in Messages : Write(msg)
    BY <1>1, Written
  <2>. QED BY <2>1 DEF Write
<1>2. CASE Echo
  BY <1>2, EchoFacts
<1>3. CASE Quiet
  BY <1>3, QuietKeeps
<1>. QED BY <1>1, <1>2, <1>3 DEF LoopNext, Converse, Quiet

\* Each request of a conversation repeats the one before and adds to its end, whoever
\* appended the message and whatever came before it.
THEOREM RequestsExtend == LoopSpec => PrefixStable
<1>1. LoopInv /\ [LoopNext]_vars =>
        [messages' # messages =>
       /\ ExtendsTurns(TranslateMessages(messages).out, TranslateMessages(messages').out)
       /\ IsPrefix(ResponsesInput(messages).input, ResponsesInput(messages').input)
       /\ IsPrefix(PromptMessages(messages), PromptMessages(messages'))
       /\ Last(messages').role # "system" =>
            /\ TranslateMessages(messages').system = TranslateMessages(messages).system
            /\ ResponsesInput(messages').instructions = ResponsesInput(messages).instructions
        ]_vars
  <2>. SUFFICES ASSUME LoopInv, [LoopNext]_vars, messages' # messages
                PROVE  /\ ExtendsTurns(TranslateMessages(messages).out, TranslateMessages(messages').out)
                       /\ IsPrefix(ResponsesInput(messages).input, ResponsesInput(messages').input)
                       /\ IsPrefix(PromptMessages(messages), PromptMessages(messages'))
                       /\ Last(messages').role # "system" =>
                            /\ TranslateMessages(messages').system = TranslateMessages(messages).system
                            /\ ResponsesInput(messages').instructions = ResponsesInput(messages).instructions
    OBVIOUS
  <2>1. PICK msg \in Messages : messages' = Append(messages, msg)
    BY MessagesGrow
  <2>2. messages \in Seq(Messages)
    BY DEF LoopInv
  <2>. QED BY <2>1, <2>2, EveryAppendExtends
<1>. QED BY <1>1, LoopAlways, PTL DEF LoopSpec, PrefixStable

-----------------------------------------------------------------------------
(* The calls a request repeats.                                            *)

Picking == INSTANCE FoldFacts WITH Op <- PickUse
UseCollection == INSTANCE FoldFacts WITH Op <- CollectUses

\* The calls of a message, and of a list.
CallsOf(msg) == IF HasCalls(msg) THEN msg.calls ELSE <<>>
CollectCalls(t, msg) == t \o CallsOf(msg)
CallsIn(list) == FoldLeft(CollectCalls, <<>>, list)

CallCollection == INSTANCE FoldFacts WITH Op <- CollectCalls

\* The tool_use blocks among blocks.
Picked(blocks) == FoldLeft(PickUse, <<>>, blocks)
OtherBlocks == [type: {"text"}, text: Nat] \cup ResultBlocks

LEMMA PickedIsFold == ASSUME NEW blocks  PROVE Picked(blocks) = Picking!Fold(<<>>, blocks)
BY DEF Picked, FoldLeft, MapThenFoldSet, Max,
       Picking!Fold, Picking!Top

LEMMA PickedFacts ==
  /\ Picked(<<>>) = <<>>
  /\ \A blocks \in Seq(Blocks) : Picked(blocks) \in Seq(UseBlocks)
  /\ \A blocks \in Seq(Blocks), block \in Blocks :
       Picked(Append(blocks, block)) = PickUse(Picked(blocks), block)
<1>1. Picked(<<>>) = <<>>
  BY PickedIsFold, Picking!FoldOfNone
<1>2. ASSUME NEW blocks \in Seq(Blocks)  PROVE Picked(blocks) \in Seq(UseBlocks)
  <2>. DEFINE e == <<>>  T == Seq(UseBlocks)
  <2>1. e \in T
    OBVIOUS
  <2>2. ASSUME NEW t \in T, NEW x \in Blocks  PROVE PickUse(t, x) \in T
    <3>1. x.type = "tool_use" => x \in UseBlocks
      BY DEF Blocks, ResultBlocks
    <3>2. x \in UseBlocks => Append(t, x) \in T
      OBVIOUS
    <3>. HIDE DEF T
    <3>. QED BY <3>1, <3>2 DEF PickUse
  <2>. HIDE DEF e, T
  <2>3. Picking!Fold(e, blocks) \in T
    BY <2>1, <2>2, Picking!FoldKeeps
  <2>. QED BY <2>3, PickedIsFold DEF e, T
<1>3. ASSUME NEW blocks \in Seq(Blocks), NEW block \in Blocks
      PROVE  Picked(Append(blocks, block)) = PickUse(Picked(blocks), block)
  <2>1. Picking!Fold(<<>>, Append(blocks, block)) = PickUse(Picking!Fold(<<>>, blocks), block)
    BY Picking!FoldOfOneMore
  <2>. QED BY <2>1, PickedIsFold
<1>. QED BY <1>1, <1>2, <1>3

\* Among texts and results there is no call; what follows them is picked, all of it.
LEMMA NothingPicked == ASSUME NEW blocks \in Seq(OtherBlocks)  PROVE Picked(blocks) = <<>>
<1>. DEFINE G == {b \in Seq(OtherBlocks) : Picked(b) = <<>>}
<1>1. <<>> \in G
  BY PickedFacts
<1>2. ASSUME NEW b \in Seq(OtherBlocks), NEW x \in OtherBlocks, b \in G  PROVE Append(b, x) \in G
  <2>1. x \in Blocks /\ x.type # "tool_use"
    BY DEF OtherBlocks, Blocks, ResultBlocks
  <2>2. b \in Seq(Blocks) /\ Append(b, x) \in Seq(OtherBlocks)
    <3>1. OtherBlocks \subseteq Blocks
      BY DEF OtherBlocks, Blocks
    <3>2. b \in Seq(Blocks)
      BY <3>1, SeqMonotonic
    <3>3. Append(b, x) \in Seq(OtherBlocks)
      OBVIOUS
    <3>. QED BY <3>2, <3>3
  <2>3. Picked(Append(b, x)) = PickUse(Picked(b), x)
    BY <2>1, <2>2, PickedFacts
  <2>. QED BY <1>2, <2>1, <2>2, <2>3 DEF PickUse
<1>. HIDE DEF G
<1>3. blocks \in G
  BY <1>1, <1>2, Picking!ListInduction
<1>. QED BY <1>3 DEF G

LEMMA PickedAll ==
  ASSUME NEW blocks \in Seq(OtherBlocks), NEW uses \in Seq(UseBlocks)
  PROVE  Picked(blocks \o uses) = uses
<1>0. OtherBlocks \subseteq Blocks /\ UseBlocks \subseteq Blocks
  BY DEF OtherBlocks, Blocks
<1>1. blocks \in Seq(Blocks)
  BY <1>0, SeqMonotonic
<1>. DEFINE G == {u \in Seq(UseBlocks) : Picked(blocks \o u) = u}
<1>2. <<>> \in G
  <2>1. blocks \o <<>> = blocks
    BY <1>1
  <2>. QED BY <2>1, NothingPicked
<1>3. ASSUME NEW u \in Seq(UseBlocks), NEW x \in UseBlocks, u \in G  PROVE Append(u, x) \in G
  <2>1. u \in Seq(Blocks) /\ x \in Blocks /\ x.type = "tool_use"
    <3>1. u \in Seq(Blocks)
      BY <1>0, SeqMonotonic
    <3>2. x.type = "tool_use"
      BY DEF UseBlocks
    <3>. QED BY <1>0, <3>1, <3>2
  <2>2. blocks \o u \in Seq(Blocks) /\ blocks \o Append(u, x) = Append(blocks \o u, x)
    BY <1>1, <2>1
  <2>3. Picked(Append(blocks \o u, x)) = PickUse(Picked(blocks \o u), x)
    BY <2>1, <2>2, PickedFacts
  <2>4. Append(u, x) \in Seq(UseBlocks)
    OBVIOUS
  <2>. QED BY <1>3, <2>1, <2>2, <2>3, <2>4 DEF PickUse
<1>. HIDE DEF G
<1>4. uses \in G
  BY <1>2, <1>3, Picking!ListInduction
<1>. QED BY <1>4 DEF G

\* The calls of each kind of turn.
LEMMA UsesOfFacts ==
  /\ \A turn \in Turns : UsesOf(turn) \in Seq(UseBlocks)
  /\ \A p \in Seq(ResultBlocks) : UsesOf(Turn("user", p)) = <<>>
  /\ \A msg \in UserMessages \cup PlainMessages : UsesOf(msg) = <<>>
  /\ \A msg \in Messages : HasCalls(msg) => UsesOf(CallingTurn(msg)) = UseBlocksOf(msg.calls)
<1>1. ASSUME NEW turn \in Turns  PROVE UsesOf(turn) \in Seq(UseBlocks)
  <2>1. CASE "content" \in DOMAIN turn
    <3>1. turn.content \in Seq(Blocks)
      <4>. DEFINE T == Seq(Blocks)
      <4>. HIDE DEF T
      <4>1. turn \in [role: {"user", "assistant"}, content: T] \/ turn \in UserMessages \cup PlainMessages
        BY DEF Turns, T
      <4>2. turn \notin UserMessages \cup PlainMessages
        BY <2>1, PassedOn
      <4>3. turn.content \in T
        BY <4>1, <4>2
      <4>. QED BY <4>3 DEF T
    <3>2. UsesOf(turn) = Picked(turn.content)
      BY <2>1 DEF UsesOf, Picked
    <3>. QED BY <3>1, <3>2, PickedFacts
  <2>2. CASE "content" \notin DOMAIN turn
    BY <2>2 DEF UsesOf
  <2>. QED BY <2>1, <2>2
<1>2. ASSUME NEW p \in Seq(ResultBlocks)  PROVE UsesOf(Turn("user", p)) = <<>>
  <2>1. p \in Seq(OtherBlocks)
    <3>1. ResultBlocks \subseteq OtherBlocks
      BY DEF OtherBlocks
    <3>. QED BY <3>1, SeqMonotonic
  <2>2. UsesOf(Turn("user", p)) = Picked(p)
    BY TurnFacts DEF UsesOf, Picked
  <2>. QED BY <2>1, <2>2, NothingPicked
<1>3. ASSUME NEW msg \in UserMessages \cup PlainMessages  PROVE UsesOf(msg) = <<>>
  BY PassedOn DEF UsesOf
<1>4. ASSUME NEW msg \in Messages, HasCalls(msg)  PROVE UsesOf(CallingTurn(msg)) = UseBlocksOf(msg.calls)
  <2>. DEFINE a == TextBlocks(msg.text)  b == UseBlocksOf(msg.calls)
  <2>1. msg.text \in Nat /\ msg.calls \in Seq(ToolCalls)
    BY <1>4, MessageKinds
  <2>2. b \in Seq(UseBlocks)
    BY <2>1, UseBlocksFacts
  <2>3. a \in Seq(OtherBlocks)
    <3>. DEFINE x == [type |-> "text", text |-> msg.text]
    <3>1. a = <<>> \/ a = <<x>>
      BY DEF TextBlocks
    <3>2. x \in OtherBlocks
      BY <2>1 DEF OtherBlocks
    <3>. HIDE DEF a, x
    <3>3. <<x>> \in Seq(OtherBlocks) /\ <<>> \in Seq(OtherBlocks)
      BY <3>2
    <3>. QED BY <3>1, <3>3
  <2>4. UsesOf(CallingTurn(msg)) = Picked(a \o b)
    BY TurnFacts DEF UsesOf, Picked, CallingTurn
  <2>. HIDE DEF a, b
  <2>5. Picked(a \o b) = b
    BY <2>2, <2>3, PickedAll
  <2>. QED BY <2>4, <2>5 DEF b
<1>. QED BY <1>1, <1>2, <1>3, <1>4

LEMMA UsesIsFold == ASSUME NEW turns  PROVE Uses(turns) = UseCollection!Fold(<<>>, turns)
BY DEF Uses, FoldLeft, MapThenFoldSet, Max,
       UseCollection!Fold, UseCollection!Top

LEMMA UsesFacts ==
  /\ Uses(<<>>) = <<>>
  /\ \A turns \in Seq(Turns) : Uses(turns) \in Seq(UseBlocks)
  /\ \A turns \in Seq(Turns), turn \in Turns : Uses(Append(turns, turn)) = Uses(turns) \o UsesOf(turn)
<1>1. Uses(<<>>) = <<>>
  BY UsesIsFold, UseCollection!FoldOfNone
<1>2. ASSUME NEW turns \in Seq(Turns)  PROVE Uses(turns) \in Seq(UseBlocks)
  <2>. DEFINE e == <<>>  T == Seq(UseBlocks)
  <2>1. e \in T
    OBVIOUS
  <2>2. ASSUME NEW t \in T, NEW x \in Turns  PROVE CollectUses(t, x) \in T
    <3>1. UsesOf(x) \in T
      BY UsesOfFacts
    <3>. QED BY <3>1, ConcatProperties DEF CollectUses
  <2>. HIDE DEF e, T
  <2>3. UseCollection!Fold(e, turns) \in T
    BY <2>1, <2>2, UseCollection!FoldKeeps
  <2>. QED BY <2>3, UsesIsFold DEF e, T
<1>3. ASSUME NEW turns \in Seq(Turns), NEW turn \in Turns
      PROVE  Uses(Append(turns, turn)) = Uses(turns) \o UsesOf(turn)
  <2>1. UseCollection!Fold(<<>>, Append(turns, turn)) = CollectUses(UseCollection!Fold(<<>>, turns), turn)
    BY UseCollection!FoldOfOneMore
  <2>. QED BY <2>1, UsesIsFold DEF CollectUses
<1>. QED BY <1>1, <1>2, <1>3

LEMMA CallsInIsFold == ASSUME NEW list  PROVE CallsIn(list) = CallCollection!Fold(<<>>, list)
BY DEF CallsIn, FoldLeft, MapThenFoldSet, Max,
       CallCollection!Fold, CallCollection!Top

LEMMA CallsOfType == ASSUME NEW msg \in Messages  PROVE CallsOf(msg) \in Seq(ToolCalls)
BY MessageKinds DEF CallsOf

LEMMA CallsInFacts ==
  /\ CallsIn(<<>>) = <<>>
  /\ \A list \in Seq(Messages) : CallsIn(list) \in Seq(ToolCalls)
  /\ \A list \in Seq(Messages), msg \in Messages :
       CallsIn(Append(list, msg)) = CallsIn(list) \o CallsOf(msg)
<1>1. CallsIn(<<>>) = <<>>
  BY CallsInIsFold, CallCollection!FoldOfNone
<1>2. ASSUME NEW list \in Seq(Messages)  PROVE CallsIn(list) \in Seq(ToolCalls)
  <2>. DEFINE e == <<>>  T == Seq(ToolCalls)
  <2>1. e \in T
    OBVIOUS
  <2>2. ASSUME NEW t \in T, NEW x \in Messages  PROVE CollectCalls(t, x) \in T
    BY CallsOfType, ConcatProperties DEF CollectCalls
  <2>. HIDE DEF e, T
  <2>3. CallCollection!Fold(e, list) \in T
    BY <2>1, <2>2, CallCollection!FoldKeeps
  <2>. QED BY <2>3, CallsInIsFold DEF e, T
<1>3. ASSUME NEW list \in Seq(Messages), NEW msg \in Messages
      PROVE  CallsIn(Append(list, msg)) = CallsIn(list) \o CallsOf(msg)
  <2>1. CallCollection!Fold(<<>>, Append(list, msg)) = CollectCalls(CallCollection!Fold(<<>>, list), msg)
    BY CallCollection!FoldOfOneMore
  <2>. QED BY <2>1, CallsInIsFold DEF CollectCalls
<1>. QED BY <1>1, <1>2, <1>3

LEMMA UseBlocksConcat ==
  ASSUME NEW a \in Seq(ToolCalls), NEW b \in Seq(ToolCalls)
  PROVE  UseBlocksOf(a \o b) = UseBlocksOf(a) \o UseBlocksOf(b)
<1>. DEFINE c == a \o b  L == UseBlocksOf(c)  p == UseBlocksOf(a)  q == UseBlocksOf(b)  R == p \o q
            m == Len(a)  n == Len(b)
<1>1. c \in Seq(ToolCalls) /\ Len(c) = m + n /\ m \in Nat /\ n \in Nat
      /\ \A i \in 1..(m + n) : c[i] = IF i <= m THEN a[i] ELSE b[i - m]
  OBVIOUS
<1>2. /\ L \in Seq(UseBlocks) /\ p \in Seq(UseBlocks) /\ q \in Seq(UseBlocks)
      /\ Len(L) = m + n /\ Len(p) = m /\ Len(q) = n
      /\ \A i \in 1..(m + n) : L[i] = UseBlock(c[i])
      /\ \A i \in 1..m : p[i] = UseBlock(a[i])
      /\ \A i \in 1..n : q[i] = UseBlock(b[i])
  <2>. HIDE DEF c
  <2>. QED BY <1>1, UseBlocksFacts
<1>. HIDE DEF c, L, p, q
<1>3. R \in Seq(UseBlocks) /\ Len(R) = m + n
      /\ \A i \in 1..(m + n) : R[i] = IF i <= m THEN p[i] ELSE q[i - m]
  <2>1. p \in Seq(UseBlocks) /\ q \in Seq(UseBlocks) /\ Len(p) = m /\ Len(q) = n
    BY <1>2
  <2>2. R = p \o q /\ m \in Nat /\ n \in Nat
    BY <1>1
  <2>. HIDE DEF m, n, R
  <2>3. /\ p \o q \in Seq(UseBlocks) /\ Len(p \o q) = Len(p) + Len(q)
        /\ \A i \in 1..(Len(p) + Len(q)) : (p \o q)[i] = IF i <= Len(p) THEN p[i] ELSE q[i - Len(p)]
    BY <2>1, ConcatProperties
  <2>. QED BY <2>1, <2>2, <2>3
<1>. HIDE DEF R, m, n
<1>4. ASSUME NEW i \in 1..(m + n)  PROVE L[i] = R[i]
  <2>1. CASE i <= m
    <3>1. i \in 1..m
      BY <1>1, <2>1
    <3>. QED BY <1>1, <1>2, <1>3, <2>1, <3>1
  <2>2. CASE ~(i <= m)
    <3>1. i - m \in 1..n
      BY <1>1, <2>2
    <3>. QED BY <1>1, <1>2, <1>3, <2>2, <3>1, ZenonT(60)
  <2>. QED BY <2>1, <2>2
<1>5. L = R
  BY <1>2, <1>3, <1>4, SeqEqual
<1>. QED BY <1>5 DEF L, R, c, p, q

\* The calls a request repeats are those of its messages, each with the input its
\* arguments are.
LEMMA UsesOfList ==
  ASSUME NEW list \in Seq(Messages)
  PROVE  Uses(TranslateMessages(list).out) = UseBlocksOf(CallsIn(list))
<1>. DEFINE G == {l \in Seq(Messages) : Uses(Translated(l).out) = UseBlocksOf(CallsIn(l))}
<1>0. ASSUME NEW t \in TStates  PROVE Uses(Flushed(t)) = Uses(t.out) /\ t.out \in Seq(Turns)
  <2>1. t.out \in Seq(Turns) /\ t.pending \in Seq(ResultBlocks)
    BY DEF TStates
  <2>2. CASE t.pending = <<>>
    BY <2>1, <2>2, FlushFacts
  <2>3. CASE t.pending # <<>>
    <3>. DEFINE turn == Turn("user", t.pending)  o == t.out
    <3>1. Flushed(t) = Append(o, turn) /\ turn \in Turns /\ UsesOf(turn) = <<>>
      BY <2>1, <2>3, FlushFacts, UsesOfFacts
    <3>. HIDE DEF turn
    <3>2. Uses(Append(o, turn)) = Uses(o) \o <<>> /\ Uses(o) \in Seq(UseBlocks)
      BY <2>1, <3>1, UsesFacts
    <3>3. Uses(o) \o <<>> = Uses(o)
      BY <3>2
    <3>. QED BY <2>1, <3>1, <3>2, <3>3
  <2>. QED BY <2>2, <2>3
<1>1. <<>> \in G
  BY TranslatedFacts, UsesFacts, CallsInFacts DEF NothingTranslated, UseBlocksOf
<1>2. ASSUME NEW l \in Seq(Messages), NEW msg \in Messages, l \in G
      PROVE  Append(l, msg) \in G
  <2>. DEFINE t == Translated(l)  u == Translated(Append(l, msg))
  <2>1. t \in TStates /\ u = TranslateMessage(t, msg)
    BY TranslatedFacts
  <2>2. Uses(u.out) = Uses(t.out) \o UseBlocksOf(CallsOf(msg))
    <3>. HIDE DEF t, u
    <3>1. /\ msg.role = "system" => u.out = Flushed(t)
          /\ msg.role = "tool" => u.out = t.out
          /\ HasCalls(msg) => u.out = Append(Flushed(t), CallingTurn(msg))
          /\ msg.role \in {"user", "assistant"} /\ ~HasCalls(msg) => u.out = Append(Flushed(t), msg)
      BY <2>1, TranslateFacts
    <3>2. /\ msg.role \in {"system", "user", "assistant", "tool"}
          /\ HasCalls(msg) => msg.role = "assistant"
          /\ msg.role \in {"user", "assistant"} /\ ~HasCalls(msg) => msg \in UserMessages \cup PlainMessages
      BY MessageKinds
    <3>3. /\ Uses(Flushed(t)) = Uses(t.out) /\ Uses(t.out) \in Seq(UseBlocks)
          /\ Flushed(t) \in Seq(Turns)
      BY <1>0, <2>1, FlushFacts, UsesFacts
    <3>4. Uses(t.out) \o <<>> = Uses(t.out) /\ UseBlocksOf(<<>>) = <<>>
      BY <3>3 DEF UseBlocksOf
    <3>5. CASE msg.role \in {"system", "tool"}
      BY <3>1, <3>2, <3>3, <3>4, <3>5 DEF CallsOf
    <3>6. CASE HasCalls(msg)
      <4>1. CallingTurn(msg) \in Turns /\ UsesOf(CallingTurn(msg)) = UseBlocksOf(msg.calls)
        BY <3>6, CallingTurnFacts, UsesOfFacts
      <4>. QED BY <3>1, <3>3, <3>6, <4>1, UsesFacts DEF CallsOf
    <3>7. CASE msg.role \in {"user", "assistant"} /\ ~HasCalls(msg)
      <4>1. msg \in Turns /\ UsesOf(msg) = <<>>
        BY <3>2, <3>7, PassedOn, UsesOfFacts
      <4>. QED BY <3>1, <3>3, <3>4, <3>7, <4>1, UsesFacts DEF CallsOf
    <3>. QED BY <3>2, <3>5, <3>6, <3>7
  <2>3. CallsIn(Append(l, msg)) = CallsIn(l) \o CallsOf(msg)
    BY CallsInFacts
  <2>4. UseBlocksOf(CallsIn(l) \o CallsOf(msg)) = UseBlocksOf(CallsIn(l)) \o UseBlocksOf(CallsOf(msg))
    BY CallsInFacts, CallsOfType, UseBlocksConcat
  <2>5. Append(l, msg) \in Seq(Messages)
    OBVIOUS
  <2>. QED BY <1>2, <2>2, <2>3, <2>4, <2>5
<1>. HIDE DEF G
<1>3. list \in G
  BY <1>1, <1>2, Translation!ListInduction
<1>. QED BY <1>0, <1>3, RequestOf, TranslatedFacts DEF G

\* What a conversation carries of a call the model made.
CarriedOver(call, meant) ==
  \/ DecodeToolArguments(call.args) = DecodeToolArguments(meant.args)
  \/ meant.cut /\ DecodeToolArguments(call.args) = EmptyObject

\* The calls of a list are those said up to base, in their order, but for what a cut took.
Carried(calls, base, meant) ==
  /\ \A k \in DOMAIN calls : calls[k].id \in 1..base /\ CarriedOver(calls[k], meant[calls[k].id])
  /\ \A k, l \in DOMAIN calls : k < l => calls[k].id < calls[l].id
  /\ \A i \in 1..base : meant[i].cut \/ \E k \in DOMAIN calls : calls[k].id = i

RoundInv == Carried(CallsIn(messages), Base, said)

\* More may be said, or known to be cut, without harm to what was carried over.
LEMMA CarriedKeeps ==
  ASSUME NEW calls, NEW base, NEW meant, NEW later, Carried(calls, base, meant),
         \A i \in 1..base : later[i].args = meant[i].args /\ (meant[i].cut => later[i].cut)
  PROVE  Carried(calls, base, later)
BY DEF Carried, CarriedOver

\* The calls of one more reply.
LEMMA CarriedMore ==
  ASSUME NEW calls \in Seq(ToolCalls), NEW more \in Seq(ToolCalls), NEW meant,
         NEW base \in Nat, NEW m \in Nat, Carried(calls, base, meant),
         \A k \in DOMAIN more : /\ more[k].id \in (base + 1)..(base + m)
                                /\ CarriedOver(more[k], meant[more[k].id]),
         \A k, l \in DOMAIN more : k < l => more[k].id < more[l].id,
         \A i \in (base + 1)..(base + m) : meant[i].cut \/ \E k \in DOMAIN more : more[k].id = i
  PROVE  Carried(calls \o more, base + m, meant)
<1>. DEFINE c == calls \o more  n == Len(calls)  p == Len(more)
<1>1. /\ c \in Seq(ToolCalls) /\ Len(c) = n + p /\ n \in Nat /\ p \in Nat
      /\ DOMAIN calls = 1..n /\ DOMAIN more = 1..p
      /\ \A k \in 1..(n + p) : c[k] = IF k <= n THEN calls[k] ELSE more[k - n]
  BY ConcatProperties
<1>2. DOMAIN c = 1..(n + p)
  <2>. HIDE DEF c
  <2>. QED BY <1>1
<1>. HIDE DEF c, n, p
<1>3. ASSUME NEW k \in 1..(n + p)
      PROVE  \/ k <= n /\ k \in DOMAIN calls /\ c[k] = calls[k]
             \/ ~(k <= n) /\ k - n \in DOMAIN more /\ c[k] = more[k - n]
  <2>1. CASE k <= n
    BY <1>1, <2>1
  <2>2. CASE ~(k <= n)
    <3>1. k - n \in 1..p
      BY <1>1, <2>2
    <3>. QED BY <1>1, <2>2, <3>1
  <2>. QED BY <2>1, <2>2
<1>4. /\ \A k \in DOMAIN calls : k \in 1..(n + p) /\ c[k] = calls[k]
      /\ \A k \in DOMAIN more : n + k \in 1..(n + p) /\ c[n + k] = more[k]
  <2>1. \A k \in 1..n : k \in 1..(n + p) /\ k <= n
    BY <1>1
  <2>2. \A k \in 1..p : n + k \in 1..(n + p) /\ ~(n + k <= n) /\ (n + k) - n = k
    BY <1>1
  <2>. QED BY <1>1, <2>1, <2>2
<1>5. 1..base \subseteq 1..(base + m) /\ (base + 1)..(base + m) \subseteq 1..(base + m)
      /\ \A i \in 1..(base + m) : i \in 1..base \/ i \in (base + 1)..(base + m)
  OBVIOUS
<1>6. /\ \A k \in DOMAIN calls : calls[k].id \in 1..base /\ CarriedOver(calls[k], meant[calls[k].id])
      /\ \A k, l \in DOMAIN calls : k < l => calls[k].id < calls[l].id
      /\ \A i \in 1..base : meant[i].cut \/ \E k \in DOMAIN calls : calls[k].id = i
  BY DEF Carried
<1>7. \A k \in DOMAIN c : c[k].id \in 1..(base + m) /\ CarriedOver(c[k], meant[c[k].id])
  BY <1>2, <1>3, <1>5, <1>6
<1>8. ASSUME NEW k \in DOMAIN c, NEW l \in DOMAIN c, k < l  PROVE c[k].id < c[l].id
  <2>1. k \in 1..(n + p) /\ l \in 1..(n + p)
    BY <1>2
  <2>2. CASE l <= n
    <3>1. k <= n
      BY <1>1, <1>8, <2>1, <2>2
    <3>. QED BY <1>3, <1>6, <1>8, <2>1, <2>2, <3>1
  <2>3. CASE ~(l <= n) /\ k <= n
    <3>1. c[k].id \in 1..base /\ c[l].id \in (base + 1)..(base + m)
      BY <1>3, <1>6, <2>1, <2>3
    <3>2. \A i \in 1..base, j \in (base + 1)..(base + m) : i < j
      OBVIOUS
    <3>. QED BY <3>1, <3>2
  <2>4. CASE ~(l <= n) /\ ~(k <= n)
    <3>1. k - n < l - n
      BY <1>1, <1>8, <2>1
    <3>2. k - n \in DOMAIN more /\ l - n \in DOMAIN more /\ c[k] = more[k - n] /\ c[l] = more[l - n]
      BY <1>3, <2>1, <2>4
    <3>. QED BY <3>1, <3>2
  <2>. QED BY <2>2, <2>3, <2>4
<1>9. ASSUME NEW i \in 1..(base + m)  PROVE meant[i].cut \/ \E k \in DOMAIN c : c[k].id = i
  <2>1. CASE i \in 1..base
    BY <1>2, <1>4, <1>6, <2>1
  <2>2. CASE i \in (base + 1)..(base + m)
    BY <1>2, <1>4, <2>2
  <2>. QED BY <1>5, <2>1, <2>2
<1>10. Carried(c, base + m, meant)
  BY <1>7, <1>8, <1>9 DEF Carried
<1>. QED BY <1>10 DEF c

LEMMA EchoCarries == ASSUME LoopInv, RoundInv, Echo  PROVE RoundInv'
<1>1. /\ status \in {"complete", "cut"} /\ EchoOf(result) \in Messages
      /\ messages' = Append(messages, EchoOf(result)) /\ NoReplyYet'
      /\ said' \in Seq(SaidCalls) /\ Len(said') = Len(said) /\ DOMAIN said' = DOMAIN said
      /\ \A k \in DOMAIN said :
           /\ said'[k].id = said[k].id /\ said'[k].args = said[k].args
           /\ said'[k].cut = (said[k].cut \/ (status = "cut" /\ k > Base))
  BY EchoFacts
<1>. DEFINE calls == CallsIn(messages)  more == result.calls  m == Len(reply.calls)
<1>2. /\ messages \in Seq(Messages) /\ said \in Seq(SaidCalls) /\ Base \in Nat
      /\ Indexes = 1..m /\ m \in Nat /\ Len(said) = Base + m
      /\ \A i \in 1..m : /\ reply.calls[i].id = Base + i /\ Base + i \in DOMAIN said
                         /\ said[Base + i].args = Whole(i)
  <2>1. /\ messages \in Seq(Messages) /\ said \in Seq(SaidCalls) /\ Base \in Nat
        /\ \A i \in Indexes : /\ reply.calls[i].id = Base + i /\ Base + i \in DOMAIN said
                              /\ said[Base + i].args = Whole(i)
    BY DEF LoopInv, SaidInv
  <2>2. Indexes = 1..m /\ m \in Nat
    BY ReplyTypes DEF LoopInv, ReplyInv
  <2>3. Len(said) = Base + m
    BY <2>1, <2>2 DEF Base
  <2>. QED BY <2>1, <2>2, <2>3
<1>3. CallsRead /\ (status = "complete" => AllRead)
  BY <1>1 DEF LoopInv, ReplyInv
<1>4. CallsIn(messages') = calls \o more
  <2>1. CallsIn(messages') = calls \o CallsOf(EchoOf(result))
    BY <1>1, <1>2, CallsInFacts, SMTT(30)
  <2>2. CallsOf(EchoOf(result)) = more
    BY DEF CallsOf, EchoOf, HasCalls, PlainMessage, CallingMessage
  <2>. QED BY <2>1, <2>2
<1>5. Base' = Base + m
  <2>1. (reply = NoReply)' => (/\ Indexes = {} /\ (said \in Seq(SaidCalls) => Base = Len(said) /\ Base \in Nat))'
    BY NothingReadSaid, PTL
  <2>2. (reply = NoReply)'
    BY <1>1 DEF NoReplyYet
  <2>3. Base' = Len(said')
    BY <1>1, <2>1, <2>2
  <2>. QED BY <1>1, <1>2, <2>3
<1>6. calls \in Seq(ToolCalls) /\ more \in Seq(ToolCalls)
  BY <1>2, <1>3, CallsInFacts DEF CallsRead
<1>. DEFINE base == Base  meant == said'
<1>7. DOMAIN said = 1..(base + m) /\ (\A i \in 1..base : i \in 1..(base + m))
      /\ \A i \in 1..m : base + i \in (base + 1)..(base + m) /\ base + i > base
  <2>1. DOMAIN said = 1..(base + m)
    BY <1>2
  <2>2. base \in Nat /\ m \in Nat
    BY <1>2
  <2>. HIDE DEF base, m
  <2>. QED BY <2>1, <2>2
<1>8. Carried(calls, base, meant)
  <2>1. Carried(calls, base, said)
    BY DEF RoundInv
  <2>2. \A i \in 1..base : meant[i].args = said[i].args /\ (said[i].cut => meant[i].cut)
    BY <1>1, <1>7
  <2>. HIDE DEF calls, base, meant
  <2>. QED BY <2>1, <2>2, CarriedKeeps
<1>9. \A k, l \in DOMAIN more : k < l => more[k].id < more[l].id
  BY <1>3 DEF CallsRead
<1>10. CASE status = "cut"
  <2>1. \A i \in 1..m : meant[base + i].cut /\ meant[base + i].args = Whole(i)
    BY <1>1, <1>2, <1>7, <1>10
  <2>2. ASSUME NEW k \in DOMAIN more
        PROVE  more[k].id \in (base + 1)..(base + m) /\ CarriedOver(more[k], meant[more[k].id])
    <3>1. PICK i \in 1..m : ReadFrom(more[k], reply.calls[i])
      BY <1>2, <1>3 DEF CallsRead
    <3>2. more[k].id = base + i
      BY <1>2, <3>1 DEF ReadFrom
    <3>3. DecodeToolArguments(more[k].args) \in {DecodeToolArguments(Whole(i)), EmptyObject}
      BY <3>1 DEF ReadFrom, Whole
    <3>. HIDE DEF base, meant, more
    <3>. QED BY <1>7, <2>1, <3>2, <3>3 DEF CarriedOver
  <2>3. ASSUME NEW i \in (base + 1)..(base + m)  PROVE meant[i].cut
    <3>1. i - base \in 1..m /\ base + (i - base) = i
      BY <1>2
    <3>. QED BY <2>1, <3>1
  <2>4. base \in Nat /\ m \in Nat
    BY <1>2
  <2>. HIDE DEF calls, more, base, meant, m
  <2>5. Carried(calls \o more, base + m, meant)
    BY <1>6, <1>8, <1>9, <2>2, <2>3, <2>4, CarriedMore
  <2>. QED BY <1>4, <1>5, <2>5 DEF RoundInv, meant, base
<1>11. CASE status = "complete"
  <2>1. \A i \in 1..m : meant[base + i].args = Whole(i)
    BY <1>1, <1>2, <1>7
  <2>2. DOMAIN more = 1..m /\ \A i \in 1..m :
          more[i].id = base + i /\ DecodeToolArguments(more[i].args) = DecodeToolArguments(Whole(i))
    <3>1. Len(more) = m /\ \A i \in 1..m :
            more[i].id = base + i /\ DecodeToolArguments(more[i].args) = DecodeToolArguments(Whole(i))
      BY <1>2, <1>3, <1>11 DEF AllRead
    <3>2. DOMAIN more = 1..Len(more)
      BY <1>6
    <3>. QED BY <3>1, <3>2
  <2>3. \A k \in DOMAIN more :
          more[k].id \in (base + 1)..(base + m) /\ CarriedOver(more[k], meant[more[k].id])
    <3>. HIDE DEF base, meant, more
    <3>. QED BY <1>7, <2>1, <2>2 DEF CarriedOver
  <2>4. ASSUME NEW i \in (base + 1)..(base + m)  PROVE \E k \in DOMAIN more : more[k].id = i
    <3>1. i - base \in 1..m /\ base + (i - base) = i
      BY <1>2
    <3>. QED BY <2>2, <3>1
  <2>5. base \in Nat /\ m \in Nat
    BY <1>2
  <2>. HIDE DEF calls, more, base, meant, m
  <2>6. Carried(calls \o more, base + m, meant)
    BY <1>6, <1>8, <1>9, <2>3, <2>4, <2>5, CarriedMore
  <2>. QED BY <1>4, <1>5, <2>6 DEF RoundInv, meant, base
<1>. QED BY <1>1, <1>10, <1>11

\* Until a reply ends, its calls are said and not yet carried.
LEMMA PostCarries == ASSUME LoopInv, RoundInv, Post  PROVE RoundInv'
<1>1. status = "none" /\ UNCHANGED messages /\ said' = said \o MeantBy(reply')
  BY DEF Post
<1>. DEFINE q == reply'  a == said  c == said'  b == MeantBy(q)
<1>2. q.calls \in Seq(CallsMade)
  <2>1. ReplyFits'
    BY PostKeeps DEF LoopInv, ReplyInv
  <2>2. ReplyFits' => (reply.calls \in Seq(CallsMade))'
    BY ReplyTypes, PTL
  <2>. QED BY <2>1, <2>2
<1>3. b \in Seq(SaidCalls) /\ Len(b) = Len(q.calls) /\ a \in Seq(SaidCalls)
  <2>1. a \in Seq(SaidCalls)
    BY DEF LoopInv, SaidInv
  <2>. HIDE DEF q
  <2>. QED BY <1>2, <2>1, MeantByFacts
<1>4. Base = Len(a)
  <2>1. reply = NoReply
    BY <1>1 DEF LoopInv, ReplyInv, NoReplyYet
  <2>. QED BY <1>3, <2>1, NothingReadSaid
<1>5. Len(c) = Len(a) + Len(b) /\ Len(a) \in Nat /\ Len(b) \in Nat /\ \A k \in 1..Len(a) : c[k] = a[k]
  <2>1. c = a \o b
    BY <1>1
  <2>0. a \in Seq(SaidCalls) /\ b \in Seq(SaidCalls) /\ Len(a) \in Nat /\ Len(b) \in Nat
    BY <1>3
  <2>. HIDE DEF a, b, c
  <2>2. /\ Len(a \o b) = Len(a) + Len(b)
        /\ \A k \in 1..(Len(a) + Len(b)) : (a \o b)[k] = IF k <= Len(a) THEN a[k] ELSE b[k - Len(a)]
    BY <2>0, ConcatProperties
  <2>. QED BY <2>0, <2>1, <2>2
<1>6. Base' = Base
  BY <1>3, <1>4, <1>5 DEF Base
<1>7. Carried(CallsIn(messages), Base, said')
  <2>. DEFINE calls == CallsIn(messages)  base == Base
  <2>1. Carried(calls, base, a) /\ \A i \in 1..base : c[i] = a[i]
    BY <1>4, <1>5 DEF RoundInv
  <2>. HIDE DEF calls, base, a, c
  <2>2. Carried(calls, base, c)
    BY <2>1, CarriedKeeps
  <2>. QED BY <2>2 DEF calls, base, c
<1>. QED BY <1>1, <1>6, <1>7 DEF RoundInv

LEMMA RoundKeeps == ASSUME LoopInv, RoundInv, [LoopNext]_vars  PROVE RoundInv'
<1>1. CASE Say \/ Instruct \/ \E id \in CalledIds : Answer(id)
  <2>1. PICK msg \in Messages : Write(msg) /\ ~HasCalls(msg)
    BY <1>1, Written
  <2>2. messages' = Append(messages, msg) /\ UNCHANGED <<said, reply>> /\ messages \in Seq(Messages)
    BY <2>1 DEF Write, replyVars, LoopInv
  <2>3. CallsIn(messages') = CallsIn(messages) \o <<>> /\ CallsIn(messages) \in Seq(ToolCalls)
    BY <2>1, <2>2, CallsInFacts DEF CallsOf
  <2>4. CallsIn(messages') = CallsIn(messages)
    BY <2>3
  <2>. QED BY <2>2, <2>4 DEF RoundInv, Base
<1>2. CASE Ask \/ Build \/ Read \/ EmbedQuery \/ Over \/ UNCHANGED vars
  <2>1. UNCHANGED <<messages, said, reply>>
    <3>1. CASE Ask
      BY <3>1 DEF Ask, replyVars
    <3>2. CASE Build
      BY <3>2 DEF Build, loopVars, replyVars
    <3>3. CASE Read
      BY <3>3, ReadFrame DEF Read, loopVars
    <3>4. CASE EmbedQuery \/ Over \/ UNCHANGED vars
      BY <3>4 DEF EmbedQuery, Over, vars, loopVars, replyVars
    <3>. QED BY <1>2, <3>1, <3>2, <3>3, <3>4
  <2>. QED BY <2>1 DEF RoundInv, Base
<1>. QED BY <1>1, <1>2, EchoCarries, PostCarries DEF LoopNext, Converse

LEMMA RoundHolds == ASSUME LoopInv, RoundInv  PROVE RoundTrip
<1>. SUFFICES ASSUME Idle
     PROVE  LET uses == Uses(TranslateMessages(messages).out) IN
    /\ \A k \in DOMAIN uses : LET meant == said[uses[k].id] IN
         uses[k].input = DecodeToolArguments(meant.args) \/ (meant.cut /\ uses[k].input = EmptyObject)
    /\ \A k, l \in DOMAIN uses : k < l => uses[k].id < uses[l].id
    /\ \A i \in DOMAIN said : said[i].cut \/ \E k \in DOMAIN uses : uses[k].id = said[i].id
  BY DEF RoundTrip
<1>. DEFINE uses == Uses(TranslateMessages(messages).out)  calls == CallsIn(messages)
<1>1. calls \in Seq(ToolCalls) /\ uses = UseBlocksOf(calls)
  BY UsesOfList, CallsInFacts DEF LoopInv
<1>. HIDE DEF uses, calls
<1>2. /\ DOMAIN uses = DOMAIN calls
      /\ \A k \in DOMAIN calls : /\ uses[k].id = calls[k].id
                                 /\ uses[k].input = DecodeToolArguments(calls[k].args)
  BY <1>1 DEF UseBlocksOf, UseBlock
<1>3. DOMAIN said = 1..Base /\ \A i \in DOMAIN said : said[i].id = i
  <2>1. reply = NoReply /\ said \in Seq(SaidCalls) /\ \A i \in DOMAIN said : said[i].id = i
    BY DEF LoopInv, SaidInv, ReplyInv, NoReplyYet, Idle
  <2>2. Base = Len(said)
    BY <2>1, NothingReadSaid
  <2>. QED BY <2>1, <2>2
<1>4. Carried(calls, Base, said)
  BY DEF RoundInv, calls
<1>5. \A k \in DOMAIN uses : LET meant == said[uses[k].id] IN
         uses[k].input = DecodeToolArguments(meant.args) \/ (meant.cut /\ uses[k].input = EmptyObject)
  BY <1>2, <1>4 DEF Carried, CarriedOver
<1>6. \A k, l \in DOMAIN uses : k < l => uses[k].id < uses[l].id
  BY <1>2, <1>4 DEF Carried
<1>7. \A i \in DOMAIN said : said[i].cut \/ \E k \in DOMAIN uses : uses[k].id = said[i].id
  BY <1>2, <1>3, <1>4 DEF Carried
<1>. QED BY <1>5, <1>6, <1>7 DEF uses

\* Once around the loop nothing is lost or garbled, however many turns, calls and cut
\* replies there were.
THEOREM CallsGoRound == LoopSpec => []RoundTrip
<1>1. LoopInit => RoundInv
  <2>. SUFFICES ASSUME LoopInit  PROVE RoundInv
    OBVIOUS
  <2>1. messages = <<>> /\ said = <<>> /\ reply = NoReply
    BY DEF LoopInit, NoReplyYet
  <2>2. Base = 0
    BY <2>1, NothingReadSaid
  <2>3. CallsIn(messages) = <<>>
    BY <2>1, CallsInFacts
  <2>4. 1..0 = {} /\ DOMAIN <<>> = {}
    OBVIOUS
  <2>. QED BY <2>2, <2>3, <2>4 DEF RoundInv, Carried
<1>2. LoopInv /\ RoundInv /\ [LoopNext]_vars => RoundInv'
  BY RoundKeeps
<1>3. LoopInv /\ RoundInv => RoundTrip
  BY RoundHolds
<1>. QED BY <1>1, <1>2, <1>3, LoopAlways, PTL DEF LoopSpec

-----------------------------------------------------------------------------
(* The groups of results.                                                  *)

PendingIds(p) == {p[k].id : k \in DOMAIN p}

\* What ResultsGrouped says, of a list and the turns it becomes.
Grouped(list, turns) ==
  \A k \in 2..Len(list) : list[k].role = "tool" =>
      /\ list[k - 1].role = "tool" =>
           \E j \in DOMAIN turns : {list[k - 1].id, list[k].id} \subseteq ResultsOf(turns[j])
      /\ list[k].id \in Called(list[k - 1]) =>
           \E j \in 2..Len(turns) : /\ list[k].id \in ResultsOf(turns[j])
                                    /\ <<"call", list[k].id>> \in ToSet(TurnEntries(turns[j - 1]))

\* What the last message of a list has left in its translation.
LastLeft(list, t) ==
  Len(list) > 0 => LET msg == list[Len(list)] IN
    /\ msg.role = "tool" => msg.id \in PendingIds(t.pending)
    /\ HasCalls(msg) => t.pending = <<>> /\ Len(t.out) > 0 /\ t.out[Len(t.out)] = CallingTurn(msg)

\* The turns of a list are among those of a longer one, but that the last may have
\* got another result.
LEMMA TurnsSurvive ==
  ASSUME NEW t \in TStates, NEW msg \in Messages, NEW u, u = TranslateMessage(t, msg)
  PROVE  LET turns == Flushed(t)
             later == Flushed(u)
         IN /\ turns \in Seq(Turns) /\ later \in Seq(Turns) /\ Len(turns) <= Len(later)
            /\ \A j \in 1..Len(turns) : ResultsOf(turns[j]) \subseteq ResultsOf(later[j])
            /\ \A j \in 1..(Len(turns) - 1) : later[j] = turns[j]
<1>. DEFINE turns == Flushed(t)  later == Flushed(u)
<1>1. /\ u \in TStates
      /\ msg.role = "system" => u.out = Flushed(t) /\ u.pending = <<>>
      /\ msg.role = "tool" => u.out = t.out /\ u.pending = Append(t.pending, ResultBlock(msg))
      /\ HasCalls(msg) => u.out = Append(Flushed(t), CallingTurn(msg)) /\ u.pending = <<>>
      /\ msg.role \in {"user", "assistant"} /\ ~HasCalls(msg) =>
           u.out = Append(Flushed(t), msg) /\ u.pending = <<>>
  BY TranslateFacts
<1>2. /\ turns \in Seq(Turns)
      /\ t.pending = <<>> => turns = t.out
      /\ t.pending # <<>> => /\ turns = Append(t.out, Turn("user", t.pending))
                             /\ Turn("user", t.pending) \in Turns
  BY FlushFacts
<1>3. /\ later \in Seq(Turns)
      /\ u.pending = <<>> => later = u.out
      /\ u.pending # <<>> => /\ later = Append(u.out, Turn("user", u.pending))
                             /\ Turn("user", u.pending) \in Turns
  BY <1>1, FlushFacts
<1>4. /\ msg.role \in {"system", "user", "assistant", "tool"}
      /\ HasCalls(msg) => msg.role = "assistant" /\ CallingTurn(msg) \in Turns
      /\ msg.role \in {"user", "assistant"} /\ ~HasCalls(msg) => msg \in Turns
  BY MessageKinds, CallingTurnFacts, PassedOn
<1>. HIDE DEF turns, later
<1>5. SUFFICES /\ Len(turns) <= Len(later)
               /\ \A j \in 1..Len(turns) : ResultsOf(turns[j]) \subseteq ResultsOf(later[j])
               /\ \A j \in 1..(Len(turns) - 1) : later[j] = turns[j]
  BY <1>2, <1>3 DEF turns, later
<1>6. Len(turns) \in Nat /\ (\A j \in 1..(Len(turns) - 1) : j \in 1..Len(turns))
  BY <1>2
<1>7. ASSUME NEW turn \in Turns, later = Append(turns, turn)
      PROVE  Len(turns) <= Len(later) /\ \A j \in 1..Len(turns) : later[j] = turns[j]
  BY <1>2, <1>7
<1>8. CASE msg.role = "system"
  <2>1. later = turns
    BY <1>1, <1>3, <1>8 DEF turns
  <2>. QED BY <1>6, <2>1
<1>9. CASE msg.role \in {"user", "assistant"}
  <2>1. \E turn \in Turns : later = Append(turns, turn)
    BY <1>1, <1>3, <1>4, <1>9 DEF turns
  <2>. QED BY <1>6, <1>7, <2>1
<1>10. CASE msg.role = "tool"
  <2>. DEFINE o == t.out  p == t.pending  q == Append(p, ResultBlock(msg))
  <2>1. o \in Seq(Turns) /\ p \in Seq(ResultBlocks)
    BY DEF TStates
  <2>2. ResultBlock(msg) \in ResultBlocks
    <3>1. msg.id \in Nat
      BY <1>10, MessageKinds
    <3>. QED BY <3>1 DEF ResultBlock, ResultBlocks
  <2>3. q \in Seq(ResultBlocks) /\ q # <<>> /\ PendingIds(p) \subseteq PendingIds(q)
    <3>1. q \in Seq(ResultBlocks) /\ q # <<>>
      BY <2>1, <2>2
    <3>2. \A k \in DOMAIN p : k \in DOMAIN q /\ q[k] = p[k]
      BY <2>1, <2>2
    <3>. HIDE DEF p, q
    <3>. QED BY <3>1, <3>2 DEF PendingIds
  <2>4. later = Append(o, Turn("user", q)) /\ Turn("user", q) \in Turns
    BY <1>1, <1>3, <1>10, <2>3
  <2>. HIDE DEF o, q
  <2>5. CASE p = <<>>
    <3>1. turns = o
      BY <1>2, <2>5 DEF o
    <3>. QED BY <1>6, <1>7, <2>4, <3>1
  <2>6. CASE p # <<>>
    <3>. DEFINE a == Turn("user", p)  b == Turn("user", q)
    <3>1. turns = Append(o, a) /\ a \in Turns /\ b \in Turns /\ later = Append(o, b)
      BY <1>2, <2>4, <2>6 DEF o
    <3>2. ResultsOf(a) \subseteq ResultsOf(b)
      BY <2>1, <2>3, ResultsOfTurn DEF PendingIds
    <3>. HIDE DEF a, b, p
    <3>. DEFINE n == Len(o)
    <3>3. /\ n \in Nat /\ Len(turns) = n + 1 /\ Len(later) = n + 1 /\ turns[n + 1] = a /\ later[n + 1] = b
          /\ \A j \in 1..n : turns[j] = o[j] /\ later[j] = o[j]
      BY <2>1, <3>1
    <3>4. \A j \in 1..(n + 1) : j \in 1..n \/ j = n + 1
      BY <3>3
    <3>5. n + 1 <= n + 1 /\ (n + 1) - 1 = n
      BY <3>3
    <3>. HIDE DEF n
    <3>. QED BY <3>2, <3>3, <3>4, <3>5
  <2>. QED BY <2>5, <2>6
<1>. QED BY <1>4, <1>8, <1>9, <1>10

\* A call a message makes is said by the turn it becomes.
LEMMA CallSaid ==
  ASSUME NEW msg \in Messages, NEW id \in Called(msg)
  PROVE  HasCalls(msg) /\ <<"call", id>> \in ToSet(TurnEntries(CallingTurn(msg)))
<1>1. HasCalls(msg) /\ \E k \in DOMAIN msg.calls : id = msg.calls[k].id
  BY DEF Called
<1>2. msg.text \in Nat /\ msg.calls \in Seq(ToolCalls)
  BY <1>1, MessageKinds
<1>. DEFINE a == TextEntry(msg.text)  b == CallEntries(msg.calls)
<1>3. a \in Seq(Entries) /\ b \in Seq(Entries)
  BY <1>2, TextEntries, UseBlocksFacts
<1>4. TurnEntries(CallingTurn(msg)) = a \o b
  BY <1>1, CallingTurnFacts, MessageEntriesType
<1>5. <<"call", id>> \in ToSet(b)
  BY <1>1 DEF CallEntries, ToSet
<1>. HIDE DEF a, b
<1>6. ToSet(a \o b) = ToSet(a) \cup ToSet(b)
  BY <1>3, ElementsOf
<1>. QED BY <1>1, <1>4, <1>5, <1>6

\* What one message more leaves, and where a result goes.
LEMMA GroupStep ==
  ASSUME NEW list \in Seq(Messages), NEW msg \in Messages, NEW t \in TStates,
         NEW u, u = TranslateMessage(t, msg), NEW later, later = Append(list, msg),
         Grouped(list, Flushed(t)), LastLeft(list, t)
  PROVE  Grouped(later, Flushed(u)) /\ LastLeft(later, u)
<1>. DEFINE n == Len(list)  T == Flushed(t)  U == Flushed(u)
<1>1. /\ n \in Nat /\ Len(later) = n + 1 /\ later[n + 1] = msg /\ \A k \in 1..n : later[k] = list[k]
      /\ \A k \in 1..n : list[k] \in Messages
  OBVIOUS
<1>2. /\ u \in TStates
      /\ msg.role = "tool" => u.out = t.out /\ u.pending = Append(t.pending, ResultBlock(msg))
      /\ HasCalls(msg) => u.out = Append(T, CallingTurn(msg)) /\ u.pending = <<>>
  BY TranslateFacts
<1>3. T \in Seq(Turns) /\ (HasCalls(msg) => CallingTurn(msg) \in Turns)
  BY FlushFacts, CallingTurnFacts
<1>4. t.out \in Seq(Turns) /\ t.pending \in Seq(ResultBlocks)
  BY DEF TStates
<1>5. ASSUME msg.role = "tool"
      PROVE  /\ u.pending \in Seq(ResultBlocks) /\ u.pending # <<>> /\ msg.id \in PendingIds(u.pending)
             /\ PendingIds(t.pending) \subseteq PendingIds(u.pending)
             /\ U = Append(t.out, Turn("user", u.pending)) /\ Turn("user", u.pending) \in Turns
             /\ ResultsOf(Turn("user", u.pending)) = PendingIds(u.pending)
  <2>. DEFINE p == t.pending  q == u.pending  r == ResultBlock(msg)
  <2>1. r \in ResultBlocks /\ r.id = msg.id
    <3>1. msg.id \in Nat
      BY <1>5, MessageKinds
    <3>. QED BY <3>1 DEF ResultBlock, ResultBlocks
  <2>2. q = Append(p, r) /\ p \in Seq(ResultBlocks)
    BY <1>2, <1>4, <1>5
  <2>. HIDE DEF p, q, r
  <2>3. q \in Seq(ResultBlocks) /\ q # <<>> /\ Len(p) + 1 \in DOMAIN q /\ q[Len(p) + 1] = r
        /\ \A k \in DOMAIN p : k \in DOMAIN q /\ q[k] = p[k]
    BY <2>1, <2>2
  <2>4. msg.id \in PendingIds(q) /\ PendingIds(p) \subseteq PendingIds(q)
    BY <2>1, <2>3 DEF PendingIds
  <2>5. ResultsOf(Turn("user", q)) = PendingIds(q)
    BY <2>3, ResultsOfTurn DEF PendingIds
  <2>6. u.pending # <<>> => /\ Flushed(u) = Append(u.out, Turn("user", u.pending))
                            /\ Turn("user", u.pending) \in Turns
    BY <1>2, FlushFacts
  <2>. QED BY <1>2, <1>5, <2>3, <2>4, <2>5, <2>6 DEF p, q
<1>6. LastLeft(later, u)
  <2>1. ASSUME HasCalls(msg)
        PROVE  u.pending = <<>> /\ Len(u.out) > 0 /\ u.out[Len(u.out)] = CallingTurn(msg)
    <3>1. u.pending = <<>> /\ u.out = Append(T, CallingTurn(msg)) /\ CallingTurn(msg) \in Turns
      BY <1>2, <1>3, <2>1
    <3>. HIDE DEF T
    <3>2. Len(T) \in Nat /\ Len(u.out) = Len(T) + 1 /\ u.out[Len(T) + 1] = CallingTurn(msg)
      BY <1>3, <3>1
    <3>. QED BY <3>1, <3>2
  <2>2. later[Len(later)] = msg
    BY <1>1
  <2>. QED BY <1>5, <2>1, <2>2 DEF LastLeft
<1>7. /\ T \in Seq(Turns) /\ U \in Seq(Turns) /\ Len(T) <= Len(U)
      /\ \A j \in 1..Len(T) : ResultsOf(T[j]) \subseteq ResultsOf(U[j])
      /\ \A j \in 1..(Len(T) - 1) : U[j] = T[j]
  BY TurnsSurvive
<1>8. /\ DOMAIN T = 1..Len(T) /\ DOMAIN U = 1..Len(U) /\ Len(T) \in Nat /\ Len(U) \in Nat
      /\ \A j \in 1..Len(T) : j \in 1..Len(U)
      /\ \A j \in 2..Len(T) : j \in 2..Len(U) /\ j \in 1..Len(T) /\ j - 1 \in 1..(Len(T) - 1)
  <2>. HIDE DEF T, U
  <2>. QED BY <1>7
<1>. HIDE DEF n, T, U
<1>9. ASSUME NEW k \in 2..n, list[k].role = "tool"
      PROVE  /\ list[k - 1].role = "tool" =>
                  \E j \in DOMAIN U : {list[k - 1].id, list[k].id} \subseteq ResultsOf(U[j])
             /\ list[k].id \in Called(list[k - 1]) =>
                  \E j \in 2..Len(U) : /\ list[k].id \in ResultsOf(U[j])
                                       /\ <<"call", list[k].id>> \in ToSet(TurnEntries(U[j - 1]))
  <2>1. /\ list[k - 1].role = "tool" =>
             \E j \in DOMAIN T : {list[k - 1].id, list[k].id} \subseteq ResultsOf(T[j])
        /\ list[k].id \in Called(list[k - 1]) =>
             \E j \in 2..Len(T) : /\ list[k].id \in ResultsOf(T[j])
                                  /\ <<"call", list[k].id>> \in ToSet(TurnEntries(T[j - 1]))
    BY <1>9 DEF Grouped, n, T
  <2>2. ASSUME list[k - 1].role = "tool"
        PROVE  \E j \in DOMAIN U : {list[k - 1].id, list[k].id} \subseteq ResultsOf(U[j])
    <3>1. PICK j \in DOMAIN T : {list[k - 1].id, list[k].id} \subseteq ResultsOf(T[j])
      BY <2>1, <2>2
    <3>2. j \in DOMAIN U /\ ResultsOf(T[j]) \subseteq ResultsOf(U[j])
      BY <1>7, <1>8
    <3>. QED BY <3>1, <3>2
  <2>3. ASSUME list[k].id \in Called(list[k - 1])
        PROVE  \E j \in 2..Len(U) : /\ list[k].id \in ResultsOf(U[j])
                                    /\ <<"call", list[k].id>> \in ToSet(TurnEntries(U[j - 1]))
    <3>1. PICK j \in 2..Len(T) : /\ list[k].id \in ResultsOf(T[j])
                                 /\ <<"call", list[k].id>> \in ToSet(TurnEntries(T[j - 1]))
      BY <2>1, <2>3
    <3>2. j \in 2..Len(U) /\ ResultsOf(T[j]) \subseteq ResultsOf(U[j]) /\ U[j - 1] = T[j - 1]
      BY <1>7, <1>8
    <3>. QED BY <3>1, <3>2
  <2>. QED BY <2>2, <2>3
<1>10. ASSUME n \in Nat \ {0}, msg.role = "tool"
       PROVE  /\ list[n].role = "tool" =>
                   \E j \in DOMAIN U : {list[n].id, msg.id} \subseteq ResultsOf(U[j])
              /\ msg.id \in Called(list[n]) =>
                   \E j \in 2..Len(U) : /\ msg.id \in ResultsOf(U[j])
                                        /\ <<"call", msg.id>> \in ToSet(TurnEntries(U[j - 1]))
  <2>. DEFINE o == t.out  m == Len(o)  turn == Turn("user", u.pending)
  <2>1. /\ U = Append(o, turn) /\ turn \in Turns /\ o \in Seq(Turns)
        /\ ResultsOf(turn) = PendingIds(u.pending) /\ msg.id \in PendingIds(u.pending)
        /\ PendingIds(t.pending) \subseteq PendingIds(u.pending)
    BY <1>4, <1>5, <1>10
  <2>. HIDE DEF o, turn
  <2>2. /\ m \in Nat /\ Len(U) = m + 1 /\ U[m + 1] = turn /\ m + 1 \in DOMAIN U
        /\ \A j \in 1..m : U[j] = o[j]
    BY <2>1
  <2>3. /\ list[n].role = "tool" => list[n].id \in PendingIds(t.pending)
        /\ HasCalls(list[n]) => Len(o) > 0 /\ o[Len(o)] = CallingTurn(list[n])
    <3>1. Len(list) > 0
      BY <1>10 DEF n
    <3>. QED BY <3>1 DEF LastLeft, n, o
  <2>4. list[n].role = "tool" => {list[n].id, msg.id} \subseteq ResultsOf(U[m + 1])
    BY <2>1, <2>2, <2>3
  <2>5. ASSUME msg.id \in Called(list[n])
        PROVE  /\ m + 1 \in 2..Len(U) /\ msg.id \in ResultsOf(U[m + 1])
               /\ <<"call", msg.id>> \in ToSet(TurnEntries(U[(m + 1) - 1]))
    <3>1. list[n] \in Messages
      BY <1>1, <1>10
    <3>2. HasCalls(list[n]) /\ <<"call", msg.id>> \in ToSet(TurnEntries(CallingTurn(list[n])))
      BY <2>5, <3>1, CallSaid
    <3>3. m > 0 /\ o[m] = CallingTurn(list[n])
      BY <2>3, <3>2
    <3>4. m \in 1..m /\ (m + 1) - 1 = m /\ m + 1 \in 2..(m + 1)
      <4>. HIDE DEF m
      <4>. QED BY <2>2, <3>3
    <3>. HIDE DEF m
    <3>. QED BY <2>1, <2>2, <3>2, <3>3, <3>4
  <2>. QED BY <2>2, <2>4, <2>5
<1>11. Grouped(later, U)
  <2>. SUFFICES ASSUME NEW k \in 2..(n + 1), later[k].role = "tool"
       PROVE  /\ later[k - 1].role = "tool" =>
                   \E j \in DOMAIN U : {later[k - 1].id, later[k].id} \subseteq ResultsOf(U[j])
              /\ later[k].id \in Called(later[k - 1]) =>
                   \E j \in 2..Len(U) : /\ later[k].id \in ResultsOf(U[j])
                                        /\ <<"call", later[k].id>> \in ToSet(TurnEntries(U[j - 1]))
    BY <1>1 DEF Grouped
  <2>1. CASE k \in 2..n
    <3>1. k \in 1..n /\ k - 1 \in 1..n
      BY <1>1, <2>1
    <3>2. later[k] = list[k] /\ later[k - 1] = list[k - 1]
      BY <1>1, <3>1
    <3>. QED BY <1>9, <2>1, <3>2, ZenonT(60)
  <2>2. CASE k \notin 2..n
    <3>1. k = n + 1 /\ n \in Nat \ {0} /\ k - 1 = n /\ n \in 1..n
      BY <1>1, <2>2
    <3>2. later[k] = msg /\ later[k - 1] = list[n]
      BY <1>1, <3>1
    <3>. QED BY <1>10, <3>1, <3>2
  <2>. QED BY <2>1, <2>2
<1>. QED BY <1>6, <1>11 DEF U

\* What ResultsGrouped says, of any list a script can write.
THEOREM EveryListIsGrouped ==
  ASSUME NEW list \in Seq(Messages)  PROVE Grouped(list, TranslateMessages(list).out)
<1>. DEFINE G == {l \in Seq(Messages) : /\ Grouped(l, Flushed(Translated(l)))
                                        /\ LastLeft(l, Translated(l))}
<1>1. <<>> \in G
  <2>1. Len(<<>>) = 0 /\ 2..0 = {}
    OBVIOUS
  <2>. QED BY <2>1 DEF Grouped, LastLeft
<1>2. ASSUME NEW l \in Seq(Messages), NEW msg \in Messages, l \in G  PROVE Append(l, msg) \in G
  <2>. DEFINE later == Append(l, msg)  t == Translated(l)  u == Translated(later)
  <2>1. t \in TStates /\ u = TranslateMessage(t, msg) /\ later \in Seq(Messages)
    BY TranslatedFacts
  <2>2. Grouped(l, Flushed(t)) /\ LastLeft(l, t)
    BY <1>2
  <2>3. later = Append(l, msg)
    OBVIOUS
  <2>. HIDE DEF t, u, later
  <2>4. Grouped(later, Flushed(u)) /\ LastLeft(later, u)
    BY <2>1, <2>2, <2>3, GroupStep
  <2>. QED BY <2>1, <2>4 DEF u, later
<1>. HIDE DEF G
<1>3. list \in G
  BY <1>1, <1>2, Translation!ListInduction
<1>. QED BY <1>3, RequestOf DEF G

\* The results of a turn reach the model in one message, after the message of their
\* calls, whatever stands before and after them in the conversation.
THEOREM ResultsStayTogether == LoopSpec => []ResultsGrouped
<1>1. LoopInv => ResultsGrouped
  <2>. SUFFICES ASSUME messages \in Seq(Messages)  PROVE ResultsGrouped
    BY DEF LoopInv
  <2>1. Grouped(messages, TranslateMessages(messages).out)
    BY EveryListIsGrouped
  <2>. QED BY <2>1 DEF Grouped, ResultsGrouped
<1>. QED BY <1>1, LoopAlways, PTL
=============================================================================
