---------------------------- MODULE SessionProofs -----------------------------
(***************************************************************************)
(* For any number of sends and resets: however they overlap and settle, a  *)
(* session's history is well formed and holds every reply, and a script    *)
(* that awaits its sends gets a dialogue whose cold calls start clean; the *)
(* token totals are the sums of what the fulfilled sends reported.         *)
(***************************************************************************)
EXTENDS Session, TLAPS

PromptSum == INSTANCE FoldFacts WITH Op <- PlusPrompt
CompletionSum == INSTANCE FoldFacts WITH Op <- PlusCompletion

Idle(i) == send[i].status = "idle"

\* The sends are made in order, and every turn counted was made by one of them.
SendsInv ==
  \A i \in Sends : Idle(i) => turn < i /\ \A j \in Sends : j > i => Idle(j)

\* A user message is of a send the script made.
SaidInv == \A k \in 1..Len(messages) : messages[k].role = "user" =>
             messages[k].of \in Sends /\ ~Idle(messages[k].of)

\* A reply is of a send.
RepliedInv == \A k \in 1..Len(messages) : messages[k].role = "assistant" =>
                messages[k].of \in Sends

\* Nothing else holds message 0.
SystemInv == \A k \in 1..Len(messages) : messages[k].role = "system" => messages[k].of = 0

\* A script that awaits its sends has one in flight at most, and its message is
\* the last; the history is empty exactly before the first turn.
AwaitedInv ==
  ~overlapped =>
    /\ \A i, j \in Sends : InFlight(i) /\ InFlight(j) => i = j
    /\ \A i \in Sends : InFlight(i) =>
         messages # <<>> /\ messages[Len(messages)] = Message("user", i)
    /\ turn = 0 <=> \A k \in 1..Len(messages) : messages[k].of = 0

IInv ==
  /\ TypeOK /\ SendsInv /\ SaidInv /\ RepliedInv /\ SystemInv /\ AwaitedInv
  /\ HistoryWellFormed /\ AwaitedHistoryPairs /\ ReplyInHistory /\ ColdStartsClean

-----------------------------------------------------------------------------

\* A history that grows by a message.
LEMMA Appended ==
  ASSUME NEW h \in Seq(Messages), NEW m \in Messages
  PROVE  /\ Append(h, m) \in Seq(Messages)
         /\ Len(Append(h, m)) = Len(h) + 1
         /\ Len(h) \in Nat
         /\ \A k \in 1..Len(h) : Append(h, m)[k] = h[k] /\ h[k] \in Messages
         /\ Append(h, m)[Len(h) + 1] = m
  OBVIOUS

\* The next send is the only idle one below any other idle one.
LEMMA NextSend ==
  ASSUME IInv, NEW i \in Sends, IsNextSend(i)
  PROVE  /\ Idle(i) /\ turn < i /\ i \in Nat
         /\ \A j \in Sends : j < i => ~Idle(j)
         /\ \A j \in Sends : j > i => Idle(j)
<1>1. Idle(i)
  BY DEF IsNextSend, Idle
<1>2. turn < i /\ \A j \in Sends : j > i => Idle(j)
  BY <1>1 DEF IInv, SendsInv
<1>3. i \in Nat /\ \A j \in Sends : j < i => j \in 1..(i - 1)
  BY SessionAssumption DEF Sends
<1>. QED BY <1>1, <1>2, <1>3 DEF IsNextSend, Idle

LEMMA InitInv == Init => IInv
<1>. SUFFICES ASSUME Init  PROVE IInv
  OBVIOUS
<1>. USE SessionAssumption
<1>1. /\ messages \in Seq(Messages) /\ Len(messages) \in {0, 1}
      /\ system <=> Len(messages) = 1
      /\ \A k \in 1..Len(messages) :
           k = 1 /\ messages[k] = Message("system", 0) /\ messages[k].role = "system" /\ messages[k].of = 0
  <2>0. Message("system", 0) \in Messages
    BY DEF Message, Messages
  <2>1. CASE system
    BY <2>0, <2>1 DEF Init, ResetMessages, Message
  <2>2. CASE ~system
    BY <2>2 DEF Init, ResetMessages
  <2>. QED BY <2>1, <2>2
<1>2. /\ send = [i \in Sends |-> NoSend] /\ NoSend.status = "idle" /\ NoSend.sent = <<>>
      /\ turn = 0 /\ ~overlapped /\ completed = {}
  BY DEF Init, NoSend
<1>3. TypeOK
  <2>1. NoSend \in [status: {"idle", "inflight", "replied", "resolved", "rejected"},
          turn: 0..MaxSends, cache: {NotGiven, "cold", "warm"}, own: BOOLEAN, sent: Seq(Messages),
          usage: Usages \cup {NoTokens}]
    BY DEF NoSend
  <2>2. tokens \in [prompt: Nat, completion: Nat]
    BY DEF Init, NoTokens
  <2>3. send \in [Sends -> [status: {"idle", "inflight", "replied", "resolved", "rejected"},
          turn: 0..MaxSends, cache: {NotGiven, "cold", "warm"}, own: BOOLEAN, sent: Seq(Messages),
          usage: Usages \cup {NoTokens}]]
    BY <1>2, <2>1
  <2>4. resets \in 0..MaxResets /\ turn \in 0..MaxSends /\ completed \subseteq Sends
    BY DEF Init
  <2>5. system \in Systems /\ overlapped \in BOOLEAN
    BY DEF Init
  <2>. QED BY <1>1, <2>2, <2>3, <2>4, <2>5 DEF TypeOK
<1>4. SendsInv /\ SaidInv /\ RepliedInv /\ SystemInv
  BY <1>1, <1>2 DEF SendsInv, SaidInv, RepliedInv, SystemInv, Idle, Sends
<1>5. AwaitedInv
  BY <1>1, <1>2 DEF AwaitedInv, InFlight
<1>6. HistoryWellFormed /\ AwaitedHistoryPairs /\ ReplyInHistory /\ ColdStartsClean
  <2>1. HistoryWellFormed
    BY <1>1, <1>2 DEF HistoryWellFormed
  <2>2. AwaitedHistoryPairs
    BY <1>1 DEF AwaitedHistoryPairs
  <2>3. ReplyInHistory /\ ColdStartsClean
    BY <1>2 DEF ReplyInHistory, ColdStartsClean
  <2>. QED BY <2>1, <2>2, <2>3
<1>. QED BY <1>3, <1>4, <1>5, <1>6 DEF IInv

LEMMA SendInv == ASSUME IInv, NEW i \in Sends, Send(i)  PROVE IInv'
<1>. DEFINE m == Message("user", i)
            n == Len(messages)
<1>1. /\ Idle(i) /\ turn < i /\ i \in Nat
      /\ \A j \in Sends : j < i => ~Idle(j)
      /\ \A j \in Sends : j > i => Idle(j)
  BY NextSend DEF Send
<1>2. m \in Messages /\ messages \in Seq(Messages)
  BY <1>1, SessionAssumption DEF IInv, TypeOK, Messages, Message, Sends
<1>3. /\ messages' \in Seq(Messages) /\ Len(messages') = n + 1 /\ n \in Nat
      /\ \A k \in 1..n : messages'[k] = messages[k] /\ messages[k] \in Messages
      /\ messages'[n + 1] = m
  BY <1>2, Appended DEF Send
<1>4. m.role = "user" /\ m.of = i
  BY DEF Message
<1>5. PICK given \in CacheStates : send' = [send EXCEPT ![i] =
         [NoSend EXCEPT !.status = "inflight", !.turn = turn', !.sent = messages',
                        !.cache = CacheState(given, turn'), !.own = given # NotGiven]]
  BY DEF Send
<1>6. turn \in Nat /\ turn' = turn + 1 /\ turn' \in 0..MaxSends
  BY <1>1, SessionAssumption DEF Send, IInv, TypeOK, Sends
<1>7. CacheState(given, turn') \in {NotGiven, "cold", "warm"}
  BY SessionAssumption DEF CacheState
<1>8. /\ send'[i].status = "inflight" /\ send'[i].sent = messages'
      /\ send'[i].cache = CacheState(given, turn') /\ send'[i].own = (given # NotGiven)
      /\ \A j \in Sends \ {i} : send'[j] = send[j]
  BY <1>5 DEF IInv, TypeOK, NoSend
<1>9. overlapped' = (overlapped \/ \E j \in Sends : InFlight(j))
  BY DEF Send
<1>10. TypeOK'
  <2>1. send'[i] \in [status: {"idle", "inflight", "replied", "resolved", "rejected"},
          turn: 0..MaxSends, cache: {NotGiven, "cold", "warm"}, own: BOOLEAN, sent: Seq(Messages),
          usage: Usages \cup {NoTokens}]
    BY <1>3, <1>5, <1>6, <1>7 DEF IInv, TypeOK, NoSend
  <2>2. send' = [send EXCEPT ![i] = send'[i]]
    BY <1>5 DEF IInv, TypeOK
  <2>. QED BY <1>3, <1>6, <1>9, <2>1, <2>2 DEF IInv, TypeOK, Send, Messages
<1>11. SendsInv'
  BY <1>1, <1>6, <1>8 DEF IInv, SendsInv, Idle, Sends
<1>12. SaidInv' /\ RepliedInv' /\ SystemInv'
  <2>1. \A k \in 1..Len(messages') : k \in 1..n \/ k = n + 1
    BY <1>3
  <2>2. \A j \in Sends : ~Idle(j) => ~Idle(j)'
    BY <1>8 DEF Idle
  <2>3. ~Idle(i)'
    BY <1>8 DEF Idle
  <2>4. SaidInv'
    BY <1>3, <1>4, <2>1, <2>2, <2>3 DEF IInv, SaidInv
  <2>5. RepliedInv' /\ SystemInv'
    BY <1>3, <1>4, <2>1 DEF IInv, RepliedInv, SystemInv
  <2>. QED BY <2>4, <2>5
<1>13. HistoryWellFormed'
  <2>0. \A k \in 1..Len(messages') : k \in 1..n \/ k = n + 1
    BY <1>3
  <2>1. \A k \in 1..n : messages[k].role = "user" => messages[k].of < i
    BY <1>1, <1>3 DEF IInv, SaidInv, Sends
  <2>2. \A k \in 1..n : messages[k].role = "assistant" =>
          send'[messages[k].of].status \in {"replied", "resolved"}
    BY <1>1, <1>8 DEF IInv, HistoryWellFormed, RepliedInv, Idle
  <2>3. (system' = system /\ n + 1 # 1) \/ ~system'
    BY <1>3 DEF IInv, HistoryWellFormed, Send, TypeOK
  <2>4. \A k \in 1..Len(messages') : (messages'[k].role = "system") = (k = 1 /\ system')
    BY <1>3, <1>4, <2>0, <2>3 DEF IInv, HistoryWellFormed, Send
  <2>5. \A k, l \in 1..Len(messages') :
       k < l /\ messages'[k].role = messages'[l].role =>
         /\ messages'[k].of # messages'[l].of
         /\ messages'[k].role = "user" => messages'[k].of < messages'[l].of
    <3>. SUFFICES ASSUME NEW k \in 1..Len(messages'), NEW l \in 1..Len(messages'),
                         k < l, messages'[k].role = messages'[l].role
                  PROVE  /\ messages'[k].of # messages'[l].of
                         /\ messages'[k].role = "user" => messages'[k].of < messages'[l].of
      OBVIOUS
    <3>1. k \in 1..n
      BY <1>3
    <3>2. CASE l \in 1..n
      BY <1>3, <3>1, <3>2 DEF IInv, HistoryWellFormed
    <3>3. CASE l = n + 1
      BY <1>1, <1>3, <1>4, <2>1, <3>1, <3>3 DEF IInv, SaidInv, Sends
    <3>. QED BY <2>0, <3>2, <3>3
  <2>6. \A k \in 1..Len(messages') : messages'[k].role = "assistant" =>
          send'[messages'[k].of].status \in {"replied", "resolved"}
    BY <1>3, <1>4, <2>0, <2>2
  <2>7. messages' # <<>>
    BY <1>3
  <2>. QED BY <2>4, <2>5, <2>6, <2>7 DEF HistoryWellFormed
<1>14. AwaitedInv'
  <2>. SUFFICES ASSUME ~overlapped'  PROVE AwaitedInv'
    BY DEF AwaitedInv
  <2>1. ~overlapped /\ \A j \in Sends : ~InFlight(j)
    BY <1>9
  <2>0. i # 0
    BY <1>1 DEF Sends
  <2>2. \A j \in Sends : InFlight(j)' => j = i
    BY <1>8, <2>1 DEF InFlight
  <2>3. messages'[Len(messages')] = m /\ messages' # <<>>
    BY <1>3
  <2>4. turn' # 0 /\ messages'[n + 1].of # 0 /\ n + 1 \in 1..Len(messages')
    BY <1>3, <1>4, <1>6, <2>0
  <2>5. \A j \in Sends : InFlight(j)' =>
          messages' # <<>> /\ messages'[Len(messages')] = Message("user", j)
    BY <2>2, <2>3
  <2>. QED BY <2>2, <2>4, <2>5 DEF AwaitedInv
<1>15. AwaitedHistoryPairs'
  <2>. SUFFICES ASSUME ~overlapped', NEW k \in 1..Len(messages'), messages'[k].role = "assistant"
                PROVE  k > 1 /\ messages'[k - 1] = Message("user", messages'[k].of)
    BY DEF AwaitedHistoryPairs
  <2>0. k # n + 1
    BY <1>3, <1>4
  <2>3. ~overlapped
    BY <1>9
  <2>1. k \in 1..n
    BY <1>3, <2>0
  <2>2. k > 1 /\ messages[k - 1] = Message("user", messages[k].of)
    BY <1>3, <2>1, <2>3 DEF IInv, AwaitedHistoryPairs
  <2>. QED BY <1>3, <2>1, <2>2
<1>16. ReplyInHistory'
  BY <1>3 DEF IInv, ReplyInHistory, Send
<1>17. ColdStartsClean'
  <2>. SUFFICES ASSUME ~overlapped', ~send'[i].own
                PROVE  (send'[i].cache = "cold") =
                         (\A k \in 1..Len(messages') : messages'[k].of \in {0, i})
    <3>1. send'[i].sent = messages' /\ \A j \in Sends : j # i => send'[j] = send[j]
      BY <1>8
    <3>2. ~overlapped' => ~overlapped
      BY <1>9
    <3>3. ColdStartsClean
      BY DEF IInv
    <3>. QED BY <3>1, <3>2, <3>3, ZenonT(60) DEF ColdStartsClean
  <2>0. given = NotGiven
    BY <1>8
  <2>1. send'[i].cache = "cold" <=> turn = 0
    <3>1. send'[i].cache = IF turn' = 1 THEN "cold" ELSE "warm"
      BY <1>8, <2>0 DEF CacheState
    <3>2. turn' = 1 <=> turn = 0
      BY <1>6
    <3>. QED BY <3>1, <3>2
  <2>2. turn = 0 <=> \A k \in 1..n : messages[k].of = 0
    BY <1>9 DEF IInv, AwaitedInv
  <2>3. \A k \in 1..n : messages[k].of # i
    <3>1. \A k \in 1..n : messages[k].role \in {"system", "user", "assistant"}
      BY <1>3 DEF Messages
    <3>2. i # 0
      BY <1>1 DEF Sends
    <3>. QED BY <1>1, <3>1, <3>2 DEF IInv, SaidInv, SystemInv, HistoryWellFormed, Idle
  <2>4. \A k \in 1..Len(messages') : k \in 1..n \/ k = n + 1
    BY <1>3
  <2>5. CASE turn = 0
    <3>1. \A k \in 1..Len(messages') : messages'[k].of \in {0, i}
      BY <1>3, <1>4, <2>2, <2>4, <2>5
    <3>. QED BY <2>1, <2>5, <3>1
  <2>6. CASE turn # 0
    <3>1. PICK k \in 1..n : messages[k].of # 0
      BY <2>2, <2>6
    <3>2. k \in 1..Len(messages') /\ messages'[k].of \notin {0, i}
      BY <1>3, <2>3, <3>1
    <3>. QED BY <2>1, <2>6, <3>2
  <2>. QED BY <2>5, <2>6
<1>. QED BY <1>10, <1>11, <1>12, <1>13, <1>14, <1>15, <1>16, <1>17 DEF IInv

\* A step of one send that changes neither the history nor the turns: its status
\* only, and a send that was idle can only be refused.
LEMMA StatusInv ==
  ASSUME IInv, NEW i \in Sends,
         NEW status \in {"rejected", "resolved"},
         send' = [send EXCEPT ![i].status = status],
         Idle(i) => \A j \in Sends : j < i => ~Idle(j),
         send[i].status # "replied" => status = "rejected" /\ ~send[i].status = "resolved",
         send[i].status = "replied" => status = "resolved",
         UNCHANGED <<system, messages, turn, tokens, resets, overlapped, completed>>
  PROVE  IInv'
<1>1. /\ send'[i].status = status /\ send'[i].sent = send[i].sent
      /\ send'[i].cache = send[i].cache /\ send'[i].own = send[i].own
      /\ \A j \in Sends \ {i} : send'[j] = send[j]
  BY DEF IInv, TypeOK
<1>2. TypeOK'
  <2>. DEFINE R == [status: {"idle", "inflight", "replied", "resolved", "rejected"}, turn: 0..MaxSends,
                    cache: {NotGiven, "cold", "warm"}, own: BOOLEAN, sent: Seq(Messages),
                    usage: Usages \cup {NoTokens}]
  <2>1. send \in [Sends -> R]
    BY DEF IInv, TypeOK
  <2>2. [send[i] EXCEPT !.status = status] \in R
    BY <2>1
  <2>3. send' = [send EXCEPT ![i] = [send[i] EXCEPT !.status = status]]
    OBVIOUS
  <2>. HIDE DEF R
  <2>4. send' \in [Sends -> R]
    BY <2>1, <2>2, <2>3
  <2>. QED BY <2>4 DEF R, IInv, TypeOK, Messages
<1>3. \A j \in Sends : /\ Idle(j)' => Idle(j) /\ j # i
                       /\ InFlight(j)' => InFlight(j)
  BY <1>1 DEF Idle, InFlight
<1>4. SendsInv'
  BY <1>1, <1>3, ZenonT(60) DEF IInv, SendsInv, Idle, Sends
<1>5. SaidInv' /\ RepliedInv' /\ SystemInv'
  BY <1>3 DEF IInv, SaidInv, RepliedInv, SystemInv
<1>6. AwaitedInv'
  BY <1>3 DEF IInv, AwaitedInv
<1>7. HistoryWellFormed'
  <2>1. \A k \in 1..Len(messages) : messages[k].role = "assistant" =>
          send'[messages[k].of].status \in {"replied", "resolved"}
    BY <1>1 DEF IInv, HistoryWellFormed, RepliedInv
  <2>. QED BY <2>1 DEF IInv, HistoryWellFormed
<1>8. AwaitedHistoryPairs' /\ ReplyInHistory'
  BY DEF IInv, AwaitedHistoryPairs, ReplyInHistory
<1>9. ColdStartsClean'
  <2>1. \A j \in Sends : /\ send'[j].sent = send[j].sent /\ send'[j].cache = send[j].cache
                          /\ send'[j].own = send[j].own
    BY <1>1
  <2>. QED BY <2>1 DEF IInv, ColdStartsClean
<1>. QED BY <1>2, <1>4, <1>5, <1>6, <1>7, <1>8, <1>9 DEF IInv

LEMMA FulfilledInv == ASSUME IInv, NEW i \in Sends, OnFulfilled(i)  PROVE IInv'
<1>. DEFINE m == Message("assistant", i)
            n == Len(messages)
<1>1. m \in Messages /\ messages \in Seq(Messages) /\ i # 0
  BY SessionAssumption DEF IInv, TypeOK, Messages, Message, Sends
<1>2. /\ messages' \in Seq(Messages) /\ Len(messages') = n + 1 /\ n \in Nat
      /\ \A k \in 1..n : messages'[k] = messages[k] /\ messages[k] \in Messages
      /\ messages'[n + 1] = m
  BY <1>1, Appended DEF OnFulfilled, AppendReply
<1>3. m.role = "assistant" /\ m.of = i
  BY DEF Message
<1>4. PICK usage \in Usages :
        /\ tokens' = AddUsage(usage)
        /\ send' = [send EXCEPT ![i].status = "replied", ![i].usage = usage]
  BY DEF OnFulfilled
<1>5. /\ send[i].status = "inflight" /\ send'[i].status = "replied"
      /\ send'[i].sent = send[i].sent
      /\ send'[i].cache = send[i].cache /\ send'[i].own = send[i].own
      /\ \A j \in Sends \ {i} : send'[j] = send[j]
  BY <1>4 DEF IInv, TypeOK, OnFulfilled, InFlight
<1>6. /\ completed' = completed \cup {i}
      /\ UNCHANGED <<system, turn, resets, overlapped>>
  BY DEF OnFulfilled
<1>7. TypeOK'
  <2>1. tokens' \in [prompt: Nat, completion: Nat]
    <3>1. usage \in [prompt: Nat, completion: Nat] /\ tokens \in [prompt: Nat, completion: Nat]
      BY SessionAssumption DEF IInv, TypeOK
    <3>2. /\ tokens.prompt + usage.prompt \in Nat
          /\ tokens.completion + usage.completion \in Nat
      BY <3>1
    <3>. QED BY <1>4, <3>2 DEF AddUsage
  <2>2. send' \in [Sends -> [status: {"idle", "inflight", "replied", "resolved", "rejected"},
          turn: 0..MaxSends, cache: {NotGiven, "cold", "warm"}, own: BOOLEAN, sent: Seq(Messages),
          usage: Usages \cup {NoTokens}]]
    <3>1. send'[i] = [send[i] EXCEPT !.status = "replied", !.usage = usage]
      BY <1>4 DEF IInv, TypeOK
    <3>2. send'[i] \in [status: {"idle", "inflight", "replied", "resolved", "rejected"},
          turn: 0..MaxSends, cache: {NotGiven, "cold", "warm"}, own: BOOLEAN, sent: Seq(Messages),
          usage: Usages \cup {NoTokens}]
      BY <3>1 DEF IInv, TypeOK
    <3>3. send' = [send EXCEPT ![i] = send'[i]]
      BY <1>4 DEF IInv, TypeOK
    <3>. QED BY <3>2, <3>3 DEF IInv, TypeOK
  <2>. QED BY <1>2, <1>6, <2>1, <2>2 DEF IInv, TypeOK, Messages
<1>8. \A j \in Sends : /\ Idle(j)' <=> Idle(j)
                       /\ InFlight(j)' => InFlight(j) /\ j # i
  BY <1>5 DEF Idle, InFlight
<1>9. \A k \in 1..Len(messages') : k \in 1..n \/ k = n + 1
  BY <1>2
<1>10. SendsInv'
  BY <1>6, <1>8 DEF IInv, SendsInv
<1>11. SaidInv' /\ RepliedInv' /\ SystemInv'
  <2>1. SaidInv'
    BY <1>2, <1>3, <1>8, <1>9 DEF IInv, SaidInv
  <2>2. RepliedInv' /\ SystemInv'
    BY <1>2, <1>3, <1>9 DEF IInv, RepliedInv, SystemInv
  <2>. QED BY <2>1, <2>2
<1>12. HistoryWellFormed'
  <2>1. \A k \in 1..n : messages[k].role = "assistant" => messages[k].of # i
    BY <1>5 DEF IInv, HistoryWellFormed
  <2>2. system => n # 0
    BY <1>2 DEF IInv, HistoryWellFormed, TypeOK
  <2>3. \A k \in 1..Len(messages') : (messages'[k].role = "system") = (k = 1 /\ system')
    BY <1>2, <1>3, <1>6, <1>9, <2>2 DEF IInv, HistoryWellFormed
  <2>4. \A k, l \in 1..Len(messages') :
       k < l /\ messages'[k].role = messages'[l].role =>
         /\ messages'[k].of # messages'[l].of
         /\ messages'[k].role = "user" => messages'[k].of < messages'[l].of
    <3>. SUFFICES ASSUME NEW k \in 1..Len(messages'), NEW l \in 1..Len(messages'),
                         k < l, messages'[k].role = messages'[l].role
                  PROVE  /\ messages'[k].of # messages'[l].of
                         /\ messages'[k].role = "user" => messages'[k].of < messages'[l].of
      OBVIOUS
    <3>1. k \in 1..n
      BY <1>2
    <3>2. CASE l \in 1..n
      BY <1>2, <3>1, <3>2 DEF IInv, HistoryWellFormed
    <3>3. CASE l = n + 1
      BY <1>2, <1>3, <2>1, <3>1, <3>3
    <3>. QED BY <1>9, <3>2, <3>3
  <2>5. \A k \in 1..Len(messages') : messages'[k].role = "assistant" =>
          send'[messages'[k].of].status \in {"replied", "resolved"}
    <3>1. \A k \in 1..n : messages[k].role = "assistant" =>
            send'[messages[k].of].status \in {"replied", "resolved"}
      BY <1>5, <2>1 DEF IInv, HistoryWellFormed, RepliedInv
    <3>. QED BY <1>2, <1>3, <1>5, <1>9, <3>1
  <2>6. messages' # <<>>
    BY <1>2
  <2>. QED BY <2>3, <2>4, <2>5, <2>6 DEF HistoryWellFormed
<1>13. ASSUME ~overlapped
       PROVE  /\ \A j \in Sends : ~InFlight(j)'
              /\ n # 0 /\ messages[n] = Message("user", i)
              /\ turn # 0
  <2>1. InFlight(i) /\ messages # <<>> /\ messages[n] = Message("user", i)
    BY <1>13 DEF OnFulfilled, IInv, AwaitedInv
  <2>2. n # 0
    BY <1>1, <2>1
  <2>3. n \in 1..Len(messages) /\ messages[n].of = i
    BY <1>2, <2>1, <2>2 DEF Message
  <2>4. turn # 0
    BY <1>1, <1>13, <2>3 DEF IInv, AwaitedInv
  <2>5. \A j \in Sends : ~InFlight(j)'
    BY <1>8, <1>13, <2>1 DEF IInv, AwaitedInv
  <2>. QED BY <2>1, <2>2, <2>4, <2>5
<1>14. AwaitedInv'
  <2>1. n + 1 \in 1..Len(messages') /\ messages'[n + 1].of # 0
    BY <1>1, <1>2, <1>3
  <2>. QED BY <1>6, <1>13, <2>1 DEF AwaitedInv
<1>15. AwaitedHistoryPairs'
  <2>. SUFFICES ASSUME ~overlapped, NEW k \in 1..Len(messages'), messages'[k].role = "assistant"
                PROVE  k > 1 /\ messages'[k - 1] = Message("user", messages'[k].of)
    BY <1>6 DEF AwaitedHistoryPairs
  <2>1. CASE k \in 1..n
    <3>1. k > 1 /\ messages[k - 1] = Message("user", messages[k].of)
      BY <1>2, <2>1 DEF IInv, AwaitedHistoryPairs
    <3>. QED BY <1>2, <2>1, <3>1
  <2>2. CASE k = n + 1
    <3>1. n \in 1..n /\ k - 1 = n /\ k > 1
      BY <1>2, <1>13, <2>2
    <3>. QED BY <1>2, <1>3, <1>13, <2>2, <3>1
  <2>. QED BY <1>9, <2>1, <2>2
<1>16. ReplyInHistory'
  <2>. SUFFICES ASSUME NEW j \in completed'
                PROVE  \E k \in 1..Len(messages') : messages'[k] = Message("assistant", j)
    BY DEF ReplyInHistory
  <2>1. CASE j = i
    <3>1. n + 1 \in 1..Len(messages')
      BY <1>2
    <3>. QED BY <1>2, <2>1, <3>1
  <2>2. CASE j \in completed
    BY <1>2, <2>2 DEF IInv, ReplyInHistory
  <2>. QED BY <1>6, <2>1, <2>2
<1>17. ColdStartsClean'
  <2>1. \A j \in Sends : /\ send'[j].sent = send[j].sent /\ send'[j].cache = send[j].cache
                          /\ send'[j].own = send[j].own
    BY <1>5
  <2>. QED BY <1>6, <2>1 DEF IInv, ColdStartsClean
<1>. QED BY <1>7, <1>10, <1>11, <1>12, <1>14, <1>15, <1>16, <1>17 DEF IInv

LEMMA ResetInv == ASSUME IInv, Reset  PROVE IInv'
<1>. USE SessionAssumption
<1>1. /\ messages' \in Seq(Messages) /\ Len(messages') \in {0, 1}
      /\ system <=> Len(messages') = 1
      /\ \A k \in 1..Len(messages') :
           k = 1 /\ messages'[k] = Message("system", 0) /\ messages'[k].role = "system"
           /\ messages'[k].of = 0
  <2>0. Message("system", 0) \in Messages
    BY DEF Message, Messages
  <2>1. CASE system
    BY <2>0, <2>1 DEF Reset, ResetMessages, Message
  <2>2. CASE ~system
    BY <2>2 DEF Reset, ResetMessages
  <2>. QED BY <2>1, <2>2
<1>2. /\ turn' = 0 /\ completed' = {} /\ UNCHANGED <<system, tokens, send>>
      /\ overlapped' = (overlapped \/ \E j \in Sends : InFlight(j))
  BY DEF Reset, ResetTurn
<1>3. TypeOK'
  <2>1. resets' \in 0..MaxResets /\ turn' \in 0..MaxSends
    BY <1>2 DEF Reset, IInv, TypeOK
  <2>2. overlapped' \in BOOLEAN
    BY <1>2
  <2>. QED BY <1>1, <1>2, <2>1, <2>2 DEF IInv, TypeOK, Messages
<1>4. SendsInv'
  BY <1>2 DEF IInv, SendsInv, Idle, Sends
<1>5. SaidInv' /\ RepliedInv' /\ SystemInv'
  BY <1>1 DEF SaidInv, RepliedInv, SystemInv
<1>6. AwaitedInv'
  BY <1>1, <1>2 DEF AwaitedInv, InFlight
<1>7. HistoryWellFormed'
  BY <1>1, <1>2, SMTT(30) DEF HistoryWellFormed
<1>8. AwaitedHistoryPairs'
  BY <1>1 DEF AwaitedHistoryPairs
<1>9. ReplyInHistory' /\ ColdStartsClean'
  BY <1>2 DEF IInv, ReplyInHistory, ColdStartsClean
<1>. QED BY <1>3, <1>4, <1>5, <1>6, <1>7, <1>8, <1>9 DEF IInv

LEMMA NextInv == IInv /\ [Next]_vars => IInv'
<1>. SUFFICES ASSUME IInv, [Next]_vars  PROVE IInv'
  OBVIOUS
<1>1. ASSUME NEW i \in Sends, Send(i)  PROVE IInv'
  BY <1>1, SendInv
<1>2. ASSUME NEW i \in Sends, RefuseSend(i)  PROVE IInv'
  <2>1. Idle(i) /\ \A j \in Sends : j < i => ~Idle(j)
    BY <1>2, NextSend DEF RefuseSend
  <2>. QED BY <1>2, <2>1, StatusInv DEF RefuseSend, HistoryIfRefused, Idle
<1>3. ASSUME NEW i \in Sends, OnFulfilled(i)  PROVE IInv'
  BY <1>3, FulfilledInv
<1>4. ASSUME NEW i \in Sends, OnRejected(i)  PROVE IInv'
  BY <1>4, StatusInv DEF OnRejected, InFlight, Idle
<1>5. ASSUME NEW i \in Sends, Resolve(i)  PROVE IInv'
  BY <1>5, StatusInv DEF Resolve, Idle
<1>6. CASE Reset
  BY <1>6, ResetInv
<1>7. CASE UNCHANGED vars
  <2>. USE <1>7 DEF vars
  <2>1. TypeOK' /\ SendsInv' /\ SaidInv' /\ RepliedInv' /\ SystemInv'
    BY DEF IInv, TypeOK, SendsInv, SaidInv, RepliedInv, SystemInv, Idle, Messages
  <2>2. AwaitedInv' /\ HistoryWellFormed' /\ AwaitedHistoryPairs' /\ ReplyInHistory' /\ ColdStartsClean'
    BY DEF IInv, AwaitedInv, HistoryWellFormed, AwaitedHistoryPairs, ReplyInHistory,
           ColdStartsClean, InFlight
  <2>. QED BY <2>1, <2>2 DEF IInv
<1>8. CASE Finished
  BY <1>7, <1>8 DEF Finished
<1>. QED BY <1>1, <1>2, <1>3, <1>4, <1>5, <1>6, <1>7, <1>8 DEF Next

\* The invariant holds throughout.
THEOREM Invariance == Spec => []IInv
BY InitInv, NextInv, PTL DEF Spec

\* Every variable of the session keeps its type.
THEOREM TypeCorrect == Spec => []TypeOK
BY Invariance, PTL DEF IInv

\* The history records the sends faithfully, however they overlap and settle
\* (session.go:83, 103 and 157).
THEOREM HistoriesAreWellFormed == Spec => []HistoryWellFormed
BY Invariance, PTL DEF IInv

\* A script that awaits each send gets a dialogue (session.go:99).
THEOREM AwaitedHistoriesPair == Spec => []AwaitedHistoryPairs
BY Invariance, PTL DEF IInv

\* A resolved reply is in the history unless a reset took it (session.go:99-118).
THEOREM RepliesAreKept == Spec => []ReplyInHistory
BY Invariance, PTL DEF IInv

\* A call stamped cold starts from an empty history (session.go:219-225).
THEOREM ColdCallsStartClean == Spec => []ColdStartsClean
BY Invariance, PTL DEF IInv

-----------------------------------------------------------------------------
(* The token totals.                                                       *)

SendRecords ==
  [status: {"idle", "inflight", "replied", "resolved", "rejected"}, turn: 0..MaxSends,
   cache: {NotGiven, "cold", "warm"}, own: BOOLEAN, sent: Seq(Messages),
   usage: Usages \cup {NoTokens}]

\* A send that was not fulfilled has reported nothing.
UsageInv ==
  \A i \in Sends : send[i].status \notin {"replied", "resolved"} => send[i].usage = NoTokens

LEMMA Totals ==
  TokensAddUp <=> /\ tokens.prompt = PromptSum!Fold(0, send)
                  /\ tokens.completion = CompletionSum!Fold(0, send)
BY DEF TokensAddUp, FoldLeft, MapThenFoldSet, Max,
       PromptSum!Fold, PromptSum!Top,
       CompletionSum!Fold, CompletionSum!Top

LEMMA TotalsNext ==
  TokensAddUp' <=> /\ tokens'.prompt = PromptSum!Fold(0, send')
                   /\ tokens'.completion = CompletionSum!Fold(0, send')
BY DEF TokensAddUp, FoldLeft, MapThenFoldSet, Max,
       PromptSum!Fold, PromptSum!Top,
       CompletionSum!Fold, CompletionSum!Top

\* What a send reports is two integers.
LEMMA Reported ==
  ASSUME NEW r \in SendRecords
  PROVE r.usage.prompt \in Int /\ r.usage.completion \in Int
<1>1. r.usage \in Usages \cup {NoTokens}
  BY DEF SendRecords
<1>2. NoTokens \in [prompt: Nat, completion: Nat]
  BY DEF NoTokens
<1>. QED BY <1>1, <1>2, SessionAssumption

\* When one send changes, each total changes by what it reports more.
LEMMA OneSendChanged ==
  ASSUME NEW s \in [Sends -> SendRecords], NEW i \in Sends, NEW x \in SendRecords
  PROVE /\ PromptSum!Fold(0, [s EXCEPT ![i] = x])
             = PromptSum!Fold(0, s) + x.usage.prompt - s[i].usage.prompt
        /\ CompletionSum!Fold(0, [s EXCEPT ![i] = x])
             = CompletionSum!Fold(0, s) + x.usage.completion - s[i].usage.completion
<1>. DEFINE t == [s EXCEPT ![i] = x]
<1>1. /\ s \in Seq(SendRecords) /\ t \in Seq(SendRecords) /\ Len(t) = Len(s)
      /\ i \in 1..Len(s) /\ t[i] = x /\ s[i] \in SendRecords
      /\ \A j \in 1..Len(s) : j # i => t[j] = s[j]
  BY SessionAssumption DEF Sends
<1>. HIDE DEF t
<1>2. PromptSum!Fold(0, t) = PromptSum!Fold(0, s) + x.usage.prompt - s[i].usage.prompt
  <2>. DEFINE W == [r \in SendRecords |-> r.usage.prompt]
  <2>1. W[x] = x.usage.prompt /\ W[s[i]] = s[i].usage.prompt
    BY <1>1
  <2>2. PromptSum!AddsWeight(SendRecords, W)
    BY Reported DEF PromptSum!AddsWeight, PlusPrompt
  <2>. HIDE DEF W
  <2>3. PromptSum!Fold(0, t) = PromptSum!Fold(0, s) + W[t[i]] - W[s[i]]
    BY <1>1, <2>2, PromptSum!SumOfOneChanged, SMTT(30)
  <2>. QED BY <1>1, <2>1, <2>3
<1>3. CompletionSum!Fold(0, t) = CompletionSum!Fold(0, s) + x.usage.completion - s[i].usage.completion
  <2>. DEFINE W == [r \in SendRecords |-> r.usage.completion]
  <2>1. W[x] = x.usage.completion /\ W[s[i]] = s[i].usage.completion
    BY <1>1
  <2>2. CompletionSum!AddsWeight(SendRecords, W)
    BY Reported DEF CompletionSum!AddsWeight, PlusCompletion
  <2>. HIDE DEF W
  <2>3. CompletionSum!Fold(0, t) = CompletionSum!Fold(0, s) + W[t[i]] - W[s[i]]
    BY <1>1, <2>2, CompletionSum!SumOfOneChanged, SMTT(30)
  <2>. QED BY <1>1, <2>1, <2>3
<1>. QED BY <1>2, <1>3 DEF t

\* Before any send is fulfilled both totals are 0.
LEMMA NothingReported ==
  PromptSum!Fold(0, [i \in Sends |-> NoSend]) = 0
  /\ CompletionSum!Fold(0, [i \in Sends |-> NoSend]) = 0
<1>1. [i \in Sends |-> NoSend] \in Seq({NoSend})
  BY SessionAssumption DEF Sends
<1>2. \A t \in {0}, x \in {NoSend} : PlusPrompt(t, x) \in {0} /\ PlusCompletion(t, x) \in {0}
  BY DEF PlusPrompt, PlusCompletion, NoSend, NoTokens
<1>3. PromptSum!Fold(0, [i \in Sends |-> NoSend]) \in {0}
  <2>. DEFINE z == 0  T == {0}  S == {NoSend}  s == [i \in Sends |-> NoSend]
  <2>1. z \in T /\ s \in Seq(S) /\ \A t \in T, x \in S : PlusPrompt(t, x) \in T
    BY <1>1, <1>2
  <2>. HIDE DEF z, T, S, s
  <2>2. PromptSum!Fold(z, s) \in T
    BY <2>1, PromptSum!FoldKeeps, Zenon
  <2>. QED BY <2>2 DEF z, T, s
<1>4. CompletionSum!Fold(0, [i \in Sends |-> NoSend]) \in {0}
  <2>. DEFINE z == 0  T == {0}  S == {NoSend}  s == [i \in Sends |-> NoSend]
  <2>1. z \in T /\ s \in Seq(S) /\ \A t \in T, x \in S : PlusCompletion(t, x) \in T
    BY <1>1, <1>2
  <2>. HIDE DEF z, T, S, s
  <2>2. CompletionSum!Fold(z, s) \in T
    BY <2>1, CompletionSum!FoldKeeps, Zenon
  <2>. QED BY <2>2 DEF z, T, s
<1>. QED BY <1>3, <1>4

\* A step of send i that reports x.usage where nothing else was reported.
LEMMA TotalsChange ==
  ASSUME IInv, UsageInv, TokensAddUp, NEW i \in Sends, NEW x \in SendRecords,
         send' = [send EXCEPT ![i] = x],
         tokens' = [prompt |-> tokens.prompt + x.usage.prompt - send[i].usage.prompt,
                    completion |-> tokens.completion + x.usage.completion
                                     - send[i].usage.completion],
         x.status \notin {"replied", "resolved"} => x.usage = NoTokens
  PROVE TokensAddUp' /\ UsageInv'
<1>1. send \in [Sends -> SendRecords]
  BY DEF IInv, TypeOK, SendRecords
<1>2. /\ PromptSum!Fold(0, send') = PromptSum!Fold(0, send) + x.usage.prompt
                                      - send[i].usage.prompt
      /\ CompletionSum!Fold(0, send') = CompletionSum!Fold(0, send) + x.usage.completion
                                          - send[i].usage.completion
  BY <1>1, OneSendChanged
<1>3. /\ tokens.prompt = PromptSum!Fold(0, send)
      /\ tokens.completion = CompletionSum!Fold(0, send)
  BY Totals
<1>4. TokensAddUp'
  BY <1>2, <1>3, TotalsNext
<1>5. UsageInv'
  BY <1>1 DEF UsageInv
<1>. QED BY <1>4, <1>5

\* A step that changes what is known of send i but not what it has reported.
LEMMA TotalsStay ==
  ASSUME IInv, UsageInv, TokensAddUp, NEW i \in Sends, NEW x \in SendRecords,
         send' = [send EXCEPT ![i] = x], tokens' = tokens, x.usage = send[i].usage,
         x.status \notin {"replied", "resolved"} => x.usage = NoTokens
  PROVE TokensAddUp' /\ UsageInv'
<1>1. send[i] \in SendRecords
  BY DEF IInv, TypeOK, SendRecords
<1>2. x.usage.prompt \in Int /\ x.usage.completion \in Int
  BY Reported
<1>3. tokens \in [prompt: Nat, completion: Nat]
  BY DEF IInv, TypeOK
<1>4. tokens' = [prompt |-> tokens.prompt + x.usage.prompt - send[i].usage.prompt,
                 completion |-> tokens.completion + x.usage.completion
                                  - send[i].usage.completion]
  BY <1>2, <1>3
<1>. QED BY <1>4, TotalsChange

LEMMA TotalsStep ==
  IInv /\ IInv' /\ UsageInv /\ TokensAddUp /\ [Next]_vars => (UsageInv /\ TokensAddUp)'
<1>. SUFFICES ASSUME IInv, IInv', UsageInv, TokensAddUp, [Next]_vars
              PROVE  TokensAddUp' /\ UsageInv'
  OBVIOUS
<1>0. send \in [Sends -> SendRecords] /\ send' \in [Sends -> SendRecords]
  BY DEF IInv, TypeOK, SendRecords
<1>1. ASSUME NEW i \in Sends, Send(i)  PROVE TokensAddUp' /\ UsageInv'
  <2>1. send[i].usage = NoTokens
    BY <1>1, NextSend DEF Send, Idle, UsageInv
  <2>2. send' = [send EXCEPT ![i] = send'[i]] /\ send'[i].usage = NoTokens
        /\ send'[i].status = "inflight"
    BY <1>0, <1>1 DEF Send, NoSend
  <2>3. send'[i] \in SendRecords /\ tokens' = tokens
    BY <1>0, <1>1 DEF Send
  <2>. QED BY <2>1, <2>2, <2>3, TotalsStay
<1>2. ASSUME NEW i \in Sends, RefuseSend(i)  PROVE TokensAddUp' /\ UsageInv'
  <2>1. send[i].usage = NoTokens
    BY <1>2 DEF RefuseSend, IsNextSend, UsageInv
  <2>2. send' = [send EXCEPT ![i] = send'[i]] /\ send'[i].usage = send[i].usage
    BY <1>0, <1>2 DEF RefuseSend, SendRecords
  <2>. QED BY <1>0, <1>2, <2>1, <2>2, TotalsStay DEF RefuseSend
<1>3. ASSUME NEW i \in Sends, OnFulfilled(i)  PROVE TokensAddUp' /\ UsageInv'
  <2>1. send[i].usage = NoTokens
    BY <1>3 DEF OnFulfilled, InFlight, UsageInv
  <2>2. PICK usage \in Usages : /\ tokens' = AddUsage(usage)
                                /\ send' = [send EXCEPT ![i].status = "replied", ![i].usage = usage]
    BY <1>3 DEF OnFulfilled
  <2>3. send' = [send EXCEPT ![i] = send'[i]] /\ send'[i].usage = usage
        /\ send'[i].status = "replied"
    <3>1. send[i] \in SendRecords
      BY <1>0
    <3>2. send'[i] = [send[i] EXCEPT !.status = "replied", !.usage = usage]
          /\ send' = [send EXCEPT ![i] = send'[i]]
      BY <1>0, <2>2
    <3>. QED BY <3>1, <3>2 DEF SendRecords
  <2>4. tokens' = [prompt |-> tokens.prompt + usage.prompt - send[i].usage.prompt,
                   completion |-> tokens.completion + usage.completion
                                    - send[i].usage.completion]
    <3>1. tokens \in [prompt: Nat, completion: Nat] /\ usage \in [prompt: Nat, completion: Nat]
      BY SessionAssumption DEF IInv, TypeOK
    <3>2. send[i].usage.prompt = 0 /\ send[i].usage.completion = 0
      BY <2>1 DEF NoTokens
    <3>3. tokens.prompt + usage.prompt - 0 = tokens.prompt + usage.prompt
          /\ tokens.completion + usage.completion - 0 = tokens.completion + usage.completion
      BY <3>1
    <3>. QED BY <2>2, <3>2, <3>3, Zenon DEF AddUsage
  <2>. QED BY <1>0, <2>3, <2>4, TotalsChange
<1>4. ASSUME NEW i \in Sends, OnRejected(i)  PROVE TokensAddUp' /\ UsageInv'
  <2>1. send[i].usage = NoTokens
    BY <1>4 DEF OnRejected, InFlight, UsageInv
  <2>2. send' = [send EXCEPT ![i] = send'[i]] /\ send'[i].usage = send[i].usage
    BY <1>0, <1>4 DEF OnRejected, SendRecords
  <2>. QED BY <1>0, <1>4, <2>1, <2>2, TotalsStay DEF OnRejected
<1>5. ASSUME NEW i \in Sends, Resolve(i)  PROVE TokensAddUp' /\ UsageInv'
  <2>1. send' = [send EXCEPT ![i] = send'[i]] /\ send'[i].usage = send[i].usage
        /\ send'[i].status = "resolved"
    BY <1>0, <1>5 DEF Resolve, SendRecords
  <2>. QED BY <1>0, <1>5, <2>1, TotalsStay DEF Resolve
<1>6. ASSUME UNCHANGED <<send, tokens>>  PROVE TokensAddUp' /\ UsageInv'
  BY <1>6, Totals, TotalsNext DEF UsageInv
<1>. QED BY <1>1, <1>2, <1>3, <1>4, <1>5, <1>6 DEF Next, Reset, Finished, vars

\* The token totals are the sums over the sends of what each reported: a reply is
\* counted once, in whichever order the sends settle, and neither a failure nor a
\* reset takes anything back (session.go:110-115).
THEOREM TotalsAddUp == Spec => []TokensAddUp
<1>1. Init => TokensAddUp /\ UsageInv
  <2>. SUFFICES ASSUME Init  PROVE TokensAddUp /\ UsageInv
    OBVIOUS
  <2>1. tokens.prompt = 0 /\ tokens.completion = 0
    BY DEF Init, NoTokens
  <2>2. TokensAddUp
    BY <2>1, NothingReported, Totals DEF Init
  <2>3. UsageInv
    BY DEF Init, UsageInv, NoSend
  <2>. QED BY <2>2, <2>3
<1>. QED BY <1>1, TotalsStep, Invariance, PTL DEF Spec

=============================================================================
