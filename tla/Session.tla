------------------------------ MODULE Session -------------------------------
(***************************************************************************)
(* llm.Session (session.go): the conversation one script drives over one   *)
(* Client.  Everything here runs on the VU's event loop, one callback at a *)
(* time, but a script may send without awaiting the previous send, or      *)
(* reset while one is in flight, and the chat calls settle in any order.   *)
(*                                                                         *)
(* A message is its role and the send it belongs to.  The chat call is     *)
(* ChatCall's, reduced to whether its promise resolves or rejects.         *)
(***************************************************************************)
EXTENDS Integers, Sequences, SequencesExt

CONSTANTS
  MaxSends,    \* bound: send() calls
  MaxResets,   \* bound: reset() calls
  Systems,     \* whether the session has a system prompt: a set of BOOLEAN
  CacheStates, \* cache_state the script may pass to a send, or NotGiven
  Usages       \* [prompt, completion] token counts a reply may report

\* The empty string.
NotGiven == "none"

ASSUME SessionAssumption ==
  /\ MaxSends \in Nat /\ MaxResets \in Nat
  /\ Systems \subseteq BOOLEAN
  /\ CacheStates \subseteq {NotGiven, "cold", "warm"}
  /\ Usages \subseteq [prompt: Nat, completion: Nat]

Sends == 1..MaxSends

VARIABLES
  system,      \* s.system # ""
  messages,    \* s.messages
  turn,        \* s.turn
  tokens,      \* s.tokens
  send,        \* send[i]: the i-th send() of the script and the request it made
  resets,      \* reset() calls so far (only to bound the model)
  overlapped,  \* auxiliary: a send or a reset met a send still in flight
  completed    \* auxiliary: the sends fulfilled since the last reset

vars == <<system, messages, turn, tokens, send, resets, overlapped, completed>>

-----------------------------------------------------------------------------

Message(role, i) == [role |-> role, of |-> i]

NoTokens == [prompt |-> 0, completion |-> 0]
NoSend == [status |-> "idle", turn |-> 0, cache |-> NotGiven, own |-> FALSE,
           sent |-> <<>>, usage |-> NoTokens]

\* The sends are numbered in the order the script makes them.
IsNextSend(i) == send[i].status = "idle" /\ \A j \in 1..(i - 1) : send[j].status # "idle"

\* Until its reply is in the history, or its failure is reported.
InFlight(i) == send[i].status = "inflight"

\* Mutant: off by one.
CacheStateLate(given, n) == IF given # NotGiven THEN given ELSE IF n <= 2 THEN "cold" ELSE "warm"

\* injectSessionTags: the script's own cache_state stands.
CacheState(given, n) == IF given # NotGiven THEN given ELSE IF n = 1 THEN "cold" ELSE "warm"

\* Send: the request takes a copy of the history, own message included.
Send(i) ==
  /\ IsNextSend(i)
  /\ turn' = turn + 1
  /\ messages' = Append(messages, Message("user", i))
  /\ \E given \in CacheStates :
       send' = [send EXCEPT ![i] =
         [NoSend EXCEPT !.status = "inflight", !.turn = turn', !.sent = messages',
                        !.cache = CacheState(given, turn'), !.own = given # NotGiven]]
  /\ overlapped' = (overlapped \/ \E j \in Sends : InFlight(j))
  /\ UNCHANGED <<system, tokens, resets, completed>>

\* Mutant: a refused send takes the last message back.
HistoryPopped == SubSeq(messages, 1, Len(messages) - 1)

\* parseSendArg comes before the first change to the session.
HistoryIfRefused == messages

RefuseSend(i) ==
  /\ IsNextSend(i)
  /\ messages' = HistoryIfRefused
  /\ send' = [send EXCEPT ![i].status = "rejected"]
  /\ UNCHANGED <<system, turn, tokens, resets, overlapped, completed>>

\* Mutant: completion tokens set, not added.
AddUsageLast(usage) ==
  [prompt |-> tokens.prompt + usage.prompt, completion |-> usage.completion]

AddUsage(usage) ==
  [prompt |-> tokens.prompt + usage.prompt, completion |-> tokens.completion + usage.completion]

\* Mutant: left out while a later send is in flight.
AppendReplyInTurn(i) ==
  IF \E j \in Sends : j > i /\ InFlight(j)
  THEN messages ELSE Append(messages, Message("assistant", i))

AppendReply(i) == Append(messages, Message("assistant", i))

\* onFulfilled, in the loop turn that resolves the chat promise; it ends by
\* queueing the resolution of the script's own promise.
OnFulfilled(i) ==
  /\ InFlight(i)
  /\ messages' = AppendReply(i)
  /\ \E usage \in Usages :
       /\ tokens' = AddUsage(usage)
       /\ send' = [send EXCEPT ![i].status = "replied", ![i].usage = usage]
  /\ completed' = completed \cup {i}
  /\ UNCHANGED <<system, turn, resets, overlapped>>

\* onRejected: the user message and the turn stay.
OnRejected(i) ==
  /\ InFlight(i)
  /\ send' = [send EXCEPT ![i].status = "rejected"]
  /\ UNCHANGED <<system, messages, turn, tokens, resets, overlapped, completed>>

\* A later turn of the event loop: the script sees the reply.
Resolve(i) ==
  /\ send[i].status = "replied"
  /\ send' = [send EXCEPT ![i].status = "resolved"]
  /\ UNCHANGED <<system, messages, turn, tokens, resets, overlapped, completed>>

\* Mutants: the turn counter steps back; the system prompt is dropped.
ResetTurnBack == turn - 1
ResetMessagesBare == <<>>

\* resetMessages: the system prompt stays.
ResetMessages == IF system THEN <<Message("system", 0)>> ELSE <<>>

\* s.turn = 0
ResetTurn == 0

Reset ==
  /\ resets < MaxResets
  /\ messages' = ResetMessages
  /\ turn' = ResetTurn
  /\ resets' = resets + 1
  /\ overlapped' = (overlapped \/ \E j \in Sends : InFlight(j))
  /\ completed' = {}
  /\ UNCHANGED <<system, tokens, send>>

Init ==
  /\ system \in Systems
  /\ messages = ResetMessages
  /\ turn = 0 /\ tokens = NoTokens
  /\ send = [i \in Sends |-> NoSend]
  /\ resets = 0 /\ overlapped = FALSE /\ completed = {}

\* The script has nothing left to do.
Finished ==
  /\ resets = MaxResets
  /\ \A i \in Sends : send[i].status \in {"resolved", "rejected"}
  /\ UNCHANGED vars

Next ==
  \/ \E i \in Sends :
       Send(i) \/ RefuseSend(i) \/ OnFulfilled(i) \/ OnRejected(i) \/ Resolve(i)
  \/ Reset \/ Finished

Spec == Init /\ [][Next]_vars

-----------------------------------------------------------------------------

Messages == [role: {"system", "user", "assistant"}, of: 0..MaxSends]

TypeOK ==
  /\ system \in Systems
  /\ messages \in Seq(Messages)
  /\ turn \in 0..MaxSends
  /\ tokens \in [prompt: Nat, completion: Nat]
  /\ send \in [Sends ->
       [status: {"idle", "inflight", "replied", "resolved", "rejected"}, turn: 0..MaxSends,
        cache: {NotGiven, "cold", "warm"}, own: BOOLEAN, sent: Seq(Messages),
        usage: Usages \cup {NoTokens}]]
  /\ resets \in 0..MaxResets
  /\ overlapped \in BOOLEAN
  /\ completed \subseteq Sends

\* However the sends overlap and settle, and whatever resets come between, the
\* history records them faithfully: the system prompt first and only there, user
\* messages once each and in the order of the sends, and each reply once, of a
\* send that was fulfilled (session.go:83, 103 and 157).
HistoryWellFormed ==
  /\ \A k \in 1..Len(messages) : (messages[k].role = "system") = (k = 1 /\ system)
  /\ system => messages # <<>>
  /\ \A k, l \in 1..Len(messages) :
       k < l /\ messages[k].role = messages[l].role =>
         /\ messages[k].of # messages[l].of
         /\ messages[k].role = "user" => messages[k].of < messages[l].of
  /\ \A k \in 1..Len(messages) : messages[k].role = "assistant" =>
       send[messages[k].of].status \in {"replied", "resolved"}

\* A script that awaits each send gets a dialogue: every reply stands right
\* after its own user message.
AwaitedHistoryPairs ==
  ~overlapped => \A k \in 1..Len(messages) : messages[k].role = "assistant" =>
    k > 1 /\ messages[k - 1] = Message("user", messages[k].of)

\* When a send's promise resolves its reply is in the history, whichever order
\* the calls in flight settle in, unless a reset took it (session.go:99-118).
ReplyInHistory ==
  \A i \in completed : \E k \in 1..Len(messages) : messages[k] = Message("assistant", i)

\* A call stamped cold by the session starts from an empty history, when the
\* script awaits its sends: nothing but the system prompt precedes its message,
\* and a warm one always has a turn before it (session.go:219-225).
ColdStartsClean ==
  ~overlapped => \A i \in Sends : send[i].sent # <<>> /\ ~send[i].own =>
    (send[i].cache = "cold") =
      (\A k \in 1..Len(send[i].sent) : send[i].sent[k].of \in {0, i})

PlusPrompt(n, s) == n + s.usage.prompt
PlusCompletion(n, s) == n + s.usage.completion

\* tokens() adds up what the fulfilled sends reported, each once, and no reset
\* or failure changes it (session.go:110-115, "Token totals are preserved").
TokensAddUp ==
  /\ tokens.prompt = FoldLeft(PlusPrompt, 0, send)
  /\ tokens.completion = FoldLeft(PlusCompletion, 0, send)

=============================================================================
