------------------------------- MODULE Reply --------------------------------
(***************************************************************************)
(* What a chat call makes of the provider's reply: the tool calls and the  *)
(* token counts, assembled from the events of a stream (parseStream,       *)
(* parseAnthropicStream, parseResponsesStream, parseProviderWireV4Stream)  *)
(* or read from one document (unary.go).  The times and chunk counts of    *)
(* the same events are module ChatStream's.                                *)
(*                                                                         *)
(* A reply is one text, the calls the model makes, each an id and the      *)
(* number of fragments of its arguments, and a usage report.  An id stands *)
(* for the call's name too; 0 is the empty string.                         *)
(***************************************************************************)
EXTENDS Naturals, Sequences, FiniteSets, Translate

VARIABLES
  reply,     \* the provider's reply
  told,      \* told[i]: how much of call i the provider has sent
  usageTold, \* how much of the usage report: 0 nothing, 1 message_start, 2 all
  toolBuf,   \* the calls assembled so far, by index
  toolOrder, \* the indexes in the order they came
  result,    \* text and usage read so far; calls once the reader returns
  status     \* "none", "reading", "complete", or "cut": the body ended early

replyVars == <<reply, told, usageTold, toolBuf, toolOrder, result, status>>

NoUsage == [prompt |-> 0, completion |-> 0, cached |-> 0, write |-> 0, thinking |-> 0]
NoReply == [text |-> 0, calls |-> <<>>,
            usage |-> [input |-> 0, read |-> 0, write |-> 0, early |-> 0,
                       output |-> 0, thinking |-> 0]]
NoResult == [text |-> 0, calls |-> <<>>, usage |-> NoUsage]
NoToolCall == [id |-> 0, args |-> <<>>]
EmptyBuf == [i \in {} |-> NoToolCall]

Untold == [opened |-> FALSE, parts |-> 0, done |-> 0]

Indexes == DOMAIN reply.calls
Whole(i) == WholeArguments(reply.calls[i].id, reply.calls[i].of)

-----------------------------------------------------------------------------
(* Usage.  Anthropic's input count leaves out both cache buckets; OpenAI's *)
(* has the cached tokens in it.  V4 reports two totals.                    *)

PromptInclusive(u) == u.input + u.read + u.write

\* message_start
AnthropicStart(usage, u) ==
  [usage EXCEPT !.prompt = PromptInclusive(u), !.cached = u.read, !.write = u.write,
                !.completion = IF u.early > @ THEN u.early ELSE @]

\* message_delta
AnthropicDelta(usage, u) ==
  IF u.output = 0 THEN usage
  ELSE [usage EXCEPT !.completion = u.output, !.thinking = u.thinking]

\* The usage chunk of chat completions, and the terminal event of Responses.
OpenAIUsage(usage, u) ==
  [usage EXCEPT !.prompt = u.input, !.completion = u.output, !.cached = u.read,
                !.thinking = u.thinking]

V4Usage(usage, u) == [usage EXCEPT !.prompt = u.input, !.completion = u.output]

-----------------------------------------------------------------------------
(* Tool calls.                                                             *)

\* The entry at an index, made when it is missing.
ToolAt(i) == IF i \in DOMAIN toolBuf THEN toolBuf[i] ELSE NoToolCall

SetTool(i, call) ==
  /\ toolBuf' = [j \in DOMAIN toolBuf \cup {i} |-> IF j = i THEN call ELSE toolBuf[j]]
  /\ toolOrder' = IF i \in DOMAIN toolBuf THEN toolOrder ELSE Append(toolOrder, i)

\* Mutant: the calls stay in the order their first events came.
ArrivedToolCalls == [k \in DOMAIN toolOrder |-> toolBuf[toolOrder[k]]]

\* The k-th smallest of a set of indexes.
Kth(S, k) == CHOOSE i \in S : Cardinality({j \in S : j <= i}) = k

OrderedToolCalls ==
  LET came == {toolOrder[k] : k \in DOMAIN toolOrder}
  IN [k \in DOMAIN toolOrder |-> toolBuf[Kth(came, k)]]

-----------------------------------------------------------------------------
(* A reply that is one document (unary.go).                                *)

UnaryReply(calls, usage) == [text |-> reply.text, calls |-> calls, usage |-> usage]

\* The argument string of each call, whatever is in it.
UnaryCalls == [i \in Indexes |-> [id |-> reply.calls[i].id, args |-> Whole(i)]]

ParseChatCompletion == UnaryReply(UnaryCalls, OpenAIUsage(NoUsage, reply.usage))

\* A message's input is raw JSON: {} when the call has none.
ParseAnthropicMessage ==
  LET u == reply.usage
      ObjectOf(call) == [call EXCEPT !.args = IF @ = <<>> THEN EmptyObject ELSE @]
  IN UnaryReply([i \in Indexes |-> ObjectOf(UnaryCalls[i])],
                [prompt |-> u.input + u.read + u.write, completion |-> u.output,
                 cached |-> u.read, write |-> u.write, thinking |-> u.thinking])

ParseResponsesObject == UnaryReply(UnaryCalls, OpenAIUsage(NoUsage, reply.usage))

\* Text parts only.
ParseProviderWireV4Unary == UnaryReply(<<>>, V4Usage(NoUsage, reply.usage))

\* unaryParserFor(c.cfg.Wire)
ParseUnary(w) ==
  CASE w = "anthropic" -> ParseAnthropicMessage
    [] w = "responses" -> ParseResponsesObject
    [] w = "providerwire-v4" -> ParseProviderWireV4Unary
    [] OTHER -> ParseChatCompletion

-----------------------------------------------------------------------------
(* The events of a stream.  Anthropic sends its blocks one after another;  *)
(* on the other wires the calls are told apart by their index only.        *)

InTurn(w, i) ==
  w = "anthropic" =>
    \A j \in Indexes : j < i => told[j].opened /\ told[j].parts = reply.calls[j].of

\* The provider says nothing of its content after the usage report.
Telling == status = "reading" /\ usageTold < 2

MessageStart(w) ==
  /\ Telling /\ w = "anthropic" /\ usageTold = 0
  /\ usageTold' = 1
  /\ result' = [result EXCEPT !.usage = AnthropicStart(@, reply.usage)]
  /\ UNCHANGED <<reply, told, toolBuf, toolOrder, status>>

Started(w) == Telling /\ (w = "anthropic" => usageTold = 1)

TextDelta(w) ==
  /\ Started(w) /\ result.text # reply.text
  /\ result' = [result EXCEPT !.text = reply.text]
  /\ UNCHANGED <<reply, told, usageTold, toolBuf, toolOrder, status>>

\* A chat-completions delta with the call's id, alone or with the first fragment;
\* content_block_start; response.output_item.added.
OpenCall(w, i) ==
  /\ Started(w) /\ InTurn(w, i) /\ ~told[i].opened
  /\ \E parts \in {0} \cup (IF w = "openai" /\ reply.calls[i].of > 0 THEN {1} ELSE {}) :
       /\ told' = [told EXCEPT ![i].opened = TRUE, ![i].parts = parts]
       /\ SetTool(i, [ToolAt(i) EXCEPT !.id = reply.calls[i].id,
                                       !.args = @ \o SubSeq(Whole(i), 1, parts)])
  /\ UNCHANGED <<reply, usageTold, result, status>>

\* Mutant: a fragment goes to the call that came last.
FragmentTarget(i) == IF toolOrder = <<>> THEN i ELSE toolOrder[Len(toolOrder)]

\* The call a fragment belongs to.
TargetOf(i) == i

\* A fragment of the arguments.
ArgumentsDelta(w, i) ==
  /\ Started(w) /\ told[i].opened /\ told[i].done = 0
  /\ told[i].parts < reply.calls[i].of
  /\ told' = [told EXCEPT ![i].parts = @ + 1]
  /\ LET t == TargetOf(i) IN
       SetTool(t, [ToolAt(t) EXCEPT !.args = Append(@, Whole(i)[told'[i].parts])])
  /\ UNCHANGED <<reply, usageTold, result, status>>

\* A fragment of a Responses reply that never comes.
DroppedDelta(w, i) ==
  /\ Started(w) /\ w = "responses" /\ told[i].opened /\ told[i].done = 0
  /\ told[i].parts < reply.calls[i].of
  /\ told' = [told EXCEPT ![i].parts = @ + 1]
  /\ UNCHANGED <<reply, usageTold, toolBuf, toolOrder, result, status>>

\* Authoritative: what was assembled from the fragments is replaced.
DoneArguments(i) == IF Whole(i) = <<>> THEN ToolAt(i).args ELSE Whole(i)

\* response.function_call_arguments.done, then response.output_item.done.
CallDone(w, i) ==
  /\ Started(w) /\ w = "responses" /\ told[i].opened
  /\ told[i].parts = reply.calls[i].of /\ told[i].done < 2
  /\ told' = [told EXCEPT ![i].done = @ + 1]
  /\ SetTool(i, [ToolAt(i) EXCEPT !.id = reply.calls[i].id, !.args = DoneArguments(i)])
  /\ UNCHANGED <<reply, usageTold, result, status>>

ContentTold(w) ==
  /\ result.text = reply.text
  /\ \A i \in Indexes : /\ told[i].opened /\ told[i].parts = reply.calls[i].of
                        /\ w = "responses" => told[i].done = 2

\* message_delta, the usage chunk, the V4 finish part.
TellUsage(w) ==
  /\ Started(w) /\ w # "responses" /\ ContentTold(w)
  /\ usageTold' = 2
  /\ result' = [result EXCEPT !.usage =
       CASE w = "anthropic" -> AnthropicDelta(@, reply.usage)
         [] w = "openai" -> OpenAIUsage(@, reply.usage)
         [] OTHER -> V4Usage(@, reply.usage)]
  /\ UNCHANGED <<reply, told, toolBuf, toolOrder, status>>

\* message_stop, [DONE], the end of a V4 body, response.completed with its usage.
Terminal(w) ==
  /\ status = "reading"
  /\ IF w = "responses" THEN ContentTold(w) ELSE usageTold = 2
  /\ status' = "complete"
  /\ result' = [result EXCEPT !.calls = OrderedToolCalls,
                 !.usage = IF w = "responses" THEN OpenAIUsage(@, reply.usage) ELSE @]
  /\ UNCHANGED <<reply, told, usageTold, toolBuf, toolOrder>>

\* The body ends before the terminal event, or the token budget or the deadline
\* does: the reader returns what it has.
Cut ==
  /\ status = "reading"
  /\ status' = "cut"
  /\ result' = [result EXCEPT !.calls = OrderedToolCalls]
  /\ UNCHANGED <<reply, told, usageTold, toolBuf, toolOrder>>

ReadStep(w) ==
  \/ MessageStart(w) \/ TextDelta(w) \/ TellUsage(w) \/ Terminal(w) \/ Cut
  \/ \E i \in Indexes :
       OpenCall(w, i) \/ ArgumentsDelta(w, i) \/ DroppedDelta(w, i) \/ CallDone(w, i)

NoReplyYet ==
  /\ reply = NoReply /\ told = <<>> /\ usageTold = 0
  /\ toolBuf = EmptyBuf /\ toolOrder = <<>> /\ result = NoResult /\ status = "none"

=============================================================================
