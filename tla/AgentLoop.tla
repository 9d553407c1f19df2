----------------------------- MODULE AgentLoop ------------------------------
(***************************************************************************)
(* A tool-calling conversation (examples/agent.js), which may begin with   *)
(* an embedding (Embed, examples/rag.js): a script keeps the messages in   *)
(* chat-completions form, each chat call translates them for its wire and  *)
(* builds a body (RequestBody, Translate), reads the reply (Reply), and    *)
(* the script appends what the reply said and the results of the tools     *)
(* the model called.                                                       *)
(***************************************************************************)
EXTENDS Integers, Sequences, SequencesExt, RequestBody, Reply, Embed

CONSTANTS
  Replies,     \* what a provider may reply: [text: BOOLEAN, calls, usage]; calls is the
               \* number of argument fragments of each call
  Forms,       \* how a script writes a content: a subset of {"string", "parts"}
  Modes,       \* whether calls are unary: a set of BOOLEAN
  MaxMessages, \* bound: messages of the conversation when the script asks
  MaxWords,    \* bound: user and system messages among them
  MaxReplies   \* bound: chat calls

ASSUME LoopAssumption ==
  /\ Forms \subseteq {"string", "parts"} /\ Modes \subseteq BOOLEAN
  /\ MaxMessages \in Nat /\ MaxWords \in Nat /\ MaxReplies \in Nat

\* The first output count of a stream is a running one (anthropic.go:212-216), and the
\* tokens spent on thinking are part of the output.
ASSUME RepliesAssumption ==
  \A r \in Replies :
    /\ r.text \in BOOLEAN /\ r.calls \in Seq(Nat)
    /\ r.usage \in [input: Nat, read: Nat, write: Nat, early: Nat, output: Nat, thinking: Nat]
    /\ r.usage.early <= r.usage.output /\ r.usage.thinking <= r.usage.output

VARIABLES
  messages,    \* the script's own array
  asked,       \* chat calls made
  said         \* auxiliary: the calls the providers' replies held, as meant, and
               \* whether the reply was cut

loopVars == <<messages, asked, said>>
vars == <<messages, asked, said, bodyVars, replyVars, embedVars>>

-----------------------------------------------------------------------------

\* The text of the next message.
NextText == Len(messages) + 1

Called(msg) == IF HasCalls(msg) THEN {msg.calls[k].id : k \in DOMAIN msg.calls} ELSE {}
CalledIds == UNION {Called(messages[k]) : k \in DOMAIN messages}
AnsweredIds == {messages[k].id : k \in {j \in DOMAIN messages : messages[j].role = "tool"}}

NoGivens == [schema |-> FALSE, system |-> FALSE, prompt |-> FALSE, unary |-> FALSE,
             ignoreEOS |-> FALSE]

NoRequest ==
  /\ body = {} /\ left = {} /\ out = [f \in {} |-> f] /\ given = NoGivens /\ phase = "idle"

\* The script runs: no call is pending.
Idle == phase = "idle" /\ status = "none"

Write(msg) ==
  /\ Idle /\ Len(messages) < MaxMessages
  /\ messages' = Append(messages, msg)
  /\ UNCHANGED <<asked, said, bodyVars, replyVars>>

\* The user's words, or an instruction in the middle of the conversation.
Words == {k \in DOMAIN messages : messages[k].role \in {"user", "system"}}

Say == Cardinality(Words) < MaxWords /\ \E form \in Forms : Write(UserMessage(NextText, form))
Instruct ==
  Cardinality(Words) < MaxWords /\ \E form \in Forms : Write(SystemMessage(NextText, form))

\* The result of one tool call; tools that run side by side answer in any order.
Answer(id) ==
  /\ id \in CalledIds \ AnsweredIds
  /\ Write(ToolMessage(id))

\* What of the request's values the translations depend on.
GivenBy(list, unary) ==
  [NoGivens EXCEPT
     !.schema = TRUE,
     !.unary = unary,
     !.system = IF wire = "responses" THEN ResponsesInput(list).instructions # <<>>
                ELSE TranslateMessages(list).system # <<>>,
     !.prompt = ProviderWireV4Accepts(list)]

\* client.chat: the goroutine starts to build the body.
Ask ==
  /\ Idle /\ asked < MaxReplies
  /\ messages # <<>> /\ messages[Len(messages)].role # "assistant"
  /\ \E fields \in Bodies, unary \in Modes :
       body' = fields /\ left' = fields /\ given' = GivenBy(messages, unary)
  /\ out' = [f \in {} |-> f] /\ phase' = "ranging"
  /\ asked' = asked + 1
  /\ UNCHANGED <<wire, messages, said, replyVars>>

Build == status = "none" /\ BuildStep /\ UNCHANGED <<loopVars, replyVars>>

\* What a provider may reply over a wire.  A V4 request carries no tools; the cached
\* tokens are part of the input count of OpenAI's APIs.
RepliesOver(w) ==
  {r \in Replies : /\ w = "providerwire-v4" => r.calls = <<>>
                   /\ w \in {"openai", "responses"} => r.usage.read <= r.usage.input}

\* The reply to this call: its texts and ids are new to the conversation.
ReplyOf(r) ==
  [text |-> IF r.text THEN NextText ELSE 0,
   calls |-> [i \in DOMAIN r.calls |-> [id |-> Len(said) + i, of |-> r.calls[i]]],
   usage |-> r.usage]

MeantBy(rep) ==
  [i \in DOMAIN rep.calls |->
     [id |-> rep.calls[i].id, args |-> WholeArguments(rep.calls[i].id, rep.calls[i].of),
      cut |-> FALSE]]

\* The body is marshalled and gone.
HandedOver ==
  body' = {} /\ left' = {} /\ out' = [f \in {} |-> f] /\ given' = NoGivens /\ phase' = "idle"

\* The request goes out and the reply begins.
Post ==
  /\ phase = "built" /\ status = "none"
  /\ HandedOver
  /\ UNCHANGED <<wire, messages, asked, usageTold, toolBuf, toolOrder>>
  /\ \E r \in RepliesOver(wire) :
       /\ reply' = ReplyOf(r)
       /\ said' = said \o MeantBy(reply')
       /\ told' = [i \in DOMAIN r.calls |-> Untold]
       /\ IF given.unary
          THEN status' = "complete" /\ result' = ParseUnary(wire)'
          ELSE status' = "reading" /\ UNCHANGED result

Read == ReadStep(wire) /\ UNCHANGED <<loopVars, bodyVars>>

\* What the script appends: the calls, when there are any, with the text.
EchoOf(res) ==
  IF res.calls = <<>> THEN PlainMessage(res.text) ELSE CallingMessage(res.text, res.calls)

\* The promise resolves.
Echo ==
  /\ status \in {"complete", "cut"}
  /\ messages' = Append(messages, EchoOf(result))
  /\ reply' = NoReply /\ told' = <<>> /\ usageTold' = 0 /\ toolBuf' = EmptyBuf
  /\ toolOrder' = <<>> /\ result' = NoResult /\ status' = "none"
  /\ said' = [k \in DOMAIN said |->
       [said[k] EXCEPT !.cut = @ \/ (status = "cut" /\ k > Len(said) - Len(reply.calls))]]
  /\ UNCHANGED <<bodyVars, asked>>

\* The promise rejected, or the script goes on no longer.
Over == (phase = "refused" \/ Idle) /\ UNCHANGED vars

\* Before the conversation a script may embed its query (examples/rag.js).
EmbedQuery == messages = <<>> /\ EmbedNext(wire) /\ UNCHANGED <<loopVars, bodyVars, replyVars>>

LoopInit ==
  /\ wire \in Wires /\ NoRequest /\ NoReplyYet /\ EmbedInit
  /\ messages = <<>> /\ asked = 0 /\ said = <<>>

Converse ==
  \/ Say \/ Instruct \/ Ask \/ Build \/ Post \/ Read \/ Echo
  \/ \E id \in CalledIds : Answer(id)

LoopNext ==
  \/ embedding = "none" /\ Converse /\ UNCHANGED embedVars
  \/ EmbedQuery \/ Over

LoopSpec == LoopInit /\ [][LoopNext]_vars

-----------------------------------------------------------------------------

(* What a conversation says, in order: texts, calls and results.  The same *)
(* is read off each of its translations.  A system message is not spoken:  *)
(* its text belongs to the parameter beside the messages, but for the one  *)
(* written in parts, which stays where it was in a Responses input.        *)

TextEntry(n) == IF n = 0 THEN <<>> ELSE <<<<"text", n>>>>

MessageEntries(msg) ==
  CASE msg.role = "system" -> <<>>
    [] msg.role = "tool" -> <<<<"result", msg.id>>>>
    [] HasCalls(msg) ->
         TextEntry(msg.text) \o [k \in DOMAIN msg.calls |-> <<"call", msg.calls[k].id>>]
    [] OTHER -> TextEntry(msg.text)

KeptEntries(msg) ==
  IF msg.role = "system" /\ msg.form = "parts" THEN <<<<"system", msg.text>>>>
  ELSE MessageEntries(msg)

BlockEntry(block) ==
  CASE block.type = "text" -> <<"text", block.text>>
    [] block.type = "tool_use" -> <<"call", block.id>>
    [] block.type = "tool_result" -> <<"result", block.id>>

TurnEntries(turn) ==
  IF "content" \in DOMAIN turn
  THEN [k \in DOMAIN turn.content |-> BlockEntry(turn.content[k])] ELSE MessageEntries(turn)

ItemEntries(item) ==
  IF "type" \notin DOMAIN item THEN KeptEntries(item)
  ELSE IF item.type = "function_call" THEN <<<<"call", item.id>>>>
  ELSE <<<<"result", item.id>>>>

SayMessage(t, msg) == t \o MessageEntries(msg)
SayString(t, msg) == IF msg.form = "string" THEN t \o MessageEntries(msg) ELSE t
SayTurn(t, turn) == t \o TurnEntries(turn)
SayItem(t, item) == t \o ItemEntries(item)
SayKept(t, msg) == t \o KeptEntries(msg)

Spoken(list) == FoldLeft(SayMessage, <<>>, list)
SpokenOrKept(list) == FoldLeft(SayKept, <<>>, list)

\* The system texts of one form, in their order.
TakeString(t, msg) ==
  IF msg.role = "system" /\ msg.form = "string" THEN Append(t, msg.text) ELSE t
TakeParts(t, msg) ==
  IF msg.role = "system" /\ msg.form = "parts" THEN Append(t, msg.text) ELSE t

StringSystem(list) == FoldLeft(TakeString, <<>>, list)
PartsSystem(list) == FoldLeft(TakeParts, <<>>, list)

\* What the requests and the record of one conversation hold of it.  Both translations
\* carry every text, call and result of the script's messages, once and in their
\* order, and the record those of them it can read.  On Anthropic every system text
\* becomes part of the system parameter, those written as strings before those
\* written in parts, and none stays in the messages; the agent's version in the record
\* is derived from the same texts, in the script's order.  On Responses only the
\* strings become instructions, and a system message written in parts stays in the
\* input, in its place (anthropic_translate.go:149-255, responses.go:192-261,
\* agento11y.go:671-820); the comment at responses.go:185-188, that Responses has no
\* system input item, is not kept to.
ProjectionsAgree ==
  Idle =>
    LET anthropic == TranslateMessages(messages)
        responses == ResponsesInput(messages)
    IN /\ FoldLeft(SayTurn, <<>>, anthropic.out) = Spoken(messages)
       /\ \A k \in DOMAIN anthropic.out : anthropic.out[k].role # "system"
       /\ anthropic.system = StringSystem(messages) \o PartsSystem(messages)
       /\ ToSet(anthropic.system) = ToSet(SystemPrompt(messages))
       /\ Len(anthropic.system) = Len(SystemPrompt(messages))
       /\ PartsSystem(messages) = <<>> => anthropic.system = SystemPrompt(messages)
       /\ FoldLeft(SayItem, <<>>, responses.input) = SpokenOrKept(messages)
       /\ responses.instructions = StringSystem(messages)
       /\ FoldLeft(SayTurn, <<>>, PromptMessages(messages)) = FoldLeft(SayString, <<>>, messages)

ResultsOf(turn) ==
  IF "content" \in DOMAIN turn
  THEN {turn.content[k].id : k \in {j \in DOMAIN turn.content :
                                    turn.content[j].type = "tool_result"}}
  ELSE {}

\* The results a script appends one after another reach Anthropic in one user
\* message, which follows the message of their calls when nothing stood between
\* (anthropic_translate.go:144-148); a system message between two of them, though it
\* leaves the array, splits the group.
ResultsGrouped ==
  Idle =>
    LET turns == TranslateMessages(messages).out IN
    \A k \in 2..Len(messages) : messages[k].role = "tool" =>
      /\ messages[k - 1].role = "tool" =>
           \E j \in DOMAIN turns : {messages[k - 1].id, messages[k].id} \subseteq ResultsOf(turns[j])
      /\ messages[k].id \in Called(messages[k - 1]) =>
           \E j \in 2..Len(turns) : /\ messages[k].id \in ResultsOf(turns[j])
                                    /\ <<"call", messages[k].id>> \in ToSet(TurnEntries(turns[j - 1]))

\* The last group of results may still grow; what precedes it may not change.
ExtendsTurns(turns, later) ==
  \/ IsPrefix(turns, later)
  \/ /\ turns # <<>> /\ IsPrefix(Front(turns), later) /\ Len(later) = Len(turns)
     /\ ResultsOf(Last(turns)) # {} /\ IsPrefix(Last(turns).content, Last(later).content)

\* Each request of a conversation repeats the one before and adds to its end, which
\* is what a provider's prefix cache needs: appending a message never changes what
\* an earlier request carried, but for a late system message, which moves to the
\* front, and the growing last group of results.
PrefixStable ==
  [][messages' # messages =>
       /\ ExtendsTurns(TranslateMessages(messages).out, TranslateMessages(messages').out)
       /\ IsPrefix(ResponsesInput(messages).input, ResponsesInput(messages').input)
       /\ IsPrefix(PromptMessages(messages), PromptMessages(messages'))
       /\ Last(messages').role # "system" =>
            /\ TranslateMessages(messages').system = TranslateMessages(messages).system
            /\ ResponsesInput(messages').instructions = ResponsesInput(messages).instructions
    ]_vars

\* A reply read to its end says the same whether it was streamed, with its calls
\* interleaved and fragments dropped, or read from one document: the same text, the
\* same calls in index order with the arguments the model meant, the same token
\* counts.  A reply cut short holds calls of the model only, none with another's
\* arguments, and no count exceeds the total it is part of (client.go:1004-1024,
\* anthropic.go:196-290, responses.go:352-428, unary.go).
ReplyFaithful ==
  /\ status = "complete" =>
       /\ result.text = reply.text /\ result.usage = ParseUnary(wire).usage
       /\ Len(result.calls) = Len(reply.calls)
       /\ \A i \in Indexes :
            /\ result.calls[i].id = reply.calls[i].id
            /\ DecodeToolArguments(result.calls[i].args) = DecodeToolArguments(Whole(i))
  /\ status = "cut" => \A k \in DOMAIN result.calls : \E i \in Indexes :
       /\ result.calls[k].id = reply.calls[i].id
       /\ \A p \in DOMAIN result.calls[k].args :
            result.calls[k].args[p].id = reply.calls[i].id
  /\ result.usage.cached + result.usage.write <= result.usage.prompt
  /\ result.usage.thinking <= result.usage.completion

PickUse(t, block) == IF block.type = "tool_use" THEN Append(t, block) ELSE t

UsesOf(turn) ==
  IF "content" \in DOMAIN turn
  THEN FoldLeft(PickUse, <<>>, turn.content) ELSE <<>>

CollectUses(t, turn) == t \o UsesOf(turn)

\* The calls a request repeats to the model.
Uses(turns) == FoldLeft(CollectUses, <<>>, turns)

\* Once around the loop nothing is lost or garbled: the calls the next request
\* repeats to the model are those it made, in order and with the input it meant,
\* and only a call of a reply that was cut may have gone missing or lost its input.
RoundTrip ==
  Idle =>
    LET uses == Uses(TranslateMessages(messages).out) IN
    /\ \A k \in DOMAIN uses : LET meant == said[uses[k].id] IN
         uses[k].input = DecodeToolArguments(meant.args) \/ (meant.cut /\ uses[k].input = EmptyObject)
    /\ \A k, l \in DOMAIN uses : k < l => uses[k].id < uses[l].id
    /\ \A i \in DOMAIN said : said[i].cut \/ \E k \in DOMAIN uses : uses[k].id = said[i].id

=============================================================================
