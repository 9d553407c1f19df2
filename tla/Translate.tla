----------------------------- MODULE Translate ------------------------------
(***************************************************************************)
(* What becomes of a request's messages: the Anthropic translation         *)
(* (anthropic_translate.go), the Responses translation (responses.go), the *)
(* ProviderWire V4 prompt (providerwire.go) and the prompt of the exported *)
(* generation record (agento11y.go).                                       *)
(*                                                                         *)
(* A script writes messages in chat-completions form.  A text is a number, *)
(* 0 the empty string; "form" says whether a content is a string or a list *)
(* of parts; a tool call is its id, which stands for its name too, and its *)
(* arguments, a sequence of fragments of JSON text.                        *)
(***************************************************************************)
EXTENDS Naturals, Sequences, SequencesExt

SystemMessage(n, form) == [role |-> "system", form |-> form, text |-> n]
UserMessage(n, form) == [role |-> "user", form |-> form, text |-> n]
PlainMessage(n) == [role |-> "assistant", form |-> "string", text |-> n]
CallingMessage(n, calls) ==
  [role |-> "assistant", form |-> "string", text |-> n, calls |-> calls]
ToolMessage(id) == [role |-> "tool", form |-> "string", id |-> id]

HasCalls(msg) == "calls" \in DOMAIN msg

-----------------------------------------------------------------------------
(* Arguments.  Fragment part of the arguments of a call, of "of" in all;   *)
(* the text parses when every fragment is there, once and in order.        *)

Fragment(id, part, of) == [id |-> id, part |-> part, of |-> of]
WholeArguments(id, of) == [part \in 1..of |-> Fragment(id, part, of)]
EmptyObject == WholeArguments(0, 1)

Parses(args) == args # <<>> /\ args = WholeArguments(args[1].id, args[1].of)

\* Messages wants an object: what does not parse becomes the empty one.
DecodeToolArguments(args) == IF Parses(args) THEN args ELSE EmptyObject

-----------------------------------------------------------------------------
(* Anthropic Messages.                                                     *)

TextBlocks(n) == IF n = 0 THEN <<>> ELSE <<[type |-> "text", text |-> n]>>
UseBlock(call) ==
  [type |-> "tool_use", id |-> call.id, input |-> DecodeToolArguments(call.args)]
ResultBlock(msg) == [type |-> "tool_result", id |-> msg.id]
Turn(role, blocks) == [role |-> role, content |-> blocks]

\* Mutant: one message per result.
FlushEach(t) ==
  [t EXCEPT !.out = @ \o [k \in DOMAIN t.pending |-> Turn("user", <<t.pending[k]>>)],
            !.pending = <<>>]

Flush(t) ==
  IF t.pending = <<>> THEN t
  ELSE [t EXCEPT !.out = Append(@, Turn("user", t.pending)), !.pending = <<>>]

\* Mutant: the results gathered so far go out after the message that ended them.
TranslateMessageLate(t, msg) ==
  CASE msg.role = "system" -> [t EXCEPT !.parts = Append(@, msg.text)]
    [] msg.role = "tool" -> [t EXCEPT !.pending = Append(@, ResultBlock(msg))]
    [] HasCalls(msg) ->
         Flush([t EXCEPT !.out = Append(@, Turn("assistant", TextBlocks(msg.text)
                  \o [k \in DOMAIN msg.calls |-> UseBlock(msg.calls[k])]))])
    [] OTHER -> Flush([t EXCEPT !.out = Append(@, msg)])

TranslateMessage(t, msg) ==
  LET f == Flush(t) IN
  CASE msg.role = "system" /\ msg.form = "string" -> [f EXCEPT !.parts = Append(@, msg.text)]
    [] msg.role = "system" /\ msg.form = "parts" -> [f EXCEPT !.blocks = Append(@, msg.text)]
    [] msg.role = "tool" -> [t EXCEPT !.pending = Append(@, ResultBlock(msg))]
    [] HasCalls(msg) ->
         [f EXCEPT !.out = Append(@, Turn("assistant", TextBlocks(msg.text)
            \o [k \in DOMAIN msg.calls |-> UseBlock(msg.calls[k])]))]
    [] OTHER -> [f EXCEPT !.out = Append(@, msg)]

NothingTranslated == [out |-> <<>>, pending |-> <<>>, parts |-> <<>>, blocks |-> <<>>]

\* The messages, and the texts of the top-level system parameter: one joined
\* string, or blocks as soon as one message brought blocks.
TranslateMessages(list) ==
  LET end == Flush(FoldLeft(TranslateMessage, NothingTranslated, list))
  IN [out |-> end.out, system |-> end.parts \o end.blocks,
      form |-> IF end.blocks = <<>> THEN "string" ELSE "parts"]

-----------------------------------------------------------------------------
(* Responses.                                                              *)

InputItem(t, msg) ==
  CASE msg.role = "system" /\ msg.form = "string" -> [t EXCEPT !.instructions = Append(@, msg.text)]
    [] msg.role = "tool" ->
         [t EXCEPT !.input = Append(@, [type |-> "function_call_output", id |-> msg.id])]
    [] HasCalls(msg) ->
         [t EXCEPT !.input = (IF msg.text = 0 THEN @ ELSE Append(@, PlainMessage(msg.text)))
            \o [k \in DOMAIN msg.calls |->
                  [type |-> "function_call", id |-> msg.calls[k].id, args |-> msg.calls[k].args]]]
    [] OTHER -> [t EXCEPT !.input = Append(@, msg)]

NoInput == [input |-> <<>>, instructions |-> <<>>]

ResponsesInput(list) == FoldLeft(InputItem, NoInput, list)

-----------------------------------------------------------------------------
(* ProviderWire V4: text only, and only of a list a script wrote itself;   *)
(* the calls of an assistant message that has a text are left out.         *)

V4Accepts(msg) ==
  \/ msg.role = "system" /\ msg.form = "string"
  \/ msg.role = "user"
  \/ msg.role = "assistant" /\ (HasCalls(msg) => msg.text # 0)

ProviderWireV4Accepts(list) == \A k \in DOMAIN list : V4Accepts(list[k])

-----------------------------------------------------------------------------
(* The generation record.                                                  *)

\* Mutant: an assistant message without text is skipped with its calls.
MessagePartsOfText(msg) ==
  IF msg.role = "tool" THEN <<ResultBlock(msg)>>
  ELSE IF msg.text = 0 \/ msg.form # "string" THEN <<>>
  ELSE TextBlocks(msg.text)
       \o (IF HasCalls(msg)
           THEN [k \in DOMAIN msg.calls |-> [type |-> "tool_use", id |-> msg.calls[k].id]]
           ELSE <<>>)

\* Parts that are not text are skipped, not guessed at.
MessageParts(msg) ==
  IF msg.role = "tool" THEN <<ResultBlock(msg)>>
  ELSE (IF msg.form = "string" THEN TextBlocks(msg.text) ELSE <<>>)
       \o (IF HasCalls(msg)
           THEN [k \in DOMAIN msg.calls |-> [type |-> "tool_use", id |-> msg.calls[k].id]]
           ELSE <<>>)

\* A message with no part is left out.
AppendPrompt(t, msg) ==
  IF msg.role = "system" \/ MessageParts(msg) = <<>> THEN t
  ELSE Append(t, Turn(msg.role, MessageParts(msg)))

PromptMessages(list) == FoldLeft(AppendPrompt, <<>>, list)

\* The texts the agent's version is the digest of, of a request that has no
\* system field of its own.
AppendSystem(t, msg) == IF msg.role = "system" THEN Append(t, msg.text) ELSE t

SystemPrompt(list) == FoldLeft(AppendSystem, <<>>, list)

=============================================================================
