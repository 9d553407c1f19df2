---------------------------- MODULE RequestBody -----------------------------
(***************************************************************************)
(* How the fields of a chat request become the fields of the body that is  *)
(* sent (anthropicBody, responsesBody, providerWireV4Body, doChat).  Three *)
(* of the wires range over a Go map, whose order is different every time:  *)
(* the loop is one action per field, taken in any order.                   *)
(*                                                                         *)
(* out maps each field of the body to where its value comes from: a field  *)
(* of the request, or Client.                                            *)
(***************************************************************************)
EXTENDS FiniteSets

CONSTANTS
  Wires,   \* the wires a client may speak
  Bodies   \* the sets of fields a request may have, control keys taken out

AllWires == {"openai", "anthropic", "responses", "providerwire-v4"}

\* No field, and where a value comes from that the script did not give.
NoField == "none"
Client == "client"

\* Neither is the name of a field.
ASSUME BodyAssumption ==
  /\ Wires \subseteq AllWires
  /\ \A fields \in Bodies : NoField \notin fields /\ Client \notin fields

VARIABLES
  wire,
  body,    \* the fields of the request
  given,   \* what their values are: see Givens
  left,    \* the fields the loop has not seen
  out,     \* the body being built
  phase    \* "ranging", "built", or "refused" with an error

bodyVars == <<wire, body, given, left, out, phase>>

\* schema: response_format is a json_schema.  system: the translation of the
\* messages returns a system text.  prompt: the V4 prompt accepts the messages.
\* unary: stream: false.  ignoreEOS: the client's option.
Givens == [schema: BOOLEAN, system: BOOLEAN, prompt: BOOLEAN, unary: BOOLEAN, ignoreEOS: BOOLEAN]

-----------------------------------------------------------------------------

OpenAIOnlyFields ==
  {"audio", "frequency_penalty", "ignore_eos", "logit_bias", "logprobs", "modalities", "n",
   "parallel_tool_calls", "prediction", "presence_penalty", "reasoning_effort", "seed",
   "service_tier", "store", "stream_options", "top_logprobs", "user"}

OpenAIRenamedFields == [stop |-> "stop_sequences", max_completion_tokens |-> "max_tokens"]

ChatOnlyFieldsForResponses ==
  {"audio", "frequency_penalty", "ignore_eos", "logit_bias", "logprobs", "modalities", "n",
   "prediction", "presence_penalty", "response_format", "seed", "stop", "stream_options",
   "top_logprobs"}

ResponsesRenamedFields ==
  [max_tokens |-> "max_output_tokens", max_completion_tokens |-> "max_output_tokens"]

V4CallOptions ==
  [max_tokens |-> "maxOutputTokens", temperature |-> "temperature", top_p |-> "topP",
   top_k |-> "topK", seed |-> "seed", stop |-> "stopSequences",
   presence_penalty |-> "presencePenalty", frequency_penalty |-> "frequencyPenalty"]

\* Mutant: the renamed field replaces the one the script gave.
RenamedAlways(table, k) == table[k]

\* An explicitly supplied field is not clobbered by one renamed to it.
Renamed(table, k) == IF table[k] \in body THEN NoField ELSE table[k]

\* The field of the body that field k of the request sets.
AnthropicField(k) ==
  CASE k \in OpenAIOnlyFields -> NoField
    [] k \in DOMAIN OpenAIRenamedFields -> Renamed(OpenAIRenamedFields, k)
    [] k = "response_format" -> IF given.schema THEN "output_config" ELSE NoField
    [] OTHER -> k

ResponsesField(k) ==
  CASE k \in ChatOnlyFieldsForResponses \cup {"messages"} -> NoField
    [] k \in DOMAIN ResponsesRenamedFields -> Renamed(ResponsesRenamedFields, k)
    [] OTHER -> k

V4Field(k) == IF k = "messages" THEN "prompt" ELSE V4CallOptions[k]

V4Refuses(k) ==
  IF k = "messages" THEN ~given.prompt ELSE k \notin DOMAIN V4CallOptions

FieldOf(k) ==
  CASE wire = "anthropic" -> AnthropicField(k)
    [] wire = "responses" -> ResponsesField(k)
    [] OTHER -> V4Field(k)

\* out[f] = source
Put(f, source) == [g \in DOMAIN out \cup {f} |-> IF g = f THEN source ELSE out[g]]

\* The last statements of a translation: the texts it drew from the messages,
\* and the client's own fields.
Close(fromMessages, fromClient) ==
  [f \in DOMAIN out \cup fromMessages \cup fromClient |->
     IF f \in fromClient THEN Client ELSE IF f \in fromMessages THEN "messages" ELSE out[f]]

-----------------------------------------------------------------------------

\* One turn of the loop over the request's fields.
RangeField(k) ==
  /\ phase = "ranging" /\ wire # "openai"
  /\ k \in left
  /\ ~(wire = "providerwire-v4" /\ V4Refuses(k))
  /\ left' = left \ {k}
  /\ out' = IF FieldOf(k) = NoField THEN out ELSE Put(FieldOf(k), k)
  /\ UNCHANGED <<wire, body, given, phase>>

RefuseField(k) ==
  /\ phase = "ranging" /\ wire = "providerwire-v4"
  /\ k \in left /\ V4Refuses(k)
  /\ phase' = "refused"
  /\ UNCHANGED <<wire, body, given, left, out>>

\* The hoisted system text, unless the script gave its own.
AnthropicSystem ==
  IF "messages" \in body /\ given.system /\ "system" \notin DOMAIN out THEN {"system"} ELSE {}

\* Messages requires a limit.
AnthropicDefaults == IF "max_tokens" \in DOMAIN out THEN {} ELSE {"max_tokens"}

CloseAnthropic ==
  /\ phase = "ranging" /\ wire = "anthropic" /\ left = {}
  /\ out' = Close(AnthropicSystem, {"model", "stream"} \cup AnthropicDefaults)
  /\ phase' = "built"
  /\ UNCHANGED <<wire, body, given, left>>

ResponsesInputs ==
  IF "messages" \notin body THEN {}
  ELSE {"input"} \cup IF given.system /\ "instructions" \notin DOMAIN out
                      THEN {"instructions"} ELSE {}

CloseResponses ==
  /\ phase = "ranging" /\ wire = "responses" /\ left = {}
  /\ out' = Close(ResponsesInputs, {"model", "stream"})
  /\ phase' = "built"
  /\ UNCHANGED <<wire, body, given, left>>

CloseV4 ==
  /\ phase = "ranging" /\ wire = "providerwire-v4" /\ left = {}
  /\ phase' = IF "prompt" \in DOMAIN out THEN "built" ELSE "refused"
  /\ UNCHANGED <<wire, body, given, left, out>>

\* No loop: the request's own map gets the client's fields.
OpenAIExtras ==
  {"model"} \cup (IF given.unary THEN {} ELSE {"stream", "stream_options"})
            \cup (IF given.ignoreEOS THEN {"ignore_eos"} ELSE {})

UseBody ==
  /\ phase = "ranging" /\ wire = "openai"
  /\ out' = [k \in body \cup OpenAIExtras |-> IF k \in OpenAIExtras THEN Client ELSE k]
  /\ left' = {}
  /\ phase' = "built"
  /\ UNCHANGED <<wire, body, given>>

\* The request as the loop finds it.
Fresh == left = body /\ out = [f \in {} |-> f] /\ phase = "ranging"

Init ==
  /\ wire \in Wires /\ body \in Bodies /\ given \in Givens
  /\ Fresh

BuildStep ==
  \/ \E k \in left : RangeField(k) \/ RefuseField(k)
  \/ CloseAnthropic \/ CloseResponses \/ CloseV4 \/ UseBody

Next == BuildStep

Spec == Init /\ [][Next]_bodyVars

-----------------------------------------------------------------------------

TypeOK ==
  /\ wire \in Wires /\ body \in Bodies /\ given \in Givens
  /\ left \subseteq body
  /\ out \in [DOMAIN out -> body \cup {Client}]
  /\ phase \in {"ranging", "built", "refused"}

\* The fields of the request that can stand behind field f of the body: f
\* itself, those the provider knows under that name, and the messages.
Sources(f) ==
  CASE wire = "anthropic" /\ f = "stop_sequences" -> {f, "stop"}
    [] wire = "anthropic" /\ f = "max_tokens" -> {f, "max_completion_tokens"}
    [] wire = "anthropic" /\ f = "output_config" -> {f, "response_format"}
    [] wire = "anthropic" /\ f = "system" -> {f, "messages"}
    [] wire = "responses" /\ f = "max_output_tokens" -> {f, "max_tokens", "max_completion_tokens"}
    [] wire = "responses" /\ f \in {"input", "instructions"} -> {f, "messages"}
    [] wire = "providerwire-v4" /\ f = "prompt" -> {"messages"}
    [] wire = "providerwire-v4" /\ f # "prompt" ->
         {k \in DOMAIN V4CallOptions : V4CallOptions[k] = f}
    [] OTHER -> {f}

\* The fields that have no equivalent at the provider.
Dropped ==
  CASE wire = "anthropic" ->
         OpenAIOnlyFields \cup (IF given.schema THEN {} ELSE {"response_format"})
    [] wire = "responses" -> ChatOnlyFieldsForResponses
    [] OTHER -> {}

\* The names under which the provider takes no field.
Foreign ==
  CASE wire = "anthropic" ->
         OpenAIOnlyFields \cup {"stop", "max_completion_tokens", "response_format"}
    [] wire = "responses" ->
         ChatOnlyFieldsForResponses \cup {"messages", "max_tokens", "max_completion_tokens"}
    [] OTHER -> {}

\* Fields the client sets whatever the script gave.
ClientFields == {"model", "stream", "stream_options", "ignore_eos"}

\* Where the script's own field may not stand: a response_format and an
\* output_config write the same field and the order of the map decides which
\* stays, and messages replace an input.
Overridden(f) ==
  \/ wire = "anthropic" /\ f = "output_config" /\ "response_format" \in body
  \/ wire = "responses" /\ f = "input" /\ "messages" \in body

\* In whatever order the loop takes the fields, the body that goes out says what
\* the script said.  Each of its fields comes from one the script gave under that
\* name or an equivalent one, from the explicit one where there is one, and from
\* the client's default only where the script gave none; no field is lost that has
\* an equivalent, and none is left that the code's own tables name as foreign to the
\* wire.  Where two fields of the script are equivalent, max_tokens and
\* max_completion_tokens, either may be the one that is sent
\* (anthropic.go:75-124, responses.go:97-135, providerwire.go:32-56).
BodyFollowsScript ==
  phase = "built" =>
    /\ \A f \in DOMAIN out \ ClientFields :
         IF out[f] = Client THEN Sources(f) \cap body = {}
         ELSE /\ out[f] \in Sources(f) \cap body
              /\ f \in body /\ ~Overridden(f) => out[f] = f
    /\ \A k \in body \ Dropped : \E f \in DOMAIN out : k = f \/ k \in Sources(f)
    /\ DOMAIN out \cap Foreign = {}

\* anthropic.go:82: "Do not clobber an explicitly supplied Messages field."
MessagesFieldStands ==
  phase = "built" /\ wire = "anthropic" =>
    \A f \in (body \cap DOMAIN out) \ ClientFields : out[f] = f

=============================================================================
