------------------------- MODULE RequestBodyProofs --------------------------
(***************************************************************************)
(* For every set of wires, every set of requests and every order in which  *)
(* the loop takes a request's fields, the body that goes out says what the *)
(* script said (BodyFollowsScript).                                        *)
(*                                                                         *)
(* What is inductive is said of the loop in the middle of its range: the   *)
(* body holds the fields seen so far, each from the last one that maps to  *)
(* it, and no other.  That a wire's table of fields then means the right   *)
(* thing is a fact about the table alone (the Lemmas on each wire).        *)
(***************************************************************************)
EXTENDS RequestBody, TLAPS

\* The fields seen are in the body, and nothing else is.
Ranged ==
  phase = "ranging" =>
    /\ \A f \in DOMAIN out : out[f] \in body \ left /\ FieldOf(out[f]) = f
    /\ \A k \in body \ left : FieldOf(k) # NoField => FieldOf(k) \in DOMAIN out
    /\ NoField \notin DOMAIN out
    /\ wire = "openai" => left = body
    /\ wire = "providerwire-v4" => \A k \in body \ left : ~V4Refuses(k)

IInv == TypeOK /\ Ranged /\ BodyFollowsScript

-----------------------------------------------------------------------------
(* The tables.                                                             *)

\* On each wire a field that is set comes from one that may stand for it, from the
\* script's own where there is one, and the provider takes it.
LEMMA AnthropicTable ==
  ASSUME wire = "anthropic", NEW k \in body, FieldOf(k) # NoField
  PROVE  /\ k \in Sources(FieldOf(k))
         /\ FieldOf(k) \in body /\ ~Overridden(FieldOf(k)) => k = FieldOf(k)
         /\ FieldOf(k) \notin Foreign
  BY DEF FieldOf, AnthropicField, Renamed, OpenAIOnlyFields, OpenAIRenamedFields, Sources,
         Overridden, Foreign, NoField

LEMMA ResponsesTable ==
  ASSUME wire = "responses", NEW k \in body, FieldOf(k) # NoField
  PROVE  /\ k \in Sources(FieldOf(k))
         /\ FieldOf(k) \in body /\ ~Overridden(FieldOf(k)) => k = FieldOf(k)
         /\ FieldOf(k) \notin Foreign
  BY DEF FieldOf, ResponsesField, Renamed, ChatOnlyFieldsForResponses, ResponsesRenamedFields,
         Sources, Overridden, Foreign, NoField

LEMMA V4Table ==
  ASSUME wire = "providerwire-v4", NEW k \in body, \A j \in body : ~V4Refuses(j)
  PROVE  /\ k \in Sources(FieldOf(k))
         /\ FieldOf(k) \in body => k = FieldOf(k)
         /\ FieldOf(k) \notin Foreign
         /\ FieldOf(k) # NoField
<1>1. FieldOf(k) = V4Field(k) /\ Foreign = {}
  BY DEF FieldOf, Foreign
<1>2. CASE k = "messages"
  <2>1. FieldOf(k) = "prompt"
    BY <1>1, <1>2 DEF V4Field
  <2>2. Sources("prompt") = {"messages"}
    BY DEF Sources
  <2>3. "prompt" \notin body
    BY DEF V4Refuses, V4CallOptions
  <2>. QED BY <1>1, <1>2, <2>1, <2>2, <2>3 DEF NoField
<1>3. CASE k # "messages"
  <2>1. k \in DOMAIN V4CallOptions /\ FieldOf(k) = V4CallOptions[k]
    BY <1>1, <1>3 DEF V4Field, V4Refuses
  <2>2. V4CallOptions[k] # "prompt" /\ V4CallOptions[k] # "none"
    BY <2>1 DEF V4CallOptions
  <2>3. V4CallOptions[k] \in body => k = V4CallOptions[k]
    BY <2>1 DEF V4Refuses, V4CallOptions
  <2>4. k \in Sources(FieldOf(k))
    BY <2>1, <2>2 DEF Sources
  <2>. QED BY <1>1, <2>1, <2>2, <2>3, <2>4 DEF NoField
<1>. QED BY <1>2, <1>3

\* No field with an equivalent is lost.
LEMMA AnthropicKeeps ==
  ASSUME wire = "anthropic", NEW k \in body \ Dropped, NoField \notin body
  PROVE  \E j \in body : FieldOf(j) # NoField /\ k \in Sources(FieldOf(j)) 
  BY DEF FieldOf, AnthropicField, Renamed, OpenAIOnlyFields, OpenAIRenamedFields, Sources,
         Dropped, NoField

LEMMA ResponsesKeeps ==
  ASSUME wire = "responses", NEW k \in body \ Dropped, k # "messages", NoField \notin body
  PROVE  \E j \in body : FieldOf(j) # NoField /\ k \in Sources(FieldOf(j))
  BY DEF FieldOf, ResponsesField, Renamed, ChatOnlyFieldsForResponses, ResponsesRenamedFields,
         Sources, Dropped, NoField
-----------------------------------------------------------------------------
(* The loop.                                                               *)

\* What a field maps to depends on the request only.
LEMMA TableFixed ==
  ASSUME UNCHANGED <<wire, body, given>>
  PROVE  /\ \A k : FieldOf(k)' = FieldOf(k)
         /\ \A k : V4Refuses(k)' = V4Refuses(k)
         /\ \A f : Sources(f)' = Sources(f) /\ Overridden(f)' = Overridden(f)
         /\ Dropped' = Dropped /\ Foreign' = Foreign
<1>1. \A k : FieldOf(k)' = FieldOf(k) /\ V4Refuses(k)' = V4Refuses(k)
  BY DEF FieldOf, AnthropicField, ResponsesField, V4Field, Renamed, V4Refuses
<1>2. \A f : Sources(f)' = Sources(f)
  BY DEF Sources
<1>3. \A f : Overridden(f)' = Overridden(f)
  BY DEF Overridden
<1>4. Dropped' = Dropped /\ Foreign' = Foreign
  BY DEF Dropped, Foreign
<1>. QED BY <1>1, <1>2, <1>3, <1>4

LEMMA InitInv == Init => IInv
<1>. SUFFICES ASSUME Init  PROVE IInv
  OBVIOUS
<1>. USE DEF Init, Fresh
<1>1. TypeOK
  BY DEF TypeOK
<1>2. Ranged
  BY DEF Ranged
<1>3. BodyFollowsScript
  BY DEF BodyFollowsScript
<1>. QED BY <1>1, <1>2, <1>3 DEF IInv

\* No field of a request is called like the constants.
LEMMA FieldNames == TypeOK => NoField \notin body /\ Client \notin body /\ wire \in AllWires
  BY BodyAssumption DEF TypeOK

\* One turn of the loop.
LEMMA RangeInv == ASSUME IInv, NEW k \in left, RangeField(k)  PROVE IInv'
<1>. USE DEF IInv, RangeField
<1>1. k \in body /\ NoField \notin body /\ Client \notin body
  BY FieldNames DEF TypeOK
<1>2. \A j : FieldOf(j)' = FieldOf(j) /\ V4Refuses(j)' = V4Refuses(j)
  BY TableFixed
<1>3. TypeOK'
  <2>1. CASE FieldOf(k) = NoField
    BY <2>1 DEF TypeOK
  <2>2. CASE FieldOf(k) # NoField
    <3>1. out' \in [DOMAIN out' -> body \cup {Client}]
      BY <1>1, <2>2 DEF TypeOK, Put
    <3>. QED BY <3>1 DEF TypeOK
  <2>. QED BY <2>1, <2>2
<1>4. Ranged'
  <2>1. body' \ left' = (body \ left) \cup {k}
    BY <1>1 DEF TypeOK
  <2>2. CASE FieldOf(k) = NoField
    BY <1>2, <2>1, <2>2 DEF Ranged
  <2>3. CASE FieldOf(k) # NoField
    <3>1. /\ DOMAIN out' = DOMAIN out \cup {FieldOf(k)}
          /\ \A f \in DOMAIN out' : out'[f] = IF f = FieldOf(k) THEN k ELSE out[f]
      BY <2>3 DEF Put
    <3>. QED BY <1>2, <2>1, <2>3, <3>1 DEF Ranged
  <2>. QED BY <2>2, <2>3
<1>5. BodyFollowsScript'
  BY DEF BodyFollowsScript
<1>. QED BY <1>3, <1>4, <1>5

LEMMA RefuseInv == ASSUME IInv, NEW k \in left, RefuseField(k)  PROVE IInv'
<1>. USE DEF IInv, RefuseField
<1>1. TypeOK'
  BY DEF TypeOK
<1>2. Ranged'
  BY DEF Ranged
<1>3. BodyFollowsScript'
  BY DEF BodyFollowsScript
<1>. QED BY <1>1, <1>2, <1>3

\* What the last statements of the Anthropic translation add.
LEMMA CloseAnthropicInv == ASSUME IInv, CloseAnthropic  PROVE IInv'
<1>. USE DEF IInv, CloseAnthropic
<1>. DEFINE hoisted == AnthropicSystem
            added == {"model", "stream"} \cup AnthropicDefaults
<1>1. NoField \notin body /\ Client \notin body
  BY FieldNames
<1>2. /\ DOMAIN out' = DOMAIN out \cup hoisted \cup added
      /\ \A f \in DOMAIN out' : out'[f] =
           IF f \in added THEN Client ELSE IF f \in hoisted THEN "messages" ELSE out[f]
  BY DEF Close
<1>3. /\ hoisted \subseteq {"system"} /\ added \subseteq {"model", "stream", "max_tokens"}
      /\ {"model", "stream"} \subseteq added
      /\ "system" \in hoisted => "messages" \in body /\ "system" \notin DOMAIN out
      /\ "max_tokens" \in added => "max_tokens" \notin DOMAIN out
  BY DEF AnthropicSystem, AnthropicDefaults
<1>4. /\ \A f \in DOMAIN out : out[f] \in body /\ FieldOf(out[f]) = f
      /\ \A k \in body : FieldOf(k) # NoField => FieldOf(k) \in DOMAIN out
      /\ NoField \notin DOMAIN out
  BY DEF Ranged
<1>5. \A f \in DOMAIN out : out[f] \in Sources(f) /\ f \notin Foreign
  BY <1>4, AnthropicTable
<1>5a. \A f \in DOMAIN out : f \in body /\ ~Overridden(f) => out[f] = f
  BY <1>4, AnthropicTable
<1>6. "system" \notin DOMAIN out => "system" \notin body
  BY <1>4 DEF FieldOf, AnthropicField, OpenAIOnlyFields, OpenAIRenamedFields, NoField
<1>7. "max_tokens" \notin DOMAIN out => Sources("max_tokens") \cap body = {}
  BY <1>4 DEF FieldOf, AnthropicField, Renamed, OpenAIOnlyFields, OpenAIRenamedFields, NoField,
              Sources
<1>8. "messages" \in Sources("system")
  BY DEF Sources
<1>9. {"system", "model", "stream", "max_tokens"} \cap Foreign = {}
  BY DEF Foreign, OpenAIOnlyFields
<1>10. /\ \A f : Sources(f)' = Sources(f) /\ Overridden(f)' = Overridden(f)
       /\ Dropped' = Dropped /\ Foreign' = Foreign
  BY TableFixed
<1>. HIDE DEF hoisted, added
<1>11. TypeOK'
  <2>1. out' \in [DOMAIN out' -> body \cup {Client}]
    <3>1. \A f \in DOMAIN out' : out'[f] \in body \cup {Client}
      BY <1>2, <1>3, <1>4
    <3>2. out' = [f \in DOMAIN out' |-> out'[f]]
      BY DEF Close
    <3>. QED BY <3>1, <3>2
  <2>. QED BY <2>1 DEF TypeOK
<1>12. Ranged'
  BY DEF Ranged
<1>13. BodyFollowsScript'
  <2>1. ASSUME NEW f \in DOMAIN out' \ ClientFields
        PROVE  IF out'[f] = Client THEN Sources(f) \cap body = {}
               ELSE /\ out'[f] \in Sources(f) \cap body
                    /\ f \in body /\ ~Overridden(f) => out'[f] = f
    <3>1. CASE f \in added
      BY <1>2, <1>3, <1>7, <2>1, <3>1 DEF ClientFields
    <3>2. CASE f \in hoisted /\ f \notin added
      BY <1>1, <1>2, <1>3, <1>6, <1>8, <3>2
    <3>3. CASE f \notin hoisted /\ f \notin added
      <4>1. f \in DOMAIN out /\ out'[f] = out[f]
        BY <1>2, <2>1, <3>3
      <4>2. out[f] \in body /\ out[f] # Client
        BY <1>1, <1>4, <4>1
      <4>3. out[f] \in Sources(f) /\ (f \in body /\ ~Overridden(f) => out[f] = f)
        BY <1>5a, <1>5, <4>1
      <4>. QED BY <4>1, <4>2, <4>3
    <3>. QED BY <3>1, <3>2, <3>3
  <2>2. ASSUME NEW k \in body \ Dropped
        PROVE  \E f \in DOMAIN out' : k = f \/ k \in Sources(f)
    BY <1>1, <1>2, <1>4, AnthropicKeeps
  <2>3. ASSUME NEW f \in DOMAIN out'  PROVE f \notin Foreign
    <3>1. f \in DOMAIN out \/ f \in {"system", "model", "stream", "max_tokens"}
      BY <1>2, <1>3, <2>3
    <3>2. f \in DOMAIN out => f \notin Foreign
      BY <1>5
    <3>. QED BY <1>9, <3>1, <3>2
  <2>. QED BY <1>10, <2>1, <2>2, <2>3 DEF BodyFollowsScript, ClientFields
<1>. QED BY <1>11, <1>12, <1>13

\* What the last statements of the Responses translation add.
LEMMA CloseResponsesInv == ASSUME IInv, CloseResponses  PROVE IInv'
<1>. USE DEF IInv, CloseResponses
<1>. DEFINE drawn == ResponsesInputs
            added == {"model", "stream"}
<1>1. NoField \notin body /\ Client \notin body
  BY FieldNames
<1>2. /\ DOMAIN out' = DOMAIN out \cup drawn \cup added
      /\ \A f \in DOMAIN out' : out'[f] =
           IF f \in added THEN Client ELSE IF f \in drawn THEN "messages" ELSE out[f]
  BY DEF Close
<1>3. /\ drawn \subseteq {"input", "instructions"}
      /\ drawn # {} => "messages" \in body
      /\ "messages" \in body => "input" \in drawn
      /\ "instructions" \in drawn => "instructions" \notin DOMAIN out
  BY DEF ResponsesInputs
<1>4. /\ \A f \in DOMAIN out : out[f] \in body /\ FieldOf(out[f]) = f
      /\ \A k \in body : FieldOf(k) # NoField => FieldOf(k) \in DOMAIN out
      /\ NoField \notin DOMAIN out
  BY DEF Ranged
<1>5. \A f \in DOMAIN out : out[f] \in Sources(f) /\ f \notin Foreign
  BY <1>4, ResponsesTable
<1>6. \A f \in DOMAIN out : f \in body /\ ~Overridden(f) => out[f] = f
  BY <1>4, ResponsesTable
<1>7. "instructions" \notin DOMAIN out => "instructions" \notin body
  BY <1>4 DEF FieldOf, ResponsesField, ChatOnlyFieldsForResponses, ResponsesRenamedFields, NoField
<1>8. \A f \in {"input", "instructions"} : "messages" \in Sources(f)
  BY DEF Sources
<1>9. {"input", "instructions", "model", "stream"} \cap Foreign = {}
  BY DEF Foreign, ChatOnlyFieldsForResponses
<1>10. /\ \A f : Sources(f)' = Sources(f) /\ Overridden(f)' = Overridden(f)
       /\ Dropped' = Dropped /\ Foreign' = Foreign
  BY TableFixed
<1>11. "messages" \in body => Overridden("input")
  BY DEF Overridden
<1>. HIDE DEF drawn, added
<1>12. TypeOK'
  <2>1. \A f \in DOMAIN out' : out'[f] \in body \cup {Client}
    BY <1>2, <1>3, <1>4
  <2>2. out' = [f \in DOMAIN out' |-> out'[f]]
    BY DEF Close
  <2>. QED BY <2>1, <2>2 DEF TypeOK
<1>13. Ranged'
  BY DEF Ranged
<1>14. BodyFollowsScript'
  <2>1. ASSUME NEW f \in DOMAIN out' \ ClientFields
        PROVE  IF out'[f] = Client THEN Sources(f) \cap body = {}
               ELSE /\ out'[f] \in Sources(f) \cap body
                    /\ f \in body /\ ~Overridden(f) => out'[f] = f
    <3>1. f \notin added
      BY <2>1 DEF ClientFields, added
    <3>2. CASE f \in drawn
      <4>1. out'[f] = "messages" /\ "messages" \in body
        BY <1>2, <1>3, <2>1, <3>1, <3>2
      <4>2. f \notin body \/ Overridden(f)
        BY <1>3, <1>7, <1>11, <3>2, <4>1
      <4>. QED BY <1>1, <1>3, <1>8, <3>2, <4>1, <4>2
    <3>3. CASE f \notin drawn
      <4>1. f \in DOMAIN out /\ out'[f] = out[f]
        BY <1>2, <2>1, <3>1, <3>3
      <4>2. out[f] \in body /\ out[f] # Client
        BY <1>1, <1>4, <4>1
      <4>. QED BY <1>5, <1>6, <4>1, <4>2
    <3>. QED BY <3>2, <3>3
  <2>2. ASSUME NEW k \in body \ Dropped
        PROVE  \E f \in DOMAIN out' : k = f \/ k \in Sources(f)
    <3>1. CASE k = "messages"
      BY <1>2, <1>3, <1>8, <3>1
    <3>2. CASE k # "messages"
      BY <1>1, <1>2, <1>4, <3>2, ResponsesKeeps
    <3>. QED BY <3>1, <3>2
  <2>3. ASSUME NEW f \in DOMAIN out'  PROVE f \notin Foreign
    <3>1. f \in DOMAIN out \/ f \in {"input", "instructions", "model", "stream"}
      BY <1>2, <1>3, <2>3 DEF added
    <3>2. f \in DOMAIN out => f \notin Foreign
      BY <1>5
    <3>. QED BY <1>9, <3>1, <3>2
  <2>. QED BY <1>10, <2>1, <2>2, <2>3 DEF BodyFollowsScript, ClientFields
<1>. QED BY <1>12, <1>13, <1>14

\* A V4 body is what the loop leaves.
LEMMA CloseV4Inv == ASSUME IInv, CloseV4  PROVE IInv'
<1>. USE DEF IInv, CloseV4
<1>1. /\ \A f \in DOMAIN out : out[f] \in body /\ FieldOf(out[f]) = f
      /\ \A k \in body : FieldOf(k) # NoField => FieldOf(k) \in DOMAIN out
      /\ \A k \in body : ~V4Refuses(k)
  BY DEF Ranged
<1>2. \A f \in DOMAIN out : out[f] \in Sources(f) /\ f \notin Foreign
  BY <1>1, V4Table
<1>3. \A f \in DOMAIN out : f \in body => out[f] = f
  BY <1>1, V4Table
<1>4. \A k \in body : \E f \in DOMAIN out : k \in Sources(f)
  BY <1>1, V4Table
<1>5. \A f \in DOMAIN out : out[f] # Client
  BY <1>1, FieldNames
<1>6. TypeOK'
  BY DEF TypeOK
<1>7. Ranged'
  BY DEF Ranged
<1>8. /\ \A f : Sources(f)' = Sources(f) /\ Overridden(f)' = Overridden(f)
      /\ Dropped' = Dropped /\ Foreign' = Foreign
  BY TableFixed
<1>9. BodyFollowsScript'
  BY <1>1, <1>2, <1>3, <1>4, <1>5, <1>8 DEF BodyFollowsScript, ClientFields
<1>. QED BY <1>6, <1>7, <1>9

\* The chat-completions body is the request itself.
LEMMA UseBodyInv == ASSUME IInv, UseBody  PROVE IInv'
<1>. USE DEF IInv, UseBody
<1>1. Client \notin body
  BY FieldNames
<1>2. OpenAIExtras \subseteq ClientFields
  BY DEF OpenAIExtras, ClientFields
<1>3. Dropped = {} /\ Foreign = {} /\ \A f : Sources(f) = {f}
  BY DEF Dropped, Foreign, Sources
<1>4. TypeOK'
  BY DEF TypeOK
<1>5. Ranged'
  BY DEF Ranged
<1>6. /\ \A f : Sources(f)' = Sources(f) /\ Overridden(f)' = Overridden(f)
      /\ Dropped' = Dropped /\ Foreign' = Foreign
  BY TableFixed
<1>7. BodyFollowsScript'
  <2>1. \A f \in DOMAIN out' \ ClientFields : f \in body /\ out'[f] = f
    BY <1>2
  <2>2. body \subseteq DOMAIN out'
    OBVIOUS
  <2>. QED BY <1>1, <1>3, <1>6, <2>1, <2>2, ZenonT(60) DEF BodyFollowsScript, ClientFields
<1>. QED BY <1>4, <1>5, <1>7

LEMMA NextInv == IInv /\ [Next]_bodyVars => IInv'
<1>. SUFFICES ASSUME IInv, [Next]_bodyVars  PROVE IInv'
  OBVIOUS
<1>1. CASE \E k \in left : RangeField(k) \/ RefuseField(k)
  BY <1>1, RangeInv, RefuseInv
<1>2. CASE CloseAnthropic
  BY <1>2, CloseAnthropicInv
<1>3. CASE CloseResponses
  BY <1>3, CloseResponsesInv
<1>4. CASE CloseV4
  BY <1>4, CloseV4Inv
<1>5. CASE UseBody
  BY <1>5, UseBodyInv
<1>6. CASE UNCHANGED bodyVars
  <2>1. TypeOK'
    BY <1>6 DEF bodyVars, IInv, TypeOK
  <2>2. Ranged'
    BY <1>6, TableFixed DEF bodyVars, IInv, Ranged
  <2>3. BodyFollowsScript'
    BY <1>6, TableFixed DEF bodyVars, IInv, BodyFollowsScript, ClientFields
  <2>. QED BY <2>1, <2>2, <2>3 DEF IInv
<1>. QED BY <1>1, <1>2, <1>3, <1>4, <1>5, <1>6 DEF Next, BuildStep

\* The invariant holds throughout.
THEOREM Invariance == Spec => []IInv
BY InitInv, NextInv, PTL DEF Spec

\* Every variable keeps its type.
THEOREM TypeCorrect == Spec => []TypeOK
BY Invariance, PTL DEF IInv

\* Whatever fields a request has, on whichever wire, in whatever order the map is
\* ranged over: the body says what the script said (anthropicBody, responsesBody,
\* providerWireV4Body, doChat).
THEOREM BodyIsFaithful == Spec => []BodyFollowsScript
BY Invariance, PTL DEF IInv

=============================================================================
