------------------------------- MODULE Embed --------------------------------
(***************************************************************************)
(* client.embed (embed.go): one request for a batch of inputs, and the     *)
(* rows of the reply put in the order of the inputs.  A row stands for its *)
(* vector; the server may answer with any rows, in any order.              *)
(***************************************************************************)
EXTENDS Integers, Sequences, FiniteSets

CONSTANTS
  MaxInputs,  \* bound: inputs of one request
  MaxRows     \* bound: rows of one reply

ASSUME EmbedAssumption == MaxInputs \in Nat \ {0} /\ MaxRows \in Nat \ {0}

VARIABLES
  inputs,      \* inputs of the request, 0 when it does not parse
  data,        \* the indexes of the reply's rows
  embeddings,  \* for each position, which row of data stands there
  embedding,   \* "none", "sent", "resolved", or why it was rejected
  embedCount   \* batches of samples: pushed as [requests, errors], or dropped

embedVars == <<inputs, data, embeddings, embedding, embedCount>>

Nil == 0  \* no row: null in the result
EmbedFailures == {"unsupported", "decode", "network", "timeout", "http_4xx", "http_5xx"}
NotCounted == [requests |-> 0, errors |-> 0, dropped |-> 0]

-----------------------------------------------------------------------------

\* emitEmbed or emitEmbedError, then the promise; the samples are dropped when
\* the VU's context is done.
SettleEmbed(outcome) ==
  /\ embedding' = outcome
  /\ \/ embedCount' = IF outcome = "resolved" THEN [embedCount EXCEPT !.requests = @ + 1]
                      ELSE [embedCount EXCEPT !.errors = @ + 1]
     \/ embedCount' = [embedCount EXCEPT !.dropped = @ + 1]

\* parseEmbedRequest: no input, an empty one, or one that is no string.
RefuseInput ==
  /\ embedding = "none"
  /\ SettleEmbed("decode")
  /\ UNCHANGED <<inputs, data, embeddings>>

\* The Messages API has no embeddings.
RefuseWire(w) ==
  /\ embedding = "none" /\ w = "anthropic"
  /\ inputs' \in 1..MaxInputs
  /\ SettleEmbed("unsupported")
  /\ UNCHANGED <<data, embeddings>>

SendEmbed(w) ==
  /\ embedding = "none" /\ w # "anthropic"
  /\ inputs' \in 1..MaxInputs
  /\ embedding' = "sent"
  /\ UNCHANGED <<data, embeddings, embedCount>>

EmbedFails ==
  /\ embedding = "sent"
  /\ \E why \in EmbedFailures \ {"unsupported"} : SettleEmbed(why)
  /\ UNCHANGED <<inputs, data, embeddings>>

\* Mutant: the rows as they came.
RowAsItCame(rows, i) == i

\* out[d.Index] = d.Embedding, in the order of data: the last row of an index
\* stays, and an index nobody sent leaves its place nil.
RowAt(rows, i) ==
  LET sent == {k \in DOMAIN rows : rows[k] = i - 1}
  IN IF sent = {} THEN Nil ELSE CHOOSE k \in sent : \A l \in sent : l <= k

\* As many places as rows, whatever the number of inputs.
ReplyRows ==
  /\ embedding = "sent"
  /\ \E n \in 1..MaxRows : \E rows \in [1..n -> -1..MaxRows] :
       /\ data' = rows
       /\ IF \A k \in 1..n : rows[k] \in 0..(n - 1)
          THEN /\ embeddings' = [i \in 1..n |-> RowAt(rows, i)]
               /\ SettleEmbed("resolved")
          ELSE SettleEmbed("decode") /\ UNCHANGED embeddings
  /\ UNCHANGED inputs

\* The script takes the vectors, or the error, and goes on.
Retrieve ==
  /\ embedding \in {"resolved"} \cup EmbedFailures
  /\ inputs' = 0 /\ data' = <<>> /\ embeddings' = <<>> /\ embedding' = "none"
  /\ embedCount' = NotCounted

EmbedInit ==
  /\ inputs = 0 /\ data = <<>> /\ embeddings = <<>> /\ embedding = "none"
  /\ embedCount = NotCounted

EmbedNext(w) ==
  RefuseInput \/ RefuseWire(w) \/ SendEmbed(w) \/ EmbedFails \/ ReplyRows \/ Retrieve

-----------------------------------------------------------------------------

\* What a script gets for a batch is what it sent, in its order: every row stands
\* at the index the server gave it, none is used twice, and when the server
\* answers each input once, in whatever order, there is a row for each; a null
\* row, or a row lost, takes a server that names an index twice (embed.go:178-188).
\* A call is accounted for once, as what its promise says, unless its VU is over.
EmbedRows ==
  /\ embedding \notin {"none", "sent"} =>
       /\ embedCount.requests + embedCount.errors + embedCount.dropped = 1
       /\ embedCount.dropped = 0 => embedCount.requests = (IF embedding = "resolved" THEN 1 ELSE 0)
  /\ embedding = "resolved" =>
       /\ \A i \in DOMAIN embeddings : embeddings[i] # Nil => data[embeddings[i]] = i - 1
       /\ (\E i \in DOMAIN embeddings : embeddings[i] = Nil) =
            (\E k, l \in DOMAIN data : k # l /\ data[k] = data[l])
       /\ Len(data) = inputs /\ {data[k] : k \in DOMAIN data} = 0..(inputs - 1) =>
            {embeddings[i] : i \in 1..inputs} = DOMAIN data

=============================================================================
