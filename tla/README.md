# Verification of xk6-llm

TLA+ models of the xk6-llm k6 extension (Go package `llm`, the `.go` files in
`src/`), the TLC runs that check them, and TLAPS proofs about them.
`PROJECT.json` lists components, runs, the source lines of every definition,
the hazards the properties are for, the findings and the theorems.

## The system

A k6 test runs many VUs in one process. Each VU has one JavaScript event loop
and constructs its own `Client`, `Session` and `Dataset` objects. A `chat()`
starts a goroutine; the rest of the extension's JavaScript API runs on the
event loop.

| part | state | operations | talks to |
| --- | --- | --- | --- |
| stream readers (`parseStream`, `parseAnthropicStream`, `parseResponsesStream`, `parseProviderWireV4Stream`, `finishScan`) | the parser's locals and the `chatResult` | scan a line, handle it, finish, drain | the response body; `reqCtx`, `Client.Timeout`, the VU's context |
| chat call (`Chat`, `doChat`, `send`, `emit*`) | one goroutine's progress, its request and result | validate, build, send, read, sample, export, settle | the readers, k6's sample channel, the SDK, the event loop |
| request translation (`anthropicBody`, `responsesBody`, `providerWireV4Body`, `translateMessages`, `responsesInput`) | the body being built, in the order of a Go map | range over the fields, translate the messages, close the body | the chat call |
| unary replies (`parseUnary` and its documents) | none beyond a call | read one document | the chat call |
| generation export (`exportGeneration`, `Flush`) | the SDK's queue and worker | make a record, enqueue, flush | the chat call; the collector |
| exporters (`newAgento11yClient`) | `exporters`, a process-wide `sync.Map` | load, build, load-or-store, shut down the spare | every VU |
| session | history, turn, token totals | send, both continuations, reset | chat calls, which settle in any order |
| dataset | `dsCache`, `dsCursors`, one cursor per (path, seed, shuffle) | construct, next, at, reset | every VU |
| embeddings | none beyond a call | parse the input, send, order the rows | the event loop, which it blocks |
| options | none | validate one object | the constructors |

A script closes the circle: it appends what a reply said and the results of the
tools the model called to its messages, and the next request translates them.

Hard behaviours: timers, the VU's cancellation and the network act between any
two steps of a parser; a call's samples, record and promise are separate steps;
`flush()` blocks the event loop while goroutines go on; sends overlap and settle
out of order; VUs construct and draw concurrently; a body is built in the random
order of a map; fragments of several tool calls interleave, and a reply may be cut
in the middle of one.

What makes each part correct: a reader gives one verdict and consistent
measurements; a call is accounted for once in every output it has; a body says
what the script said in whatever order it is built; what the model meant is what
the script reads, what the record says and what the next request repeats; a
session's history records its sends; one live SDK client and one cursor per key.

## Modules

| module | models | state and actions |
| --- | --- | --- |
| `StreamVerdict` | what reading a reply promises | one verdict, given once; aborted only under a limit that was set |
| `ChatStream` | the four readers, `finishScan`, the drain: times, counts, verdict | `ScanLine`, `ScanTail`, `ScanStops`, `FinishScan`, `Drain` are the goroutine; `Deliver`, `EndBody`, `ResetConnection`, `TimeOut`, `AbortDeadline`, `CancelVU`, `Tick` the environment |
| `OutputTime` | `streamedOutput`, `tpotDerivable` | operators on a result of `ChatStream` |
| `ChatCall` | `Chat` and `doChat` around the readers, samples, records, the promise, `flush()` | `Chat` and `Settle` on the event loop, `Goroutine` per call, timers, the VU's end, the SDK's worker |
| `Translate` | messages on the Messages and Responses APIs, in the v4 prompt and in a record | folds over the messages |
| `RequestBody` | the loop over a request's fields and what closes the body | `RangeField` in any order, `RefuseField`, `CloseAnthropic`, `CloseResponses`, `CloseV4`, `UseBody` |
| `Reply` | what the readers assemble from events, and the unary documents: calls and token counts | one action per event of a wire, in every order a provider may send them; the end and the cut of the body |
| `Embed` | `embed.go` | refusal, request, reply with rows in any order, duplicated or missing; samples |
| `AgentLoop` | the four above around a script's tool-calling loop | `Say`, `Instruct`, `Ask`, `Build`, `Post`, `Read`, `Echo`, `Answer`, `EmbedQuery` |
| `Session` | `session.go` | `Send`, `RefuseSend`, `OnFulfilled`, `OnRejected`, `Resolve`, `Reset` |
| `SharedOnce` | what a `sync.Map` used through `LoadOrStore` promises | first value stays, everyone gets it |
| `Exporters` | `newAgento11yClient` | `Load`, `Build`, `LoadOrStore`, `ShutdownSpare` per VU |
| `Dataset` | `dataset.go` | `LoadItems`, `ReadItems`, `BindCursor`, `Draw`, `At`, `Reset` per VU |
| `FoldFacts` | lemmas about a loop over a sequence, for any loop body `Op` | instantiated once per folded operator |
| `*Proofs` | theorems about `ChatStream`, `ChatCall`, `RequestBody`, `Session`, `Exporters`, `Dataset`, `AgentLoop` | |

`ChatStream` and every call of `ChatCall` implement `StreamVerdict`
(`GivesOneVerdict`, `EachGivesOneVerdict`); `Exporters` and `Dataset` implement
`SharedOnce` (`SharesOneClient`, `SharesOneCursor`). `ChatCall` reads a stream in
one step, which is justified by the first refinement. `ChatStream` and `Reply` are
two views of the same parsers: the one keeps the times and counts of a line, the
other the calls and tokens it carries; no branch of a parser reads both.

How data is abstracted:

- A line of a stream is, in `ChatStream`, what its parser does with it: text,
  reasoning, tool fragments, the terminal event, an error envelope, an undecodable
  line, nothing. A line may be half received when the body ends or breaks. Each
  wire has the lines its `switch` tells apart.
- Time is a clock in ticks; `send` takes at least one, so no duration is zero.
- A transport fails as a timeout or otherwise, at any time: a call's own timers are not
  the only timeouts of `classifyTransportError`, which reads the kind off the error (a
  dial, a TLS handshake, a VU's context with a deadline).
- A request of `ChatCall` is whether it is valid, can be built, is unary,
  and which limits and SLO it sets. A sample batch is what the accounting
  properties tell apart: outcome, error kind, goodput, the rate-limit gauge.
- `NoResult.quota = "unset"` is Go's zero value, which `emit` takes for a header
  that said 0.
- A request of `RequestBody` is its set of fields and five facts about their
  values; the body is where each of its fields comes from.
- A text of a conversation is a number, 0 the empty string; a tool call is its id
  and its arguments, a sequence of fragments, which parse when every fragment is
  there once and in order.
- A loop of the code over a list is a `FoldLeft` of the operator that is its body
  (`TranslateMessage`, `InputItem`, `AppendPrompt`, `AppendSystem`), so that the same
  definition is run by TLC and reasoned about.
- What a provider may reply is a constant, of which `RepliesAssumption` says that the
  tokens spent on thinking, and those counted in a stream's first report, are among
  the output tokens. `RepliesOver` says what a wire can carry: no calls on V4, and
  cached tokens that are among the input tokens on OpenAI's.
- A message of a session is a role and the send it belongs to.
- Definitions marked `Mutant` are bugs the runs must catch; they are used nowhere.

External, modelled from how the code uses it: the response body, k6's event loop
and contexts, the SDK's queue and worker, `sync.Map`, the script.

## Runs

| run | properties | bounds |
| --- | --- | --- |
| `stream` (`MCChatStream`) | `TimesInOrder`, `OneGapPerLaterChunk`, `TextPhaseMeasured`, `BudgetHolds`, `AbortHasCause`, `CompleteReplyEnded`, `FrozenOnceStopped`, `GivesOneVerdict`, `ReturnsUnderALimit` | 4 wires, 3 writes, 3 ticks, limits on and off |
| `call` (`MCChatCall`) | `AccountedOnce`, `RecordMatchesSamples`, `OutcomeComesFirst`, `FlushCoversSettled`, `EachGivesOneVerdict`, `TimedCallsSettle` | 2 calls in 5 pairs of 6 kinds, a queue of 1 |
| `agent_loop` (`MCAgentLoop`) | `BodyFollowsScript`, `ProjectionsAgree`, `ResultsGrouped`, `PrefixStable`, `ReplyFaithful`, `RoundTrip`, `EmbedRows` | 4 wires, unary and streamed, 5 messages with 2 by the user or the system, 2 chat calls, 2 tool calls side by side with 2 and 1 fragments, 3 inputs and 3 rows |
| `session` (`MCSession`) | `HistoryWellFormed`, `AwaitedHistoryPairs`, `ReplyInHistory`, `ColdStartsClean`, `TokensAddUp` | 3 sends, 2 resets |
| `exporters` (`MCExporters.cfg`) | `InUseIsAlive`, `OneWorkerPerConfig`, `SharesOneClient` | 4 VUs, 2 configurations |
| `dataset` (`MCDataset`) | `DrawnEvenly`, `DrawnInOrder`, `AtIsPeriodic`, `OnlyValidCached`, `SharesOneCursor` | 3 VUs, 2 keys, 3 items, 5 draws |

The passing runs but `agent_loop` also check their module's
`TypeOK`; `RequestBody`'s is proved. Why the bounds are enough:

- Three writes give a first, a middle and a last chunk, each whole or half
  received; the budget of 2 is reached by the second text chunk, or passed by a
  delta with text and reasoning. The deadline of 2 falls before the timeout of 3,
  and both before, between and after the writes.
- Two calls are enough for a full queue, for a flush that covers one call and
  meets the other in flight, and for the goroutines' steps to interleave; no
  action looks at more than one other call. `MCPairs` starts from five pairs of
  requests and not from all: two calls meet in the queue, in a flush and at the VU's
  end only, none of which looks at a request, so each kind needs a partner that gets
  as far as it does and one that does not, not every partner. The proofs cover any
  set of calls and requests.
- Five messages hold a question, two calls side by side, both results in either
  order and an instruction between them, or a whole round of the loop and the start
  of the next; two calls with 2 and 1 fragments interleave in every way, and a call
  without arguments has none. Two replies let the first one, cut or whole, be
  repeated to the model. Three rows over three inputs give every permutation, a
  duplicate and a row that is missing.
- The bodies are the ones of the examples and those whose fields meet under one
  name; `RequestBodyProofs` covers the others.
- Three sends give an overlap of two with a third before or after; two resets put
  one on either side of a send.
- Four VUs over two configurations allow two racing pairs or one race of four.
- Five draws pass the end of a corpus of three, before and after a reset.

No run uses `SYMMETRY`. Deadlock is checked everywhere but in the run
`field_clobbered`, whose module stops when the body is built: the models' terminal
states have an explicit step that stutters (`Returned`, `Ended`, `Finished`, `Constructed`, `Failed`, `Over`).

### Fairness

`ChatStream`: the goroutine's steps, the clock and the timers are weakly fair. The
server owes nothing, so it may stall for ever. `ReturnsUnderALimit` therefore
covers calls with a deadline or `timeout_ms`; a call with neither waits for the
server, in the read and in the drain, which is what the code does.

`ChatCall`: `Send` and `Reply` are fair only once the transport is cut off. The
event loop is strongly fair to a settled call's callback because a script that
keeps calling `flush()` leaves the loop free between calls, and the loop's queue
is served in order. `flush()` ends because `flushTimeout` ends it.

The other modules state safety only.

### Findings

Each is a run that checks one statement of the documentation or of a comment and
that TLC refutes.

| run | statement | what happens |
| --- | --- | --- |
| `abort_deadline` | README.md:128 "the result resolves with `aborted: true`" | the deadline cuts a line in half, the fragment is decoded before the read error is looked at, and the call fails with `decode chunk` (client.go:949) |
| `ttft_on_budget` | README.md:61 TTFT "at the first content-bearing event" on every wire | `parseStream` breaks at the budget before TTFT is taken (client.go:999) |
| `goodput_on_failure` | client.go:250 the two goodputs "can never disagree" | a failed call is a miss in k6 and has no goodput in its record (client.go:424) |
| `refused_uncounted` | README.md:79 a failed call "counts as a miss"; README.md:210 every call exports a record, "including failed calls" (and docs/agent-observability.md:40, :63) | a call that `parseChatRequest` refuses has an error sample only (client.go:403) |
| `quota_on_abort` | README.md:88 gauges "only when the provider sends the header" | an aborted unary call pushes zeros (client.go:738) |
| `field_clobbered` | anthropic.go:82 "Do not clobber an explicitly supplied Messages field." | a script's `output_config` is replaced by its `response_format` when the map yields that one last (anthropic.go:95) |

`AccountedOnce` says what the code does of a refused call, and `EveryCallCounted` holds
the documents' words against it; both name the case.

Smaller ones need no run. `turn()` is documented as counting completed sends
(session.go:141) and counts those made (session.go:81). The comment at
responses.go:185-188 says that system messages become instructions because "Responses
has no system input item", and one whose content is a list of parts is left in the
input (responses.go:212): `ProjectionsAgree` states it as it is.

## Proofs

TLAPS proves, for every value of the constants that satisfies the modules' named
assumptions, every safety property the passing runs check, with four refinements.
Hardly one of the properties is inductive alone; each module has an inductive
invariant (`IInv`, and in `AgentLoopProofs` several), proved from the initial
states, kept by every step, and the properties follow from it.

- `ChatStreamProofs` (any limits, wires, tool indexes and bounds). `IInv` links the
  parsers' locals to the result: no time in it is later than the clock, and they are
  in order (`ClockInv`); a parser that has not seen its first token has counted no
  output (`UntouchedInv`); a parser still scanning is under its budget
  (`BudgetInv`); what marked a result aborted (`AbortInv`); and how the parser may
  have left its loop: the terminal event, the budget, the end of the body or a
  scanner error (`EndInv`). One lemma for a line on each loop shape (`OpenAIEvent`,
  `StoppingEvent`, `V4Event`), over lemmas on what `Gap`, `TextDelta`, `Counted` and
  `FirstToken` do to each field of a result; one for `FinishScan`; one for the
  environment. `ImplementsVerdict` maps each step of the reader to one verdict or a
  stutter and each end of the context to `ContextEnds`. `TextPhaseMeasured` needs
  one conjunct more (`PhaseInv`): the samples add up to the time from the first
  content chunk to the last, on each wire kept by the one lemma `ChunkPhase`.
- `ChatCallProofs` (any set of calls and requests, any queue). `SamplesInv` says,
  for each step of a call in a VU that is not done, exactly which batches it has
  pushed; `RecordInv` that a record is the one its result makes; `HeldInv` that the
  SDK has, shipped, dropped or lost the records of the calls past their export and no
  others; `FlushInv` that a flush covers what the settled calls left in the queue,
  which holds because a running flush keeps every promise from settling;
  `StageInv` which step has an outcome. `AccountedOnce` then counts positions in a
  sequence of at most three batches (`SampledPositions`); `OutcomesComeFirst` needs of a
  VU that is done only that nothing is pushed any more. `CallsGiveOneVerdict` is
  the refinement of `StreamVerdict` by each call.
- `RequestBodyProofs` (any set of fields, any order of the map). `Ranged`: while the
  loop ranges, the body holds exactly the fields that those it has seen set, each
  from one that sets it. One lemma per wire (`AnthropicTable` and its like) says of
  the tables that a field so set has a source that may stand for it, the script's
  own where there is one. `BodyIsFaithful` is proved of `RequestBody`'s own `Spec`.
- `SessionProofs` (any number of sends and resets). Sends are made in order and each
  turn was counted by one of them (`SendsInv`); every message is of a send that was
  made, or the system prompt (`SaidInv`, `RepliedInv`, `SystemInv`); and for a script
  that awaits, the send in flight has the last message, and the history is empty
  exactly before the first turn (`AwaitedInv`): that is what the pairs and the cold
  tag rest on. `TotalsAddUp` is about a sum over all sends: it is kept because a
  step changes the usage of one send at most, from nothing (`UsageInv`), and
  `SumOfOneChanged` says by how much the sum then moves.
- `ExportersProofs` (any number of VUs and configurations). `StoreInv` says of each
  constructor what it has been given and whether its client runs, by its `pc`, and
  of each stored client that it is alive, that its builder has returned, and that it
  was built for its key: that is why the spare a constructor shuts down is never the
  stored one.
- `DatasetProofs` (any number of VUs and keys, a corpus of any size). `CursorInv`:
  whoever made a key's cursor has it, as has everyone ready. `RoundsInv`: a key's
  lines have been served in whole rounds of its permutation and the start of one,
  as far as its cursor has come; a draw goes on or begins the next
  (`ModSucc`), a reset by any VU starts over. `NormalizeIsMod` shows Go's remainder,
  corrected, to be the mathematical one, and `OrderIsOnto` that an injective
  shuffle reaches every line.
- `FoldFacts` (any loop body) holds lemmas only, which say nothing of this program:
  what `FoldLeft` returns for the empty sequence and for one element more
  (`FoldOfNone`, `FoldOfOneMore`), what an iteration keeps (`FoldKeeps`), how a sum
  moves (`SumOfOneChanged`), and induction over a sequence (`ListInduction`). The library's
  theorems with an operator as a parameter are of no use to these provers; here the
  operator is a constant of the module, which each `INSTANCE FoldFacts WITH Op <- ...`
  replaces before a prover sees the fact. Induction is by the least counterexample:
  a set of naturals that is not empty has a least element, which well-foundedness
  gives without an operator parameter.
- `AgentLoopProofs` (any script, replies, lists and number of calls; it extends
  `RequestBodyProofs`). In three layers:
  - What a list of messages becomes, for every list a script can write, by induction
    over it. Each translation is a loop with an accumulator, so each fact is stated of
    the accumulator: what the turns made and the results still pending say together is
    what the messages so far said (`TranslateSays`), and likewise for the other two
    projections (`InputFacts`, `AppendPromptFacts`), whose system texts are told apart by
    their form (`SystemKeptByAll`, `SystemTextsFacts`): `EveryListAgrees`.
    One message more leaves the turns made as they are, but that the last may get a
    result more (`TurnsExtend`): `EveryAppendExtends`. `ResultsGrouped` looks one message
    back, so its induction carries what the last message has left in the accumulator
    (`LastLeft`), and that a turn survives with its results (`TurnsSurvive`):
    `EveryListIsGrouped`.
  - What a reader makes of a reply (`ReplyInv`). `BufferInv`: an entry of the buffer
    holds fragments of its own call only, the first of them in order, or on the Responses
    wire a choice of them until the done event replaces it by all; and the order lists
    each index of the buffer once, so that sorting it (`KthFacts`) gives the calls by
    index. `UsageSoFar`: the counts are those the reports so far give. When the reader
    returns, `AllRead` or, cut, `CallsRead`. A document read at once gives the same
    (`UnaryReads`).
  - The conversation. `SaidInv`: the calls of the reply being read are the last that
    were said. `RoundInv` (`Carried`): the calls in the script's messages are those said
    before this reply, in order, each with its own arguments unless it was cut; it needs
    `ReplyInv` at the step that echoes a reply. With what the translation makes of a
    list's calls (`UsesOfList`), `RoundTrip` follows.
  `EmbeddingsInOrder` rests on counting: as many rows as places, so a place is empty
  exactly when two rows name another (`RowsAndPlaces`). `BodiesOfACallAreFaithful` takes
  `RequestBodyProofs`' invariant to each call of a conversation.

Only model-checked: the liveness properties `ReturnsUnderALimit` and
`TimedCallsSettle`, which need fairness and so `ENABLED`, out of this prover's reach.
`SharesOneClient`, `SharesOneCursor`, `GivesOneVerdict` and `EachGivesOneVerdict` are
refinements of the abstract specifications' initial states and steps, and proved.

The proofs of `AgentLoopProofs` take about a quarter of an hour from nothing, the others a
minute or two each.

## Not modelled

- Cost, energy and the SLO comparison, and the tags of samples: arithmetic on
  values the models do not carry.
- The reshaping of one tool declaration and of `tool_choice`, the tools and
  sampling parameters in a record, finish reasons, llama.cpp's timings: one value to
  one value, without state, order or failure.
- Options: the validation of one object, without state.
- Go's types where JavaScript's are one. `Session` hands on `[]map[string]any`
  where the v4 translation asserts `[]any` (providerwire.go:59), so every send of a
  session over that wire is refused; a list of messages is one value in the models.
- k6 itself: thresholds, the sample pipeline beyond `PushIfNotDone`.
- JavaScript glue (`module.go`, `register.go`), the type declarations, the corpus
  converter; of the examples, the loop of `agent.js` and the embedding of `rag.js`
  are the script of `AgentLoop`.

## Order of the work

`StreamVerdict` and `ChatStream` came first, as the core every call rests on; then
`ChatCall`; `Session`; `SharedOnce`, `Exporters` and `Dataset`; then the data a call
carries, `Translate`, `RequestBody`, `Reply`, `Embed` and `OutputTime`, composed in
`AgentLoop`; the proofs followed their modules. What would come next is cost and
the SLO outcome as operators over a result of `ChatStream`, and a composition of
`Session` with `AgentLoop`, whose histories today are two models of one
conversation.
