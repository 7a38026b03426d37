# TLA+ specifications of droids

`droids` is a Go package for building agents: a `Droid` owns a conversation, a
queue of prompts and one goroutine that runs them; a run alternates between a
model provider and the tools the model asks for; events report what happens.
This directory models the parts of it whose correctness depends on order,
interleaving and failure, checks the models with TLC on small instances, and
proves the central ones with TLAPS for every value of their constants. The
source is the reference: each definition that models code is mapped, in
`PROJECT.json`, to the lines it translates.

Contents: [the system](#the-system) · [modules](#modules) · [the session](#the-session)
· [the agent loop](#the-agent-loop) · [provider streams](#provider-streams)
· [limits, budgets and sequences](#limits-budgets-and-sequences)
· [the MCP namespace](#the-mcp-namespace) · [the registry](#the-registry)
· [runs](#runs-and-bounds) · [fairness](#fairness) · [proofs](#proofs)
· [disagreements](#where-code-and-comments-disagree) · [left out](#what-is-not-modelled)
· [plan](#plan) · [how to run](#how-to-run)

## The system

| component | source | state | operations |
|---|---|---|---|
| Session | `droid.go`, `run.go`, worker half of `loop.go` | `queueMu`, `accepting`, `closed`, the queue, `cancelRun`, `activeRun`, the session channel, one stream per run | `Send`, `Execute`, `Stream`, `Continue`, `ContinueStream`, `Abort`, `Close`, `Events`; the worker; one watcher goroutine per run |
| Agent loop | `loop.go` | transcript, steering queue, the step, the batch of tool calls | `runPrompt`, `streamTurn`, tool batches (sequential, parallel), `Steer` |
| Events | `event.go` | none of its own | the order in which a run emits them |
| Compaction | `compaction.go` | replaces the transcript | threshold and overflow triggers, hook, validation of its answer |
| Message sequences | `compaction.go`, `loop.go`, `message.go` | none (pure) | `validateMessageSequence`, `validateContinuation` |
| Storage | `storage.go` | the stored session | `Load` once, `Append` per message, errors ignored |
| Registry | `provider.go`, `model_catalog.go` | entries, index, ambiguous ids | lookup, `RefreshModels`, `rebuildIndex` |
| Models | `model.go`, `model_catalog.go` | none (pure) | which models a catalog lists, which options a model accepts |
| Provider streams | `stream.go`, `provider.go`, the pipe of `provider_openai.go` | a bounded channel, a final message | `Stream`, `emit`, `finish`, `Events`, `Result` |
| Providers | `provider_openai.go`, `provider_anthropic.go`, `provider_cloudflare.go` | what one stream has announced and accumulated | translation of requests, events and final messages |
| Tools | `tool.go` | none | schema, decoding of arguments |
| MCP manager | `mcp/manager.go` | per namespace: session, tool list, generations, locks | connect, discover, call, notifications, close |
| MCP results | `mcp/result.go` | a byte budget | conversion of one result |
| Chat program | `cmd/chat/main.go` | `turnDone` | read loop, renderer, interrupt |
| Catalog generator | `internal/cmd/modelcatalog` | none | writes a file |

**How they interact.** Callers hand prompts to the session through a channel
under `queueMu`. The worker takes one at a time and calls the loop with a
context that is cancelled by the caller, by `Abort`, by `Close` or by the run's
end. The loop calls a provider through the registry, reads its stream, runs
tools (goroutines in a parallel batch, bounded by a semaphore), calls the hooks,
appends to the transcript and to storage, and emits events to the run's own
stream or to the session channel. A provider's goroutine fills a bounded pipe
that only the loop empties; it learns of a cancellation through the SDK's stream. MCP tools are ordinary tools whose execution
goes through a namespace shared by all calls.

**What is hard.** Admission against the worker's final drain; a closed channel
against a late send; cancellation by a copied function after the run it was for;
back pressure and `Close` at once; a batch of tools cut short; a hook that
outlives its run; a crash between two appends; a notification during the listing
it makes stale; a handshake that wins against `close`; an index rebuilt in an
arbitrary order; a wire cut in the middle of a tool call; a full pipe and a
cancelled consumer; two places that work out the same limit. `PROJECT.json` lists these hazards, each at its line with the
properties that would catch it, or with the reason why none does.

**What makes each component correct.**

- Session: accepted prompts are answered once, run one at a time in order, never
  after `Close`; nobody is stuck; events reach the stream they belong to.
- Agent loop: every request carries the results of the calls before it; a run
  that used up its steps can be continued; steering is neither lost nor
  repeated; requests, compactions and tools stay within their limits; a
  cancelled run ends.
- Provider streams: whatever the wire does, the loop sees a start, announced
  parts and one honest end; only calls received whole are executed; a cancelled
  request gives its result.
- Models: options accepted before a request are not refused within it.
- Compaction arithmetic: a context that is let pass fits the model's limits.
- Message sequences: the scans accept exactly the paired sequences.
- MCP results: what is kept of a result stays within its limit of bytes.
- MCP namespace: a served tool list is current; no session leaks; `close`
  returns; a dead session is replaced and a healthy one kept.
- Registry: lookups are exact whatever the iteration order; no refresh gives an
  id in use to another model.

## Modules

| module | what it is |
|---|---|
| `PromptService` | what a session promises: accept, refuse, run in order, close |
| `DroidSession` | the session; implements `PromptService` |
| `DroidSessionProofs` | its inductive invariant, its safety properties and the refinement, proved |
| `MessageSequence` | messages and the two validations, as operators |
| `ProviderInput` | what of a transcript a request carries, for each provider |
| `MessageSequenceProofs` | what the two modules above compute, for sequences of any length |
| `RunEvents` | the order in which `loop.go` sends the events of a run, as an automaton a consumer could run |
| `AgentLoop` | a run from its first to its last event; uses `MessageSequence`, `ProviderInput` and `RunEvents` |
| `LoopDelivery` | the loop when each send waits for a reader; implements `AgentLoop` |
| `AgentLoopProofs` | the inductive invariant of the loop and the proofs of its safety properties |
| `StreamContract` | what a provider's stream promises the loop |
| `ModelLimits` | models of a catalog, the options they accept, the provider's second look |
| `ProviderStream` | one request to either provider; implements `StreamContract`, uses `ModelLimits` |
| `ProviderStreamProofs` | its inductive invariant, its safety properties and the refinement, proved |
| `ContextBudget` | the token estimate, the remaining context and the compaction trigger |
| `CallResult` | the byte count of an MCP result, and what is kept of it |
| `FunctionProofs` | what the runs check of the pure functions, for inputs of any length |
| `Namespace` | one MCP namespace |
| `NamespaceProofs` | its inductive invariant and the proofs of its safety properties |
| `Registry` | providers, models, refreshes and lookups |
| `RegistryProofs` | its inductive invariant, and what the index knows in every order of iteration |
| `IntervalInduction` | induction and recursion over an interval of numbers, stated for sets |
| `MC*` | instances for TLC |

Definitions introduced by "Faulty variant" are not part of any behaviour: each
is a mistake one could make in the code, and `PROJECT.json` names the definition
it stands in for and the property that then fails.

## The session

`DroidSession` has one action per critical section or channel operation. Giving
`queueMu` back is joined to the step before it, which only lets others go on
sooner.

| code | actions |
|---|---|
| `enqueue` (droid.go:293-329) | `Submit` (context check), `Admit` (lock and `accepting`), `Offer` or `Withdraw` (the select, any ready case) |
| `Execute`, a consumer of `Run` | `ExecuteReturns`, `Consume`, `StreamReturns`, `CallerCancels` |
| `Abort` (droid.go:341-348) | `AbortRead` copies `cancelRun` under `d.mu`, `AbortFire` calls the copy later |
| `Close` | `CloseSignal` closes the channel, `CloseGate` takes `queueMu` and clears `accepting` |
| `Events`, a reader of it | `Subscribe`, `ReadEvents` |
| the worker's loop (loop.go:15-45) | `TakeClosed`, `Dequeue`, `Recheck`, `Settle` |
| `runPrompt`, set-up and deferred clean-up | `Register`, `SpawnWatcher`, `Check`, `Announce`, `Seed`, `TurnsOver`, `Final`, `Unregister`, `Release` |
| the watcher of a run | `WatcherFires`, `WatcherStops` |
| `shutdownWorker` | `Shutdown`, `Drain`, `Drained`, `FinishEvents` |

`client[p]` is the place of call `p`, `wpc` the place of the worker, `cur` the
prompt in its hands, `result[p]` the answer given, `buf[p]` the channel of a
run's events and `got[p]` what its consumer has read. `transcript` records seed
messages only: what comes between is the subject of `AgentLoop`, and
`TurnsOver` stands for it. `late` and `targeted` are history: prompts
that entered the queue after `Close`, and runs an `Abort` found active. A send
to a closed stream leads to `wpc = "panicked"`.

`PromptService` has no mutex, channel or goroutine: a prompt is accepted or
refused, begins when it is the oldest and nothing runs, and after `Close` what
has not begun is discarded. `ImplementsService` is the refinement: `pending` is
the queue, preceded by the prompt the worker holds before its second look at
`closed`, so that `Recheck` is the step that begins or discards.

## The agent loop

`AgentLoop` follows `runPrompt` from the seed on. A step ends where the code
reads what others write (the context, the steering queue, the results of tool
goroutines) or waits (for the provider, a tool, a hook).

| code | actions |
|---|---|
| start of a run, refused continuation | `StartRun`, `RefuseContinuation` |
| head of the loop | `StepAborts`, `StepFirst`, `StepLater` (drain of steering), `Weigh` (threshold) |
| `compact` | `HookFails`, `HookDeclines`, `HookApplies`, with the checks made after the hook returns |
| `streamTurn` | `Request`, `StreamStarts`, `RespondFailing`, `RespondOverflow` (compact and retry once), `RespondFinal`, `RespondCalling` |
| sequential batch | `SequentialBlocked`, `SequentialStart`, `ToolReturns` |
| parallel batch | `Preflight`, `Acquire`, `ToolEnds`, `Join`, `Finalize` |
| end of a batch, of the steps | `BatchEnd` |
| environment | `Cancel` (caller, `Abort` or `Close`), `Steer`, `Restart` |

A message is a role with its stop reason and tool calls, or the call it answers;
texts, token counts and payloads are left out. The provider may reply with any
message `ProviderStream` can end with, which includes calls in a message that
did not stop for them: whole ones never executed, or begun and cut. A request is
`Items(Wire, transcript)`: the OpenAI translation leaves out the calls of such
messages, the Anthropic one keeps them. `RequestComplete` says of those items
that every call stands before its output and every output behind its call
(`Matched`). `Wire` is `"openai"` in all runs but the one that shows the
difference. Whether a context is large is its number of
messages against `Trigger`. `stored` is what storage holds: with `StoreMayFail`
each append may fail by itself, and nobody notices, as in the code (`SomeOf`
is what may be left of several). `Restart`
is a crash followed by `New`: the transcript is read back from `stored`,
everything else is lost.

`RunEvents` gives the order in which `loop.go` sends events as an automaton that
reads one event at a time; `view` is its state after the events emitted so far,
which makes "the events so far are well formed" an invariant without keeping
them. That order is looser than the list at the head of `event.go` in two places,
described [below](#where-code-and-comments-disagree): messages come outside a
turn, and `AgentEnd` follows an `ErrorEvent`. What does hold is that every bracket
closes and every run, a failing one too, ends in one `AgentEnd`:
`EventsWellFormed`.

In `AgentLoop` an event is sent at once. In the code a send on a full channel
waits for its reader and watches no context of the run (run.go:37,
droid.go:196-199). `LoopDelivery` adds that wait: `full` says that the channel
has no room, every step that sends needs room and may take the last of it, and
`ReadEvent` is the reader. `CancelledRunEnds` is stated there, since it is true
only while somebody reads: with nobody at the channel a cancelled run is held
where it stands, on its own stream for good, on the session's channel until
`Close`, which `DroidSession` models in `Announce` and `Final`.

## Provider streams

`StreamContract` is the comment on `StreamEvent` (stream.go) as a specification
with two variables, the events heard and the answer `Result` gave: one
`StreamStart`, then parts, the deltas of a text or call behind its start, then
exactly one terminal event, `StreamError` just for the stop reasons that are
failures; `Result` is the message of that event. A request that fails before it
begins may consist of its `StreamError` (`erroredStream`).

`ProviderStream` is the detailed side, one request from `registry.Stream` to
`Result`. `request.model.api` decides which provider's actions it takes.

| code | actions |
|---|---|
| `registry.Stream` (provider.go) | `Call`, `CallRefused` |
| `stream`, `run` up to the request | `Prepare` (translation and the provider's own checks) |
| `pipeStream` | `Send`, `CloseEvents`, `CloseDone`, `Result` |
| the OpenAI wire loop | `OpenAIItem`, `OpenAIText`, `OpenAIThinking`, `OpenAICallAdded`, `OpenAICallUnnamed`, `OpenAIArguments`, `OpenAICompleted`, `OpenAIIncomplete`, `OpenAIFailed`, `OpenAICut` |
| the Anthropic wire loop | `AnthropicBlock`, `AnthropicDelta`, `AnthropicSkips`, `AnthropicStops`, `AnthropicEnds` |
| both | `BlockEnds`, `WireBreaks` |
| `streamTurn`, as far as it reads | `Receive`, `RangeEnds`; `Cancel` is the caller, `Abort` or `Close` |

The state is where the goroutine stands (`pc`), the events it has still to send
(`out`), the pipe, the final message and, of the wire, the blocks begun, those
received whole, those announced to the loop and the tail an Anthropic message
has announced. A block is its kind, a message its stop reason and the
indexes of its calls. The wire is external, modelled from how the SDKs hand it
over: a server ends a message of its own accord, or calls tools, only when every
block is whole, and may break off at any point, with an error or without; a
response that is incomplete, filtered, cancelled or failed may leave blocks half
received. `OpenAIItem` is an item no event told of, which the last response
lists all the same. `AnthropicSkips` is a piece of a block that the SDK cannot
add up: the loop goes on to the next one (provider_anthropic.go:163-165), and
nothing marks the block. The two places where the OpenAI loop looks at the
status of a terminal response (provider_openai.go:194 and 204) are actions of
their own, `OpenAICompleted` and `OpenAIIncomplete`.

`KeepsContract` is the refinement, by the events received and the answer
themselves. `OnlyWholeCallsRun` says that a message for which the loop executes
tools has calls, and that the server had sent all of them to their end; a piece
the SDK skipped on the way is not noticed, and no property says it is.
`AcceptedOptionsServed` says that options which pass `resolveRequestMaxTokens`
pass the provider's own check; `StreamEnds` that a cancelled or finished stream
gives its result, if the events of the run are read.

## Limits, budgets and sequences

The pure functions are operators, checked by `MCFunctions` over inputs that grow
one element at a time.

- `ModelLimits`: the models a catalog lists and their reasoning levels; the
  allowance of a request and its minimum (model.go); the allowance the Anthropic
  provider works out again for itself, `Refuses`.
- `ContextBudget`: the estimate of a request's tokens from bytes,
  `shouldCompact` and `ContextUsage.Remaining`. `UncompactedFits`: a request that
  is let pass leaves part of every known limit free, its output reserved. The
  float product of the trigger is written as the integer quotient it truncates
  to. The loops that add sizes up are `Total`, a recursive function over the
  positions in their order.
- `CallResult`: the count of `convertCallResult` over structured content and
  blocks, and the sizes of what is kept of it. An image is counted as its base64
  and kept as a data URL around it, beside its media type; the difference is its
  `Label`. `ResultWithinLimit` compares the verdict of the count with the size of
  what is kept, labels left aside and computed without the count; with the labels
  a result may exceed any limit (the theorem `LabelsGoUncounted`).
- `MessageSequence`: `ValidSequence` is the scan of `validateMessageSequence`,
  which jumps over each batch, and `ValidContinuation` that of
  `validateContinuation`, which starts at the end. `Paired` is the reference:
  every call of a tool-use turn has its result in its place and every result its
  call, with no scanning at all. The vocabulary has repeated, empty and
  mismatched ids and names. The two validations differ in one point:
  `validateContinuation` does not look at the stop reason of the message whose
  results it finds. `ReplacementContinues` says both halves: what a compaction
  may install and ends in results may be continued; and a tail that may be
  continued is one a compaction may install exactly when its message stopped for
  its calls.

## The MCP namespace

`Namespace` is one namespace of a `Manager`: executions of the proxy tool
connect, list and call; a notification or an invalidation raises
`toolGeneration`; a listing stores its answer only under the generation it began
with. `connectMu` and `listMu` are held across network calls, as in the code.
The SDK and the server are modelled from how `manager.go` uses them, and marked
external in the map: a session may end at any time, notifications arrive at any
later time, requests on an ended session fail. A list is served from the cache
without asking whether its session is still alive; `CacheFresh` therefore leaves
out the time between the end of a session and its being noticed.

## The registry

`Registry` overlays documents fetched outside the lock over the models the
package was built with; `Publish` is the catalog service moving on between two
fetches. An id is a sequence of segments, so that a gateway's
`"openai/gpt"` can be confused with provider `openai`'s `gpt`. `RebuildIndex`
visits the providers in every order a Go map may give. The id of a provider is a
sequence too, since nothing validates it, while a namespaced id is cut at its
first slash. `LookupExact` is about providers whose id is one segment, and the
theorem `SlashedProvidersAreUnnamed` about the others. `MeaningKept` is an action
property: whatever a refresh brings, an id does not move from one provider's
model to another provider's model of the same id. Models that a document no
longer lists are not removed by it.

## Runs and bounds

| run | instance | shows |
|---|---|---|
| `session_admission` | three prompts (execute, stream, send), one may cancel, queue of two | type correctness and the bound of the queue; `OnePlace`, `DrainIsFinal`, `Exclusion`, `LateNeverRuns`, `TranscriptMatchesRuns`, `SettledOnce`; refinement of `PromptService` |
| `session_events` | a continuation with a stream and a send, one `Abort`, all channels of one, a session channel that need not be read and runs that need not end before they are cancelled | `NoPanic`, `StreamIsItsOwn`, `StreamIsComplete`, `NoStrayCancel`; `CloseTerminates`, `CloseReleasesCallers`; every accepted prompt is settled if runs end and the channel is read |
| `pure_functions` | all sequences up to five messages; MCP results of up to three blocks around a limit of ten bytes; contexts of up to three messages for models with windows from 5 to 10003 | `ScanFindsPairs`, `ReplacementContinues`, `ResultWithinLimit`, `UncompactedFits` |
| `provider_streams` | one request of eight (defaults, allowances at the boundary, an effort the model lacks, contents that cannot be translated) to either provider, two blocks, two deltas, a pipe of two | `OnlyWholeCallsRun`, `AcceptedOptionsServed`, `StreamEnds`; refinement of `StreamContract` |
| `loop_tools` | two runs, two steps, batches of two calls, parallel (one at a time) or sequential, hooks that block and compact, one crash | type correctness; `EventsWellFormed`, `ToolsConfined`, `RequestComplete`, `ContinuableAfterMaxSteps` |
| `loop_steering` | two runs, two steers, both compactions | `SteeringConserved`, `BudgetRespected`, `ContinuationKeepsSteering` |
| `loop_cancel` | one run of two steps whose sends wait for their reader, parallel and sequential batches, a semaphore of one, the compaction hook, one steer, one crash | `CancelledRunEnds` |
| `namespace` | a call and a discovery, two sessions, one change of the list | `CacheFresh`, `NoLeak`, `ClosedIsFinal`, `HealthySessionKept`, `CloseReturns`, `DeadSessionForgotten` |
| `registry` | three providers, one of them under an id with a slash, three models, two refreshes, two documents | `LookupExact`, `MeaningKept` |
| `loop_cut_batch`, `loop_abort`, `loop_partial_replay` | violations, see [below](#where-code-and-comments-disagree) | |

Why these bounds are enough to be interesting:

- three prompts are one in the worker's hands, one in the queue and one in the
  select of `enqueue`; channels of one block at the second event, and a run
  emits two. The code's capacities of 64 differ only in how long it takes.
- two calls in a batch are the least that can be reordered, overlap or be cut
  between; two steps are a turn that is not the last and one that is; two runs
  are a run and its continuation, or a run after a cut one.
- no run has a store that fails: with every append free to be lost the instances
  of the loop are beyond minutes. `StoreMayFail` is either value in the proofs,
  which cover it, but for `SteeringConserved`.
- two sessions are one that is lost and the one that replaces it, in the hands
  of two executions; a second change of the tool list repeats the first.
- two blocks are one that is whole and one that is cut, or a text and a call; a
  pipe of two is filled by the start and one part, so that the goroutine blocks
  before it has sent its last event. The code's capacity of 32 differs only in
  how long it takes, and the proofs hold for every capacity.
- three providers are the least for which an id can become ambiguous and then
  be met again.

Deadlock is checked in the session runs, where the only state allowed to stop is
the one after `Close` in which everything has come to rest (`Resting`), and in
`provider_streams`, where it is the one with the result returned and the
goroutine gone (`Finished`): neither may wait for the other. The
other runs stop when their bounded supply of runs, messages, operations or
refreshes is used up, and say so with `CHECK_DEADLOCK FALSE`.

## Fairness

Only what the Go runtime and the documented contracts give:

- a goroutine that can go on does (weak fairness of each caller inside
  `enqueue`, of the watchers, of `Close` once called, of the worker and the tool
  goroutines). `sync.Mutex` hands itself over to a waiter that has starved;
  weak fairness of `Admit` and `CloseGate` says less, and is enough.
- the consumer of a `Run` drains it, as its documentation asks for.
- nobody has to call `Close`, `Abort` or `Events`, to cancel a context, or to
  read the session channel. `AcceptedIsSettled` alone is about a session
  whose runs end and whose channel is read, and says so as its premise
  (`Responsive`).
- the reader of a run's events goes on reading, in `CancelledRunEnds` alone
  (`ReadEvent` in `FairDelivery`): the comment on `Run` (run.go:7) asks for it, the
  code does not see to it. The worker and its tool goroutines are one action there (`Silent`
  or `Announce`), since whichever of them is scheduled brings the run on.
- a provider, a tool or a hook ends after its context is cancelled; nothing more
  is assumed. Runs may go on for ever otherwise, so that `CloseTerminates` is
  about `Close` and not about patient tools.
- a provider's goroutine and the loop that reads its pipe are scheduled
  (`Produce`, `Consume`); a server owes nothing, but an SDK stream ends once its
  context is cancelled (`ctxDone /\ WireEnds`). `streamTurn` ranges over the
  events to the end whatever becomes of its context, which is what makes
  `StreamEnds` true. The loop sends an event of the run for each one it reads, so
  that the fairness of `Consume` assumes a reader of the run's events as well.
- an MCP request ends for certain only when its own context is cancelled.

## Proofs

`DroidSessionProofs` proves, for any set of prompts of any kinds, any capacities
and any number of aborts:

| theorem | property |
|---|---|
| `TypeCorrect` | `TypeOK` |
| `MutualExclusion` | `Exclusion` |
| `NothingIsLost` | `OnePlace` |
| `DrainSettlesAll` | `DrainIsFinal` |
| `LateWorkIsNotRun` | `LateNeverRuns` |
| `NoSendOnClosed` | `NoPanic` |
| `TranscriptIsExact` | `TranscriptMatchesRuns` |
| `AbortHitsItsRun` | `NoStrayCancel` |
| `AnswersAreFinal` | `SettledOnce` |
| `StreamsAreOwn` | `StreamIsItsOwn` |
| `StreamsAreComplete` | `StreamIsComplete` |
| `Implementation` | `ImplementsService`, the refinement |

They rest on the assumptions `DroidSession` states about its constants, which
TLC evaluates in every run: `NamesAssumption` (the markers are not prompts),
`KindAssumption`, and `CapAssumption` (capacities are positive numbers).

The argument: none of these properties is inductive. `DrainIsFinal`, for one, would
not survive the end of the drain if a prompt could still be offered then, which
rests on who holds `queueMu` and what holding it says of `accepting`
(`MutexInv`). `NoPanic` rests on `activeRun` being the prompt in the worker's
hands (`StreamInv`) and on that prompt being unanswered, hence its stream open
(`PlaceInv`). `LateNeverRuns` rests on `closed` being visible at `Recheck`
(`LateInv`) and on `transcript` holding only what got past it (`RecordInv`). The
conjunction `IInv` of types and ten such parts is inductive: `Initially` and `Inductive`
show it, the latter from one lemma per part (`CallersStep` … `CancelStep`), each
with one step per action that can disturb the part and one for all the others.
TLC also finds `IInv` invariant on the instances of `session_admission` and
`session_events`. `AppendedOnce` and `TakenOnce` are the facts about sequences
without repetition that the queue needs.

What a stream contains follows from the place of the worker (`EventsInv`): what
its consumer has read and what is still buffered is together nothing, an
`AgentStart`, or that and an `AgentEnd`, by whether the prompt waits, runs or is
answered. `StreamsAreOwn` and `StreamsAreComplete` read it off.
`Implementation` has one lemma per action (`SubmitRefines` … `DrainedRefines`).
The refinement mapping is given by `PhaseOf`, `Pending` and `Shut`; an action
that moves none of the three is a stutter (`Unmoved`). Three steps need the
invariant: `Offer` accepts because the prompt was not accepted before
(`PlaceInv`), `Recheck` begins or discards because the prompt in hand is the
head of `Pending`, and `Drained` halts the service because nothing can follow
into the queue (`GateInv`, `MutexInv`).

`ProviderStreamProofs` proves, for any set of requests, any capacity of the pipe
and any number of blocks and deltas:

| theorem | property |
|---|---|
| `TypeCorrect` | `TypeOK` |
| `WholeCallsOnly` | `OnlyWholeCallsRun` |
| `AcceptedAreServed` | `AcceptedOptionsServed` |
| `KeepsTheContract` | `KeepsContract`, the refinement |
| `AcceptedIsNotRefused` | of `ModelLimits` alone: accepted options pass the second check, for all integers |

They rest on `RequestsAssumption` (what a request is made of) and
`PipeAssumption` (the bounds are numbers, the capacity is positive). Only
`Result` and `Receive` are steps of the contract, but whether what is received
may follow was decided when it was emitted. The invariant is therefore about
`Sent`, the events received, queued and still to be sent, one after the other:
`Legal(Sent)` says that each of them may follow those before it, and moving an
event along leaves `Sent` as it is (`SendMoves`, `ReceiveMoves`).
`StagesAgree` says whether `Sent` is empty, open or over by where the goroutine
stands, and that its last event then carries `final`; `StartsAreSent` that the
start of every announced block is in it; `TailIsEarned` and `FinalIsWhole` carry
`OnlyWholeCallsRun`. `LegalGrows` and `LegalPrefix` are the two facts about
sequences behind it: a legal stream grows by an event that may follow, and what
is left of one may follow what was taken. Then there is one lemma per action.
TLC finds this `IInv` invariant on the instance of `provider_streams`.

`AgentLoopProofs` proves, for any numbers of steps, parallel tools, runs, steers
and crashes, any batches, hooks and histories:

| theorem | property | hypotheses |
|---|---|---|
| `TypeCorrect` | `TypeOK` | |
| `EventsNested`, `EventsNestWhenSendsWait` | `EventsWellFormed`, when events are sent at once and when each send waits | |
| `ToolsAreConfined` | `ToolsConfined` | |
| `BudgetsHold` | `BudgetRespected` | |
| `ContinuationsKeepSteering` | `ContinuationKeepsSteering` | |
| `ContinuableAtTheLimit` | `ContinuableAfterMaxSteps` | the calls of a batch have names and ids of their own |
| `SteeringIsConserved` | `SteeringConserved` | storage keeps what it is given, the process lives, histories hold no message of this process's `Steer` |
| `RequestsAreComplete` | `RequestComplete` | the wire is OpenAI's, the calls of a batch have names and ids of their own, histories are complete |

The hypotheses are what the properties are about and not conveniences:

- ids are given by the provider, and the loop does not check them on receipt;
  `validateContinuation` refuses a batch that repeats one (loop.go:526), so that
  without the hypothesis a run may well not be continuable.
- an append that fails, and a crash that takes the steering queue with it, lose
  steering messages; `SteeringConserved` is checked where neither happens.
- the Anthropic translation replays the calls of messages that stopped short,
  which `loop_partial_replay` shows to make an incomplete request.
- a history is what `Storage` returns to `New`, which does not validate it.

The argument. The view of a consumer, which `EventsWellFormed` and the bound on
compactions are about, is determined by the place of the loop: `Fits` gives, for
each `pc`, the one state of the automaton of `RunEvents` it may be in, with the
calls that have started and not ended (`Open`). Every step emits a known
sequence of events, and the lemmas of the first section (`ReadSaid`,
`TurnCompacts`, `CallBlocked`, …) say what the automaton makes of it. The
drained steering messages, any number of them, are an induction
(`AnnouncedTimes` leaves the view as it is). `IInv` adds how far the calls of
the batch are (`BatchInv`), the semaphore (`SemaphoreInv`), which request and
which compaction this is (`RequestsInv`, `CompactionsInv`) and that a turn is
only entered before the cancellation (`LateInv`). Three further invariants rest
on it:

- `Conserved`: the steering messages of the session, the stored part and the
  queue one after the other, are 1, 2, 3, … in this order, and the queue is the
  end of that. Draining moves messages from the one to the other, which leaves
  the account as it is.
- `TailInv`: how many results follow the message of the batch is known from the
  place of the loop. When the batch is over they are all there.
- `WholeInv`: outside a batch the transcript and the store make complete
  requests; inside, they do up to the message of the batch (`StandingAt`). The
  end of a batch closes the gap with `BatchMatched`, a compaction with
  `ScannedIsMatched`, since its replacement has passed
  `validateMessageSequence`; everything else is appended to something complete
  (`CompleteBoth`).

TLC finds `IInv` and `WholeInv` invariant on `loop_tools` and `loop_steering`,
`TailInv` on `loop_tools` and `Conserved` on `loop_steering`.

`DeliveryKeepsTheLoop` is the refinement of `AgentLoop` by `LoopDelivery`: every
step of a loop that waits for its reader is a step of the one that does not, or
leaves it as it is. So each theorem of the table holds of both.

`MessageSequenceProofs` is about the operators alone, for sequences of any
length over any messages. `ScanPairs`: the scan, which jumps over the results of
each batch, accepts exactly the paired sequences. A recursive function is known
here by its equation; the meaning `PairedFrom` satisfies the same equation
(`ScanCase`), and by induction from the end only one function does.
`KeptTailContinues`: a sequence the first validation accepts and that ends in
results passes the second. `ContinuationIsScan`: after a valid prefix, the first
accepts a tail of results exactly when the second does and the message they
answer stopped for its calls.
`ScannedIsMatched`: a valid sequence becomes a request in which every call has
its output and every output its call. It rests on how flattening and joining
commute (`FlattenBoth`), on what a batch becomes (`MatchedBatch`), and on
`MatchedBoth`, that two complete requests make one.

`NamespaceProofs` proves, for any number of executions, sessions and changes of
the server's list, `TypeCorrect`, `CacheIsFresh` (`CacheFresh`), `NothingLeaks`
(`NoLeak`), `CloseIsFinal` (`ClosedIsFinal`) and the action property
`HealthySessionsStay` (`HealthySessionKept`). `CacheFresh` rests on
`ListingInv`: a listing whose generation still counts was answered by the session
in use and misses no change but one whose notification is still under way, since
each way of losing a session or hearing of a change raises `toolGeneration`.
`NoLeak` rests on who holds `connectMu` (`MutexInv`) and on a session just won
being in nobody else's hands (`WonInv`); `ClosedIsFinal` on `close` having held
`connectMu` when it took the session (`CloseInv`). TLC finds `IInv` invariant on
`namespace`.

`RegistryProofs` proves, for any finite set of providers, any models and
documents and every order of iteration, `TypeCorrect`,
`LookupsAreExact` (`LookupExact`) and the action property `MeaningsAreKept`
(`MeaningKept`). What `rebuildIndex` leaves
for an id is a recursion over the order, and `SeenIsExact` its loop invariant:
after n visits the entry says whether none, one or several of the n providers
offer the id. `MeaningsAreKept` follows from it on both sides of an `Install`:
overlays only add models, so that an id with one owner has it still, or has
gained another. `SlashedProvidersAreUnnamed` says what becomes of a provider whose
id contains a slash. `IdsAssumption` says that ids are sequences of at least one
segment and that `None` is neither a provider nor an entry. TLC finds `IInv`
invariant on `registry`.

`FunctionProofs` proves the four properties of `pure_functions` without the
bounds on the inputs' length:

| theorem | property |
|---|---|
| `ScansFindPairs` | `ScanFindsPairs` |
| `ReplacementsContinue` | `ReplacementContinues` |
| `ResultsStayWithinLimit` | `ResultWithinLimit` |
| `UncompactedRequestsOfCatalogFit` | `UncompactedFits` |

The first two follow from `MessageSequenceProofs` and the vocabulary. The third
follows from `ConversionsAreExact`, for any limit and any blocks: `Used`, the
count with its early ends, is compared with the plain sum of what is kept, the
labels of images left aside (`SumsAgree`). `LabelsGoUncounted` gives, for every
limit, a result that the labels take beyond it. The last follows from
`UncompactedRequestsFit`, for every model a catalog lists and any messages, and
that from `UncompactedLeavesRoom`: below the trigger every known limit has more
than a fifth left, for all limits, estimates and reservations.

`IntervalInduction` is what these inductions are made of. The library's theorems
take a predicate, which none of the provers can instantiate; put for sets
(`UpwardInduction`, `DownwardInduction`), with the numbers a statement holds of
as the set, they can be used. They rest on the well-foundedness of `<`, which
the library states without a predicate. `RecursionOverInterval` shows in the
same way that a function defined by recursion over an interval exists, hence
that such definitions satisfy their equations.

**Only model-checked.** Every liveness property (`CloseTerminates`,
`CloseReleasesCallers`, `AcceptedIsSettled`, `CancelledRunEnds`, `CloseReturns`,
`DeadSessionForgotten`, `StreamEnds`): liveness under fairness and `ENABLED` are
beyond the prover. So is that the two properties of the violated runs fail
(`RequestAlwaysComplete`, `AbortIsAnnounced`). Every
invariant and every action property of a passing run has a theorem, the three of
`AgentLoop` above under their hypotheses.

## Where code and comments disagree

- **A batch cut by cancellation** (`loop_cut_batch`). The comment on
  `validateContinuation` (loop.go:477-479) says that providers require one result
  per tool call "before another assistant turn can be requested". A sequential
  batch interrupted between two calls (loop.go:336) leaves the rest without
  results, and the next prompt sends that transcript. TLC finds the
  request. `RequestComplete` states what does hold: it is the only way, a lost
  append and a crash apart.
- **A partial call replayed** (`loop_partial_replay`). A message cut at its
  length limit keeps the calls it had begun; the loop records it and executes
  nothing. The OpenAI translation leaves those calls out of later requests,
  because "replaying one without a matching output corrupts Responses input"
  (provider_openai.go:500-501); the Anthropic translation replays every call
  (provider_anthropic.go:312), and the next prompt sends a call without a result.
- **An abort in the last step** (`loop_abort`). The comment on `Abort`
  (droid.go:339-340) says that the current turn ends with an aborted error event.
  When the tools of the last permitted step are interrupted, nothing looks at the
  context again and the run ends like one that reached `MaxSteps`; in the
  compaction hook it ends with an error event that is not marked aborted
  (loop.go:172-176).

Some more were met and have no run of their own.

- **The end of a failing run.** The list at the head of event.go closes a run with
  "AgentEnd | ErrorEvent" (event.go:15). Each of the four failing ends of the loop
  sends `ErrorEvent` and then `AgentEnd` (loop.go:222 is one). `InPlace` has it as
  in the code.
- **Messages before the first turn.** The same list has messages, "assistant +
  injected msgs" (event.go:11), only under `TurnStart`. The seed of a run and the
  steering of its first step are announced before it (loop.go:139-143, 166-171).
- **An image and its label.** `MaxResultBytes` "bounds converted model-visible
  content and structured output from one remote call" (mcp/manager.go:53-54). An
  image is counted as its base64 (result.go:55) and kept as a data URL beside its
  media type (message.go:104-106), which is 13 bytes and twice the media type more
  (`LabelsGoUncounted`).
- **A provider whose id has a slash.** An id "may be bare ... or namespaced ... to
  disambiguate" (provider.go:22-23). It is cut at its first slash
  (provider.go:105), and nothing refuses a provider id that contains one: a model
  of such a provider that another provider serves too is found under neither of
  its ids (`SlashedProvidersAreUnnamed`).
- **A run dropped before it starts.** An `Abort` that lands between a run's
  registration and its `AgentStart` drops the run with no event at all
  (loop.go:113-125, `Check` in `DroidSession`): neither the error event of
  `Abort`'s comment nor the `AgentEnd` the chat program waits for after a `Send`
  (`cmd/chat/main.go`, whose comment says that `turnDone` signals "when the agent
  is idle again"), so that its prompt does not come back and a further interrupt
  finds no run.
- **A stream without a start.** The comment on `StreamEvent` (stream.go:33-37)
  says that a well-behaved stream begins with `StreamStart`, and `erroredStream`
  gives one that consists of its `StreamError`. The contract allows for it.

## What is not modelled

- Contents: texts, images, files, media types, URLs, tool arguments and schemas,
  usage and prices. They are checked or converted without state; whether a
  request can be translated at all is part of the request.
- Sizes in `AgentLoop`: a context is its number of messages there, and its
  tokens in `ContextBudget`.
- The catalog's JSON, the Cloudflare client (a constructor) and the catalog
  generator (a program that writes a file).
- The chat program: reading lines and rendering. Its wait for a run's last
  event, which `Close` may drop from the session channel, needs that channel in
  the same state as its loop; `session_events` is at the limit of what TLC
  explores in minutes without it.
- Transport: the SDKs' own retries and decoding are behind the wire events.
- `Close` called twice (the second call returns at once) and several `Abort`s in
  flight at the same time: each keeps its own copy, so they do not meet.

## Plan

1. *Proofs*: what a cut batch costs exactly, as a theorem in place of the
   premise of `RequestComplete`; what of `SteeringConserved` survives a failing
   store and a crash; `RequestComplete` on the Anthropic wire for transcripts
   without messages that stopped short; the reasoning levels of `ModelLimits`.
2. *Composition*: `AgentLoop` as the inside of `TurnsOver`, by an abstract run
   both are shown to follow; its replies are those `ProviderStream` ends with by
   inspection, which a shared abstraction would make a check.
3. *Chat*: a reduced session channel with one reader that waits for the end of
   its own prompt.

## How to run

    tlc -workers 2 -config SessionAdmission.cfg MCDroidSession.tla
    tlc -workers 2 -config ProviderStreams.cfg MCProviderStream.tla
    tlapm DroidSessionProofs.tla
    tlapm ProviderStreamProofs.tla
    tlapm AgentLoopProofs.tla

Each configuration's module is listed with it in `PROJECT.json`. The longest run
takes about two minutes, the longest proof, that of `AgentLoopProofs`, about five minutes.
