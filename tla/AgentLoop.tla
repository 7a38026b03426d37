------------------------------ MODULE AgentLoop ------------------------------
(***************************************************************************)
(* The runs of one Droid (runPrompt and what it calls in loop.go, compact  *)
(* in compaction.go): the bounded loop of assistant turns and tool batches *)
(* over one transcript, with steering, compaction and cancellation.        *)
(*                                                                         *)
(* The worker is sequential except for the goroutines of a parallel batch. *)
(* A step of it ends where it reads something others write (the run's      *)
(* context, the steering queue, the results of those goroutines) or waits  *)
(* for the provider, a tool or a hook; events and appends are joined to    *)
(* the step they follow.  Prompts reach the worker as in DroidSession; one *)
(* dropped before its first event leaves nothing here.                     *)
(***************************************************************************)
EXTENDS ProviderInput, RunEvents, FiniteSets

CONSTANTS
    Wire,               \* the provider, "openai" or "anthropic"
    MaxSteps,           \* Options.MaxSteps
    MaxParallelTools,   \* Options.MaxParallelTools, 0 = unbounded
    Sequential,         \* Options.ToolExecution is ModeSequential
    SequentialTools,    \* names of the tools whose own mode is sequential
    BeforeHook,         \* Options.BeforeToolCall is set
    CompactHook,        \* Options.Compact is set
    Trigger,            \* the compaction trigger, in messages
    Batches,            \* the tool calls a provider may ask for in one turn
    Replacements,       \* the contexts the compaction hook may return
    Histories,          \* the transcripts Storage may hold when the Droid is made
    StoreMayFail,       \* Storage.Append may return an error
    MaxRuns, MaxSteers, MaxCrashes      \* bounds

ASSUME WireAssumption == Wire \in {"openai", "anthropic"}
ASSUME StepsAssumption == MaxSteps \in Nat \ {0} /\ MaxParallelTools \in Nat
ASSUME FlagsAssumption ==
    {Sequential, BeforeHook, CompactHook, StoreMayFail} \subseteq BOOLEAN
ASSUME BoundsAssumption ==
    {Trigger, MaxRuns, MaxSteers, MaxCrashes} \subseteq Nat

ToolCalls == [id : STRING, name : STRING]
Stops == {"stop", "toolUse", "length", "error", "contextWindow", "aborted"}
UserMessages == [role : {"user"}, id : Nat]
AssistantMessages == [role : {"assistant"}, stop : Stops, calls : Seq(ToolCalls)]
ToolResultMessages == [role : {"toolResult"}, id : STRING, name : STRING]
Messages == UserMessages \cup AssistantMessages \cup ToolResultMessages

ASSUME BatchesAssumption == Batches \subseteq Seq(ToolCalls) \ {<<>>}
ASSUME ContextsAssumption == Histories \cup Replacements \subseteq Seq(Messages)

VARIABLES
    \* --- the Droid ---
    transcript,     \* Droid.transcript, the active context
    stored,         \* what Storage holds of the session
    steering,       \* Droid.steering
    \* --- the run in progress ---
    pc,             \* where runPrompt stands
    kind,           \* "normal" or "continuation"
    ctxDone,        \* the run's context is cancelled
    step,
    started,        \* the provider's stream has sent StreamStart
    reason,         \* why the compaction hook was called
    retried,        \* the turn is the retry of one rejected for its size
    batch,          \* the tool calls being executed
    idx,            \* the call the worker is at
    tool,           \* per call, how far it has come
    view,           \* the run's events as a consumer has read them
    \* --- history ---
    runs, steers, crashes,
    outcome,        \* how the last run ended
    requests,       \* provider requests of this run
    lateRequests,   \* those made with the context already cancelled
    landed,         \* where the run stood when it was cancelled
    cut,            \* some batch was left without all its results
    unstored        \* some append to Storage failed

droid   == <<transcript, stored, steering>>
tools   == <<batch, idx, tool>>
counts  == <<runs, steers, crashes>>
traffic == <<requests, lateRequests>>
vars    == <<droid, pc, kind, ctxDone, step, started, reason, retried, tools, view,
             counts, outcome, traffic, landed, cut, unstored>>

PCs == {"idle", "step", "weigh", "hook", "turn", "streaming", "sequential", "running",
        "preflight", "parallel", "finalize", "batchEnd"}
ToolStates == {"waiting", "blocked", "ready", "running", "done"}
Outcomes == {"none", "ok", "failed", "aborted", "compaction", "maxSteps", "invalid"}

\* What a run leaves for the next.
DroidOK ==
    /\ transcript \in Seq(Messages) /\ stored \in Seq(Messages)
    /\ steering \in Seq(UserMessages)

\* What is local to runPrompt.
RunOK ==
    /\ pc \in PCs
    /\ kind \in {"normal", "continuation"}
    /\ ctxDone \in BOOLEAN
    /\ step \in 0..(MaxSteps - 1)
    /\ started \in BOOLEAN
    /\ reason \in {"threshold", "overflow"}
    /\ retried \in BOOLEAN

\* What is local to a batch.
BatchOK ==
    /\ batch \in Batches \cup {<<>>}
    /\ idx \in 0..(Len(batch) + 1)
    /\ tool \in [DOMAIN batch -> ToolStates]

HistoryOK ==
    /\ runs \in 0..MaxRuns /\ steers \in 0..MaxSteers /\ crashes \in 0..MaxCrashes
    /\ outcome \in Outcomes
    /\ requests \in 0..(MaxSteps + 1) /\ lateRequests \in Nat
    /\ landed \in PCs \cup {"nowhere"}
    /\ cut \in BOOLEAN
    /\ unstored \in BOOLEAN

TypeOK == DroidOK /\ RunOK /\ BatchOK /\ HistoryOK /\ view \in View

Init ==
    /\ \E h \in Histories : transcript = h /\ stored = h
    /\ steering = <<>>
    /\ pc = "idle"
    /\ kind = "normal"
    /\ ctxDone = FALSE
    /\ step = 0
    /\ started = FALSE
    /\ reason = "threshold"
    /\ retried = FALSE
    /\ batch = <<>> /\ idx = 0 /\ tool = <<>>
    /\ view = FreshView
    /\ runs = 0 /\ steers = 0 /\ crashes = 0
    /\ outcome = "none"
    /\ requests = 0 /\ lateRequests = 0
    /\ landed = "nowhere"
    /\ cut = FALSE
    /\ unstored = FALSE

-----------------------------------------------------------------------------
(* Helpers.                                                                 *)

Seed == User(0)

\* The messages of ms at some of its positions, in their order.
SomeOf(ms) ==
    UNION {{[i \in 1..n |-> ms[at[i]]] :
               at \in {f \in [1..n -> DOMAIN ms] : \A i \in 1..(n - 1) : f[i] < f[i + 1]}} :
              n \in 0..Len(ms)}

\* appendMessage for each of ms: the transcript grows whatever the context and
\* the store do; the store is asked once for each, and its errors are ignored.
AppendMessages(ms) ==
    /\ transcript' = transcript \o ms
    /\ \E kept \in (IF StoreMayFail THEN SomeOf(ms) ELSE {ms}) :
        /\ stored' = stored \o kept
        /\ unstored' = (unstored \/ kept # ms)

\* The events reach whoever reads them.  That a send waits while their channel
\* is full is LoopDelivery.tla.
Emit(events) == view' = ReadAll(view, events)

\* The end of a run; AgentEnd is its last event.
EndRun(how, events) ==
    /\ pc' = "idle"
    /\ outcome' = how
    /\ Emit(events \o <<Event("AgentEnd")>>)

Turning(events) ==
    /\ pc' = "turn"
    /\ Emit(events \o <<Event("TurnStart")>>)
    /\ UNCHANGED outcome

ShouldCompact(ms) == CompactHook /\ Len(ms) >= Trigger

\* What compact demands of a replacement for the messages before.
Acceptable(replacement, before) ==
    /\ replacement # <<>>
    /\ ValidSequence(replacement)
    /\ Len(replacement) < Len(before)
    /\ ~ShouldCompact(replacement)

BatchIsSequential(calls) ==
    Sequential \/ \E j \in DOMAIN calls : calls[j].name \in SequentialTools

ResultFor(call) == ToolResult(call.id, call.name)

\* The calls whose goroutine holds a place of the semaphore.
Executing == {i \in DOMAIN tool : tool[i] = "running"}

-----------------------------------------------------------------------------
(* The start of a run and the head of the loop.                             *)

\* AgentStart, and the seed of a normal run.
StartRun(k) ==
    /\ pc = "idle"
    /\ runs < MaxRuns
    /\ k = "continuation" => ValidContinuation(transcript)
    /\ runs' = runs + 1
    /\ pc' = "step"
    /\ kind' = k
    /\ ctxDone' = FALSE
    /\ step' = 0
    /\ IF k = "normal" THEN AppendMessages(<<Seed>>) ELSE UNCHANGED <<transcript, stored, unstored>>
    /\ view' = ReadAll(FreshView, <<Event("AgentStart")>>
                                  \o (IF k = "normal" THEN Announced ELSE <<>>))
    /\ outcome' = "none"
    /\ requests' = 0 /\ lateRequests' = 0
    /\ landed' = "nowhere"
    /\ retried' = FALSE
    /\ UNCHANGED <<steering, started, reason, tools, steers, crashes, cut>>

\* A continuation the transcript does not fit is refused without an event.
RefuseContinuation ==
    /\ pc = "idle"
    /\ runs < MaxRuns
    /\ ~ValidContinuation(transcript)
    /\ runs' = runs + 1
    /\ outcome' = "invalid"
    /\ UNCHANGED <<droid, pc, kind, ctxDone, step, started, reason, retried, tools, view,
                   steers, crashes, traffic, landed, cut, unstored>>

StepAborts ==
    /\ pc = "step"
    /\ ctxDone
    /\ EndRun("aborted", <<Event("AbortedErrorEvent")>>)
    /\ UNCHANGED <<droid, kind, ctxDone, step, started, reason, retried, tools, counts,
                   traffic, landed, cut, unstored>>

\* Faulty variants: the drained messages stay in the queue; a continuation
\* drains as well.
DrainKeeping ==
    /\ AppendMessages(steering)
    /\ UNCHANGED steering

DrainAlways ==
    /\ AppendMessages(steering)
    /\ steering' = <<>>

\* drainSteering and the appends after it; continuations retain their steering.
DrainSteering ==
    IF kind = "continuation"
       THEN UNCHANGED <<droid, unstored>>
       ELSE AppendMessages(steering) /\ steering' = <<>>

Drained == IF kind = "continuation" THEN <<>> ELSE AnnouncedTimes(Len(steering))

\* First step: steering comes before the turn, for the compaction accounts.
StepFirst ==
    /\ pc = "step"
    /\ ~ctxDone
    /\ step = 0
    /\ DrainSteering
    /\ IF kind = "normal" THEN pc' = "weigh" /\ Emit(Drained) /\ UNCHANGED outcome
                          ELSE Turning(<<>>)
    /\ UNCHANGED <<kind, ctxDone, step, started, reason, retried, tools, counts, traffic, landed, cut>>

\* Later steps: steering comes inside the turn.
StepLater ==
    /\ pc = "step"
    /\ ~ctxDone
    /\ step > 0
    /\ DrainSteering
    /\ pc' = "turn"
    /\ Emit(<<Event("TurnStart")>> \o Drained)
    /\ UNCHANGED <<kind, ctxDone, step, started, reason, retried, tools, counts, outcome,
                   traffic, landed, cut>>

-----------------------------------------------------------------------------
(* Compaction.                                                              *)

\* compact(threshold): the hook is called when the context crosses the trigger.
Weigh ==
    /\ pc = "weigh"
    /\ IF ShouldCompact(transcript)
          THEN /\ pc' = "hook"
               /\ reason' = "threshold"
               /\ Emit(<<Event("CompactionStart")>>)
               /\ UNCHANGED outcome
          ELSE /\ Turning(<<>>)
               /\ UNCHANGED reason
    /\ UNCHANGED <<droid, kind, ctxDone, step, started, retried, tools, counts, traffic, landed, cut, unstored>>

\* The hook returns an error, or anything at all once the context is cancelled,
\* or a replacement that will not do: the run fails.
HookFails ==
    /\ pc = "hook"
    /\ EndRun("compaction", <<Event("CompactionEnd"), Event("ErrorEvent")>>)
    /\ UNCHANGED <<droid, kind, ctxDone, step, started, reason, retried, tools, counts,
                   traffic, landed, cut, unstored>>

\* The hook declines: a turn that was only threatened goes on, one the provider
\* rejected fails.
HookDeclines ==
    /\ pc = "hook"
    /\ ~ctxDone
    /\ IF reason = "threshold"
          THEN Turning(<<Event("CompactionEnd")>>)
          ELSE EndRun("failed", <<Event("CompactionEnd"), Event("ErrorEvent")>>)
    /\ UNCHANGED <<droid, kind, ctxDone, step, started, reason, retried, tools, counts,
                   traffic, landed, cut, unstored>>

\* Faulty variant: the context is not looked at again after the hook.
HookAppliesUnchecked(replacement) ==
    /\ pc = "hook"
    /\ Acceptable(replacement, transcript)
    /\ transcript' = replacement
    /\ Turning(<<Event("CompactionEnd")>>)
    /\ retried' = (reason = "overflow")
    /\ UNCHANGED <<stored, steering, kind, ctxDone, step, started, reason, tools,
                   counts, traffic, landed, cut, unstored>>

\* The replacement becomes the active context; Storage keeps what it has.
HookApplies(replacement) ==
    /\ pc = "hook"
    /\ ~ctxDone
    /\ Acceptable(replacement, transcript)
    /\ transcript' = replacement
    /\ Turning(<<Event("CompactionEnd")>>)
    /\ retried' = (reason = "overflow")
    /\ UNCHANGED <<stored, steering, kind, ctxDone, step, started, reason, tools,
                   counts, traffic, landed, cut, unstored>>

-----------------------------------------------------------------------------
(* One assistant turn: streamTurn and what runPrompt makes of its message.  *)

\* providers.Stream with a snapshot of the transcript.
Request ==
    /\ pc = "turn"
    /\ pc' = "streaming"
    /\ started' = FALSE
    /\ requests' = requests + 1
    /\ lateRequests' = lateRequests + (IF ctxDone THEN 1 ELSE 0)
    /\ UNCHANGED <<droid, kind, ctxDone, step, reason, retried, tools, view, counts,
                   outcome, landed, cut, unstored>>

StreamStarts ==
    /\ pc = "streaming"
    /\ ~started
    /\ started' = TRUE
    /\ Emit(<<Event("MessageStart")>>)
    /\ UNCHANGED <<droid, pc, kind, ctxDone, step, reason, retried, tools, counts,
                   outcome, traffic, landed, cut, unstored>>

\* What a provider may answer.  A message that stopped short keeps the calls it
\* had begun; only a response that OpenAI itself cancelled is reported aborted
\* before the context is.
StopsWithCalls ==
    IF Wire = "openai" THEN {"toolUse", "length", "error", "contextWindow", "aborted"}
                       ELSE {"toolUse", "length", "stop", "contextWindow"}

Replies ==
    {m \in {Assistant(stop, <<>>) : stop \in Stops}
          \cup {Assistant(stop, calls) : stop \in StopsWithCalls, calls \in Batches} :
        m.stop = "aborted" => ctxDone \/ Wire = "openai"}

Failing == {"error", "contextWindow", "aborted"}

\* The events that complete the message of a turn.
Said == IF started THEN <<Event("MessageEnd")>> ELSE Announced

\* A message is kept in the transcript and in Storage unless its request was
\* rejected for its size.
Hear(m) ==
    /\ pc = "streaming"
    /\ IF m.stop = "contextWindow" THEN UNCHANGED <<transcript, stored, unstored>>
                                   ELSE AppendMessages(<<m>>)
    /\ UNCHANGED <<steering, kind, ctxDone, step, started, retried, counts, traffic,
                   landed, cut>>

\* The first rejection of a normal run is worth one forced compaction.
MayRetry(m) ==
    /\ m.stop = "contextWindow"
    /\ step = 0 /\ ~retried
    /\ kind = "normal"
    /\ CompactHook

RespondOverflow(m) ==
    /\ MayRetry(m)
    /\ Hear(m)
    /\ pc' = "hook"
    /\ reason' = "overflow"
    /\ Emit(Said \o <<Event("TurnEnd"), Event("CompactionStart")>>)
    /\ UNCHANGED <<tools, outcome>>

RespondFailing(m) ==
    /\ m.stop \in Failing
    /\ ~MayRetry(m)
    /\ Hear(m)
    /\ IF m.stop = "aborted"
          THEN EndRun("aborted", Said \o <<Event("TurnEnd"), Event("AbortedErrorEvent")>>)
          ELSE EndRun("failed", Said \o <<Event("TurnEnd"), Event("ErrorEvent")>>)
    /\ UNCHANGED <<reason, tools>>

RespondFinal(m) ==
    /\ m.stop \notin Failing
    /\ m.stop # "toolUse" \/ m.calls = <<>>
    /\ Hear(m)
    /\ EndRun("ok", Said \o <<Event("TurnEnd")>>)
    /\ UNCHANGED <<reason, tools>>

RespondCalling(m) ==
    /\ m.stop = "toolUse"
    /\ m.calls # <<>>
    /\ Hear(m)
    /\ batch' = m.calls
    /\ idx' = 1
    /\ tool' = [i \in DOMAIN m.calls |-> "waiting"]
    /\ pc' = IF BatchIsSequential(m.calls) THEN "sequential" ELSE "preflight"
    /\ Emit(Said)
    /\ UNCHANGED <<reason, outcome>>

-----------------------------------------------------------------------------
(* A sequential batch: one call at a time, before hook, tool, result.       *)

Mark(i, state) == tool' = [tool EXCEPT ![i] = state]

\* finalizeToolResult for the current call.
KeepResult(events) ==
    /\ AppendMessages(<<ResultFor(batch[idx])>>)
    /\ Emit(events \o Announced)
    /\ idx' = idx + 1

\* A cancelled batch is left as it is, else the next call comes.
NextCall ==
    IF ctxDone \/ idx = Len(batch)
       THEN pc' = "batchEnd" /\ cut' = (cut \/ idx < Len(batch))
       ELSE pc' = "sequential" /\ UNCHANGED cut

\* The before hook fails, rejects the call or has its result: no execution.
SequentialBlocked ==
    /\ pc = "sequential"
    /\ BeforeHook
    /\ Mark(idx, "blocked")
    /\ KeepResult(<<CallEvent("ToolExecutionStart", idx), CallEvent("ToolExecutionEnd", idx)>>)
    /\ NextCall
    /\ UNCHANGED <<steering, kind, ctxDone, step, started, reason, retried, batch, counts,
                   outcome, traffic, landed>>

SequentialStart ==
    /\ pc = "sequential"
    /\ Mark(idx, "running")
    /\ pc' = "running"
    /\ Emit(<<CallEvent("ToolExecutionStart", idx)>>)
    /\ UNCHANGED <<droid, kind, ctxDone, step, started, reason, retried, batch, idx, counts,
                   outcome, traffic, landed, cut, unstored>>

\* The tool and the after hook return; so does the lookup of an unknown tool.
ToolReturns ==
    /\ pc = "running"
    /\ Mark(idx, "done")
    /\ KeepResult(<<CallEvent("ToolExecutionEnd", idx)>>)
    /\ NextCall
    /\ UNCHANGED <<steering, kind, ctxDone, step, started, reason, retried, batch, counts,
                   outcome, traffic, landed>>

-----------------------------------------------------------------------------
(* A parallel batch: before hooks in order, then a goroutine per surviving  *)
(* call, then the results in order.                                         *)

\* The before hook of the next call, which blocks it or lets it through.
Preflight(blocked) ==
    /\ pc = "preflight"
    /\ blocked => BeforeHook
    /\ Mark(idx, IF blocked THEN "blocked" ELSE "ready")
    /\ Emit(<<CallEvent("ToolExecutionStart", idx)>>
            \o (IF blocked THEN <<CallEvent("ToolExecutionEnd", idx)>> ELSE <<>>))
    /\ idx' = idx + 1
    /\ pc' = IF idx = Len(batch) THEN "parallel" ELSE "preflight"
    /\ UNCHANGED <<droid, kind, ctxDone, step, started, reason, retried, batch, counts,
                   outcome, traffic, landed, cut, unstored>>

ParallelUnchanged ==
    UNCHANGED <<droid, pc, kind, ctxDone, step, started, reason, retried, batch, idx, counts,
                outcome, traffic, landed, cut, unstored>>

\* Faulty variants: no semaphore; places of the semaphore are never given back.
AcquireUnbounded(i) ==
    /\ pc = "parallel"
    /\ tool[i] = "ready"
    /\ Mark(i, "running")
    /\ UNCHANGED view
    /\ ParallelUnchanged

AcquireForGood(i) ==
    /\ pc = "parallel"
    /\ tool[i] = "ready"
    /\ MaxParallelTools > 0 =>
           Cardinality({j \in DOMAIN tool : tool[j] \in {"running", "done"}}) < MaxParallelTools
    /\ Mark(i, "running")
    /\ UNCHANGED view
    /\ ParallelUnchanged

\* A goroutine gets its place of the semaphore and calls its tool.
Acquire(i) ==
    /\ pc = "parallel"
    /\ tool[i] = "ready"
    /\ MaxParallelTools > 0 => Cardinality(Executing) < MaxParallelTools
    /\ Mark(i, "running")
    /\ UNCHANGED view
    /\ ParallelUnchanged

\* Tool and after hook return, in any order among the goroutines.
ToolEnds(i) ==
    /\ pc = "parallel"
    /\ tool[i] = "running"
    /\ Mark(i, "done")
    /\ Emit(<<CallEvent("ToolExecutionEnd", i)>>)
    /\ ParallelUnchanged

\* Faulty variant: the worker does not wait for its goroutines.
JoinNotWaiting ==
    /\ pc = "parallel"
    /\ pc' = "finalize"
    /\ idx' = 1
    /\ UNCHANGED <<droid, kind, ctxDone, step, started, reason, retried, batch, tool, view,
                   counts, outcome, traffic, landed, cut, unstored>>

\* wg.Wait
Join ==
    /\ pc = "parallel"
    /\ \A i \in DOMAIN tool : tool[i] \in {"blocked", "done"}
    /\ pc' = "finalize"
    /\ idx' = 1
    /\ UNCHANGED <<droid, kind, ctxDone, step, started, reason, retried, batch, tool, view,
                   counts, outcome, traffic, landed, cut, unstored>>

\* Faulty variant: the results are kept last call first.
FinalizeBackwards ==
    /\ pc = "finalize"
    /\ AppendMessages(<<ResultFor(batch[Len(batch) + 1 - idx])>>)
    /\ Emit(Announced)
    /\ idx' = idx + 1
    /\ pc' = IF idx = Len(batch) THEN "batchEnd" ELSE "finalize"
    /\ UNCHANGED <<steering, kind, ctxDone, step, started, reason, retried, batch, tool,
                   counts, outcome, traffic, landed, cut>>

\* The results are kept in the order of the calls, blocked calls included.
Finalize ==
    /\ pc = "finalize"
    /\ KeepResult(<<>>)
    /\ pc' = IF idx = Len(batch) THEN "batchEnd" ELSE "finalize"
    /\ UNCHANGED <<steering, kind, ctxDone, step, started, reason, retried, batch, tool,
                   counts, outcome, traffic, landed, cut>>

\* Faulty variant: the bound on the steps is off by one.
BatchEndOneMore ==
    /\ pc = "batchEnd"
    /\ batch' = <<>> /\ idx' = 0 /\ tool' = <<>>
    /\ IF step = MaxSteps
          THEN EndRun("maxSteps", <<Event("TurnEnd")>>) /\ UNCHANGED step
          ELSE /\ step' = step + 1
               /\ pc' = "step"
               /\ Emit(<<Event("TurnEnd")>>)
               /\ UNCHANGED outcome
    /\ UNCHANGED <<droid, kind, ctxDone, started, reason, retried, counts, traffic, landed,
                   cut, unstored>>

\* The turn is over: the next step, or the end of the step budget.
BatchEnd ==
    /\ pc = "batchEnd"
    /\ batch' = <<>> /\ idx' = 0 /\ tool' = <<>>
    /\ IF step + 1 = MaxSteps
          THEN EndRun("maxSteps", <<Event("TurnEnd")>>) /\ UNCHANGED step
          ELSE /\ step' = step + 1
               /\ pc' = "step"
               /\ Emit(<<Event("TurnEnd")>>)
               /\ UNCHANGED outcome
    /\ UNCHANGED <<droid, kind, ctxDone, started, reason, retried, counts, traffic, landed,
                   cut, unstored>>

-----------------------------------------------------------------------------
(* Everybody else.                                                          *)

\* Abort, Close or the caller's context, while a run is active.
Cancel ==
    /\ pc # "idle"
    /\ ~ctxDone
    /\ ctxDone' = TRUE
    /\ landed' = pc
    /\ UNCHANGED <<droid, pc, kind, step, started, reason, retried, tools, view, counts,
                   outcome, traffic, cut, unstored>>

\* Droid.Steer, at any time.
Steer ==
    /\ steers < MaxSteers
    /\ steers' = steers + 1
    /\ steering' = Append(steering, User(steers'))
    /\ UNCHANGED <<transcript, stored, pc, kind, ctxDone, step, started, reason, retried,
                   tools, view, runs, crashes, outcome, traffic, landed, cut, unstored>>

\* The process dies and New makes a Droid of the same session.
Restart ==
    /\ crashes < MaxCrashes
    /\ crashes' = crashes + 1
    /\ transcript' = stored
    /\ steering' = <<>>
    /\ pc' = "idle"
    /\ batch' = <<>> /\ idx' = 0 /\ tool' = <<>>
    /\ view' = FreshView
    /\ ctxDone' = FALSE
    /\ outcome' = "none"
    /\ landed' = "nowhere"
    /\ cut' = (cut \/ batch # <<>>)
    /\ UNCHANGED <<stored, kind, step, started, reason, retried, runs, steers, traffic, unstored>>

-----------------------------------------------------------------------------

\* The worker's own steps and those of its goroutines.
LoopStep ==
    \/ StepAborts \/ StepFirst \/ StepLater \/ Weigh \/ Request
    \/ Join \/ Finalize \/ BatchEnd
    \/ \E i \in DOMAIN tool : Acquire(i)

\* What the application's hooks, its tools and the provider answer.
Answer ==
    \/ HookFails \/ HookDeclines \/ \E r \in Replacements : HookApplies(r)
    \/ \E m \in Replies :
        RespondOverflow(m) \/ RespondFailing(m) \/ RespondFinal(m) \/ RespondCalling(m)
    \/ SequentialBlocked \/ SequentialStart \/ ToolReturns
    \/ \E blocked \in BOOLEAN : Preflight(blocked)
    \/ \E i \in DOMAIN tool : ToolEnds(i)

Next ==
    \/ StartRun("normal") \/ StartRun("continuation") \/ RefuseContinuation
    \/ LoopStep
    \/ StreamStarts
    \/ Answer
    \/ Cancel \/ Steer \/ Restart

Spec == Init /\ [][Next]_vars

-----------------------------------------------------------------------------
(* Properties.                                                              *)

\* A consumer of the events sees brackets that close: AgentStart first, AgentEnd
\* last and once; turns and compactions never inside one another; a message or a
\* tool execution never open across the end of a turn, a compaction or the run,
\* tool executions only in turns; nothing but AgentEnd after an ErrorEvent.
EventsWellFormed ==
    /\ ~view.broken
    /\ pc = "idle" <=> view.agent # "started"

\* No request carries a tool call without its output or an output without its
\* call, as its provider translates the transcript: over runs, continuations,
\* compactions, messages that stopped short and restarts, as long as no batch was
\* cut short and no append was lost.
RequestComplete ==
    pc = "streaming" /\ ~cut /\ ~unstored => Matched(Items(Wire, transcript))

\* The comment on validateContinuation says that providers require this shape
\* before another assistant turn can be requested, and openAIAssistantInput's
\* that a call without its output corrupts the input: so every request has it.
RequestAlwaysComplete ==
    pc = "streaming" => Matched(Items(Wire, transcript))

\* A run that used up its steps can be continued, as the doc of Continue has it:
\* its results are all there, one per call, in the order of the calls.
ContinuableAfterMaxSteps ==
    pc = "idle" /\ outcome = "maxSteps" /\ ~cut => ValidContinuation(transcript)

IsSteered(m) == m.role = "user" /\ m.id > 0

\* Every steering message is either still queued or in the stored session, once
\* and in the order of the calls of Steer.
SteeringConserved ==
    LET session == stored \o steering
        steered == {k \in DOMAIN session : IsSteered(session[k])}
    IN  /\ {session[k].id : k \in steered} = 1..steers
        /\ \A j, k \in steered : j < k => session[j].id < session[k].id

\* A continuation leaves the steering queue alone.
ContinuationKeepsSteering ==
    [][pc # "idle" /\ kind = "continuation" /\ crashes' = crashes =>
        \E later \in {<<>>, <<User(steers')>>} : steering' = steering \o later]_vars

\* No more than MaxParallelTools tools run at once, one in a sequential batch,
\* and none outlives the batch it belongs to.
ToolsConfined ==
    /\ MaxParallelTools > 0 /\ pc = "parallel" => Cardinality(Executing) <= MaxParallelTools
    /\ pc = "running" => Executing = {idx}
    /\ pc \notin {"running", "parallel"} => Executing = {}

\* A run makes no more requests than its steps allow and one retry, and once its
\* context is cancelled at most one, that of the turn it had already entered; it
\* asks for at most one compaction of each kind, none in a continuation.
BudgetRespected ==
    /\ requests <= MaxSteps + (IF retried THEN 1 ELSE 0)
    /\ lateRequests <= 1
    /\ view.compactions <= (IF kind = "normal" /\ CompactHook THEN 2 ELSE 0)

\* The doc of Abort says that the current turn ends with an aborted error event:
\* so does a run that was cancelled in its tools or its compaction hook.
AbortIsAnnounced ==
    pc = "idle" /\ landed \in {"hook", "sequential", "running", "preflight", "parallel"}
        => view.failure = "aborted"

=============================================================================
