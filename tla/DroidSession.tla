---------------------------- MODULE DroidSession ----------------------------
(***************************************************************************)
(* The life of one Droid (droid.go, run.go, the worker half of loop.go):   *)
(* callers admit prompts under queueMu, one worker goroutine runs them,    *)
(* Abort and Close race with both.  What a run does between its first and  *)
(* its last event is AgentLoop.tla; here it emits AgentStart, appends its  *)
(* seed message, stays in its turns as long as it likes and emits AgentEnd.*)
(*                                                                         *)
(* A step is one critical section or one channel operation.  Releasing     *)
(* queueMu is joined to the step before it: a release only lets others go  *)
(* on, so nothing is lost by having it happen at once.                     *)
(***************************************************************************)
EXTENDS Naturals, SequencesExt

CONSTANTS
    Prompts,        \* calls that enqueue a prompt, each made once
    Kind,           \* [Prompts -> {"send", "execute", "stream"}]
    Continuations,  \* the prompts queued by Continue and ContinueStream
    Cancellable,    \* the prompts whose caller may cancel its context
    QueueCap,       \* capacity of Droid.queue (64 in the code)
    StreamCap,      \* capacity of agentRun.events (64 in the code)
    EventsCap,      \* capacity of Droid.events (64 in the code)
    MaxAborts,      \* bound on the number of calls of Abort
    EventsUsed,     \* whether the application ever calls Events
    None, Worker, Closer    \* not prompts: absence, and two owners of queueMu

ASSUME KindAssumption == Kind \in [Prompts -> {"send", "execute", "stream"}]
ASSUME CapAssumption ==
    /\ QueueCap \in Nat \ {0}
    /\ StreamCap \in Nat \ {0}
    /\ EventsCap \in Nat \ {0}
    /\ MaxAborts \in Nat
    /\ EventsUsed \in BOOLEAN
ASSUME SubsetAssumption ==
    /\ Continuations \subseteq Prompts
    /\ Cancellable \subseteq Prompts
    /\ \A p \in Continuations : Kind[p] # "send"
ASSUME NamesAssumption ==
    /\ None \notin Prompts /\ Worker \notin Prompts /\ Closer \notin Prompts
    /\ None # Worker /\ None # Closer /\ Worker # Closer

VARIABLES
    \* --- the callers ---
    client,         \* where each call stands
    ctxDone,        \* prompts whose caller's context has ended
    \* --- Droid, admission ---
    queueMu,        \* owner of the mutex, or None
    accepting,
    closed,         \* the channel d.closed has been closed
    queue,
    closer,         \* where the first call of Close stands
    \* --- Droid, the worker goroutine ---
    wpc,            \* where the worker stands
    cur,            \* the prompt it took from the queue
    outcome,        \* what runPrompt will return for it
    result,         \* what each prompt was completed with
    transcript,     \* the prompts whose seed message was appended, in order
    \* --- cancellation of a run ---
    cancelRun,      \* the run whose cancel function d.cancelRun holds
    cancelled,      \* runs whose derived context was cancelled
    watcher,        \* per run, the goroutine that waits for d.closed or stop
    stopped,        \* runs whose stop channel is closed
    aborter,        \* the run whose cancel function a call of Abort has copied
    aborts,         \* number of calls of Abort so far
    \* --- events ---
    activeRun,      \* the stream that owns the events, or None
    buf,            \* per stream, agentRun.events
    got,            \* per stream, the events its consumer has received
    subscribed,     \* Events() was called: d.events # nil
    events,         \* the buffer of d.events
    eventsClosed,
    \* --- history ---
    late,           \* prompts that entered the queue after Close was called
    targeted        \* runs that were registered when some Abort read cancelRun

admission == <<queueMu, accepting, closed, queue, closer>>
cancels   == <<cancelRun, cancelled, watcher, stopped, aborter, aborts, targeted>>
channels  == <<activeRun, buf, got, subscribed, events, eventsClosed>>
callers   == <<client, ctxDone, late>>
worker    == <<wpc, cur, outcome, result, transcript>>
vars      == <<callers, admission, worker, cancels, channels>>

Submitting == {"idle", "locking", "offering"}
ClientStates == Submitting \cup {"refused", "waiting", "draining", "returned"}
WorkerStates ==
    {"select", "recheck", "register", "watch", "check", "announce", "seed",
     "turns", "final", "unregister", "release", "settle",
     "shutdown", "drain", "finish", "stopped", "panicked"}
Running == {"register", "watch", "check", "announce", "seed", "turns", "final",
            "unregister", "release", "settle"}
Unoccupied == {"select", "shutdown", "drain", "finish", "stopped"}
Results == {"none", "dropped", "invalid", "ran", "closed"}
EventSet == [run : Prompts, kind : {"AgentStart", "AgentEnd"}]

CallersOK ==
    /\ client \in [Prompts -> ClientStates]
    /\ ctxDone \subseteq Prompts
    /\ late \subseteq Prompts

AdmissionOK ==
    /\ queueMu \in Prompts \cup {None, Worker}
    /\ accepting \in BOOLEAN
    /\ closed \in BOOLEAN
    /\ queue \in Seq(Prompts)
    /\ Len(queue) <= QueueCap
    /\ closer \in {"idle", "locking", "returned"}

WorkerOK ==
    /\ wpc \in WorkerStates
    /\ cur \in Prompts \cup {None}
    /\ cur = None <=> wpc \in Unoccupied
    /\ outcome \in {"none", "dropped", "invalid", "ran"}
    /\ result \in [Prompts -> Results]
    /\ transcript \in Seq(Prompts)

CancelsOK ==
    /\ cancelRun \in Prompts \cup {None}
    /\ cancelled \subseteq Prompts
    /\ watcher \in [Prompts -> {"none", "armed", "exited"}]
    /\ stopped \subseteq Prompts
    /\ aborter \in Prompts \cup {None}
    /\ aborts \in Nat
    /\ targeted \subseteq Prompts

ChannelsOK ==
    /\ activeRun \in Prompts \cup {None}
    /\ buf \in [Prompts -> Seq(EventSet)]
    /\ got \in [Prompts -> Seq(EventSet)]
    /\ subscribed \in BOOLEAN
    /\ events \in Seq(EventSet)
    /\ eventsClosed \in BOOLEAN

\* Includes that the worker holds a prompt exactly while it handles one.
TypeOK == CallersOK /\ AdmissionOK /\ WorkerOK /\ CancelsOK /\ ChannelsOK

Init ==
    /\ client = [p \in Prompts |-> "idle"]
    /\ ctxDone = {}
    /\ late = {}
    /\ queueMu = None
    /\ accepting = TRUE
    /\ closed = FALSE
    /\ queue = <<>>
    /\ closer = "idle"
    /\ wpc = "select"
    /\ cur = None
    /\ outcome = "none"
    /\ result = [p \in Prompts |-> "none"]
    /\ transcript = <<>>
    /\ cancelRun = None
    /\ cancelled = {}
    /\ watcher = [p \in Prompts |-> "none"]
    /\ stopped = {}
    /\ aborter = None
    /\ aborts = 0
    /\ activeRun = None
    /\ buf = [p \in Prompts |-> <<>>]
    /\ got = [p \in Prompts |-> <<>>]
    /\ subscribed = FALSE
    /\ events = <<>>
    /\ eventsClosed = FALSE
    /\ targeted = {}

-----------------------------------------------------------------------------
(* The callers: enqueue, then what Execute and the consumer of a Run do.    *)

\* enqueue checks its context before it asks for queueMu.
Submit(p) ==
    /\ client[p] = "idle"
    /\ client' = [client EXCEPT ![p] = IF p \in ctxDone THEN "refused" ELSE "locking"]
    /\ UNCHANGED <<ctxDone, late, admission, worker, cancels, channels>>

\* Faulty variant: admission without the mutex.
AdmitUnlocked(p) ==
    /\ client[p] = "locking"
    /\ accepting
    /\ client' = [client EXCEPT ![p] = "offering"]
    /\ queueMu' = p
    /\ UNCHANGED <<ctxDone, late, accepting, closed, queue, closer, worker, cancels, channels>>

\* Under queueMu: refused once the droid stopped accepting, else the caller
\* keeps the mutex while it waits in the select.
Admit(p) ==
    /\ client[p] = "locking"
    /\ queueMu = None
    /\ IF accepting
          THEN /\ client' = [client EXCEPT ![p] = "offering"]
               /\ queueMu' = p
          ELSE /\ client' = [client EXCEPT ![p] = "refused"]
               /\ UNCHANGED queueMu
    /\ UNCHANGED <<ctxDone, late, accepting, closed, queue, closer, worker, cancels, channels>>

AfterEnqueue(p) == CASE Kind[p] = "send"    -> "returned"
                     [] Kind[p] = "execute" -> "waiting"
                     [] OTHER               -> "draining"

\* Faulty variant: a queue without bound.
OfferUnbounded(p) ==
    /\ client[p] = "offering"
    /\ queue' = Append(queue, p)
    /\ client' = [client EXCEPT ![p] = AfterEnqueue(p)]
    /\ late' = IF closed THEN late \cup {p} ELSE late
    /\ queueMu' = None
    /\ UNCHANGED <<ctxDone, accepting, closed, closer, worker, cancels, channels>>

\* The select of enqueue: any of its ready cases may be the one taken.
Offer(p) ==
    /\ client[p] = "offering"
    /\ Len(queue) < QueueCap
    /\ queue' = Append(queue, p)
    /\ client' = [client EXCEPT ![p] = AfterEnqueue(p)]
    /\ late' = IF closed THEN late \cup {p} ELSE late
    /\ queueMu' = None
    /\ UNCHANGED <<ctxDone, accepting, closed, closer, worker, cancels, channels>>

\* Faulty variant: a select in enqueue that does not watch d.closed.
WithdrawOnCancelOnly(p) ==
    /\ client[p] = "offering"
    /\ p \in ctxDone
    /\ client' = [client EXCEPT ![p] = "refused"]
    /\ queueMu' = None
    /\ UNCHANGED <<ctxDone, late, accepting, closed, queue, closer, worker, cancels, channels>>

Withdraw(p) ==
    /\ client[p] = "offering"
    /\ p \in ctxDone \/ closed
    /\ client' = [client EXCEPT ![p] = "refused"]
    /\ queueMu' = None
    /\ UNCHANGED <<ctxDone, late, accepting, closed, queue, closer, worker, cancels, channels>>

\* Execute waits for the result, its context or the end of the droid.
ExecuteReturns(p) ==
    /\ client[p] = "waiting"
    /\ result[p] # "none" \/ p \in ctxDone \/ closed
    /\ client' = [client EXCEPT ![p] = "returned"]
    /\ UNCHANGED <<ctxDone, late, admission, worker, cancels, channels>>

\* The consumer of a Run takes the next event of its stream.
Consume(p) ==
    /\ client[p] = "draining"
    /\ buf[p] # <<>>
    /\ got' = [got EXCEPT ![p] = Append(@, Head(buf[p]))]
    /\ buf' = [buf EXCEPT ![p] = Tail(@)]
    /\ UNCHANGED <<callers, admission, worker, cancels,
                   activeRun, subscribed, events, eventsClosed>>

\* The channel is closed and drained: the range loop ends and Result returns.
StreamReturns(p) ==
    /\ client[p] = "draining"
    /\ buf[p] = <<>>
    /\ result[p] # "none"
    /\ client' = [client EXCEPT ![p] = "returned"]
    /\ UNCHANGED <<ctxDone, late, admission, worker, cancels, channels>>

\* The caller cancels the context it passed, or its deadline passes.
CallerCancels(p) ==
    /\ p \in Cancellable \ ctxDone
    /\ ctxDone' = ctxDone \cup {p}
    /\ UNCHANGED <<client, late, admission, worker, cancels, channels>>

-----------------------------------------------------------------------------
(* Abort, Close and Events.                                                 *)

\* Abort copies d.cancelRun under d.mu ...
AbortRead ==
    /\ aborter = None
    /\ aborts < MaxAborts
    /\ aborts' = aborts + 1
    /\ aborter' = cancelRun
    /\ targeted' = IF cancelRun = None THEN targeted ELSE targeted \cup {cancelRun}
    /\ UNCHANGED <<callers, admission, worker, channels,
                   cancelRun, cancelled, watcher, stopped>>

\* Faulty variant: Abort calls whatever d.cancelRun holds by then.
AbortFireCurrent ==
    /\ aborter # None
    /\ cancelled' = cancelled \cup ({cancelRun} \ {None})
    /\ aborter' = None
    /\ UNCHANGED <<callers, admission, worker, channels,
                   cancelRun, watcher, stopped, aborts, targeted>>

\* ... and calls the copy after releasing it.
AbortFire ==
    /\ aborter # None
    /\ cancelled' = cancelled \cup {aborter}
    /\ aborter' = None
    /\ UNCHANGED <<callers, admission, worker, channels,
                   cancelRun, watcher, stopped, aborts, targeted>>

CloseSignal ==
    /\ closer = "idle"
    /\ closed' = TRUE
    /\ closer' = "locking"
    /\ UNCHANGED <<callers, queueMu, accepting, queue, worker, cancels, channels>>

CloseGate ==
    /\ closer = "locking"
    /\ queueMu = None
    /\ accepting' = FALSE
    /\ closer' = "returned"
    /\ UNCHANGED <<callers, queueMu, closed, queue, worker, cancels, channels>>

Subscribe ==
    /\ EventsUsed
    /\ ~subscribed
    /\ subscribed' = TRUE
    /\ UNCHANGED <<callers, admission, worker, cancels,
                   activeRun, buf, got, events, eventsClosed>>

ReadEvents ==
    /\ subscribed
    /\ events # <<>>
    /\ events' = Tail(events)
    /\ UNCHANGED <<callers, admission, worker, cancels,
                   activeRun, buf, got, subscribed, eventsClosed>>

-----------------------------------------------------------------------------
(* The worker goroutine.                                                    *)

\* The context of a run ends with its caller's, or when its own is cancelled.
RunDone(p) == p \in ctxDone \cup cancelled

\* queuedPrompt.complete: the result channel or the stream of the prompt; the
\* stream's once keeps a second call without effect.
Complete(p, r) ==
    result' = [result EXCEPT ![p] = IF Kind[p] = "stream" /\ @ # "none" THEN @ ELSE r]

StreamClosed(p) == Kind[p] = "stream" /\ result[p] # "none"

\* Faulty variant: Close drops the events of a run's own stream too.
EmitDroppingOnClose(kind, next) ==
    LET ev == [run |-> cur, kind |-> kind] IN
    /\ wpc' = next
    /\ \/ /\ activeRun # None
          /\ Len(buf[activeRun]) < StreamCap
          /\ buf' = [buf EXCEPT ![activeRun] = Append(@, ev)]
          /\ UNCHANGED events
       \/ (activeRun = None \/ closed) /\ UNCHANGED <<buf, events>>

\* Droid.emit, then the worker goes on at next: to the run's own stream, where
\* a full channel blocks and a closed one panics; else to the session channel,
\* where Close drops the event instead of blocking.
Emit(kind, next) ==
    LET ev == [run |-> cur, kind |-> kind] IN
    \/ /\ activeRun # None
       /\ StreamClosed(activeRun)
       /\ wpc' = "panicked"
       /\ UNCHANGED <<buf, events>>
    \/ /\ activeRun # None
       /\ ~StreamClosed(activeRun)
       /\ Len(buf[activeRun]) < StreamCap
       /\ buf' = [buf EXCEPT ![activeRun] = Append(@, ev)]
       /\ wpc' = next
       /\ UNCHANGED events
    \/ /\ activeRun = None
       /\ subscribed /\ ~eventsClosed
       /\ Len(events) < EventsCap
       /\ events' = Append(events, ev)
       /\ wpc' = next
       /\ UNCHANGED buf
    \/ /\ activeRun = None
       /\ ~subscribed \/ eventsClosed \/ closed
       /\ wpc' = next
       /\ UNCHANGED <<buf, events>>

WorkerGoes(from, to) == wpc = from /\ wpc' = to

\* The outer select: with both cases ready either may be taken.
TakeClosed ==
    /\ WorkerGoes("select", "shutdown")
    /\ closed
    /\ UNCHANGED <<cur, outcome, result, transcript, callers, admission, cancels, channels>>

\* Faulty variant: the newest prompt first.
DequeueNewest ==
    /\ WorkerGoes("select", "recheck")
    /\ queue # <<>>
    /\ cur' = queue[Len(queue)]
    /\ queue' = SubSeq(queue, 1, Len(queue) - 1)
    /\ UNCHANGED <<outcome, result, transcript, callers, queueMu, accepting, closed, closer,
                   cancels, channels>>

Dequeue ==
    /\ WorkerGoes("select", "recheck")
    /\ queue # <<>>
    /\ cur' = Head(queue)
    /\ queue' = Tail(queue)
    /\ UNCHANGED <<outcome, result, transcript, callers, queueMu, accepting, closed, closer,
                   cancels, channels>>

\* Faulty variants: the prompt is dropped without an answer; the second look at
\* d.closed is left out; the worker goes on after answering.
RecheckForgetting ==
    /\ wpc = "recheck"
    /\ IF closed
          THEN cur' = None /\ wpc' = "shutdown" /\ UNCHANGED result
          ELSE wpc' = "register" /\ UNCHANGED <<cur, result>>
    /\ UNCHANGED <<outcome, transcript, callers, admission, cancels, channels>>

RecheckSkipped ==
    /\ WorkerGoes("recheck", "register")
    /\ UNCHANGED <<cur, outcome, result, transcript, callers, admission, cancels, channels>>

RecheckFallingThrough ==
    /\ WorkerGoes("recheck", "register")
    /\ IF closed THEN Complete(cur, "closed") ELSE UNCHANGED result
    /\ UNCHANGED <<cur, outcome, transcript, callers, admission, cancels, channels>>

\* Work dequeued after Close is completed unrun.
Recheck ==
    /\ wpc = "recheck"
    /\ IF closed
          THEN Complete(cur, "closed") /\ cur' = None /\ wpc' = "shutdown"
          ELSE wpc' = "register" /\ UNCHANGED <<cur, result>>
    /\ UNCHANGED <<outcome, transcript, callers, admission, cancels, channels>>

\* A prompt with a stream of its own owns the events of its run.
SetActiveRun == activeRun' = IF Kind[cur] = "stream" THEN cur ELSE activeRun

\* setActiveRun, WithCancel and d.cancelRun = cancel.
Register ==
    /\ WorkerGoes("register", "watch")
    /\ SetActiveRun
    /\ cancelRun' = cur
    /\ UNCHANGED <<cur, outcome, result, transcript, callers, admission,
                   cancelled, watcher, stopped, aborter, aborts, targeted,
                   buf, got, subscribed, events, eventsClosed>>

\* Faulty variant: nobody cancels the run when the droid closes.
SpawnNoWatcher ==
    /\ WorkerGoes("watch", "check")
    /\ UNCHANGED <<cur, outcome, result, transcript, callers, admission, channels, cancels>>

SpawnWatcher ==
    /\ WorkerGoes("watch", "check")
    /\ watcher' = [watcher EXCEPT ![cur] = "armed"]
    /\ UNCHANGED <<cur, outcome, result, transcript, callers, admission, channels,
                   cancelRun, cancelled, stopped, aborter, aborts, targeted>>

\* Faulty variant: a dropped run still emits its AgentEnd.
CheckEndingDropped ==
    /\ wpc = "check"
    /\ IF RunDone(cur) THEN outcome' = "dropped" /\ wpc' = "final"
                       ELSE outcome' = "ran" /\ wpc' = "announce"
    /\ UNCHANGED <<cur, result, transcript, callers, admission, cancels, channels>>

\* A prompt cancelled while queued is dropped, and a continuation that does not
\* fit the transcript is refused, both before any event.
Check ==
    /\ wpc = "check"
    /\ \/ RunDone(cur) /\ outcome' = "dropped" /\ wpc' = "unregister"
       \/ /\ ~RunDone(cur)
          /\ cur \in Continuations
          /\ outcome' = "invalid"
          /\ wpc' = "unregister"
       \/ ~RunDone(cur) /\ outcome' = "ran" /\ wpc' = "announce"
    /\ UNCHANGED <<cur, result, transcript, callers, admission, cancels, channels>>

Announce ==
    /\ wpc = "announce"
    /\ Emit("AgentStart", "seed")
    /\ UNCHANGED <<cur, outcome, result, transcript, callers, admission, cancels,
                   activeRun, got, subscribed, eventsClosed>>

\* Faulty variant: a cancelled run skips its seed.
SeedUnlessDone ==
    /\ WorkerGoes("seed", "turns")
    /\ transcript' = IF cur \in Continuations \/ RunDone(cur) THEN transcript
                     ELSE Append(transcript, cur)
    /\ UNCHANGED <<cur, outcome, result, callers, admission, cancels, channels>>

\* The seed message is appended; a continuation has none.
Seed ==
    /\ WorkerGoes("seed", "turns")
    /\ transcript' = IF cur \in Continuations THEN transcript
                     ELSE Append(transcript, cur)
    /\ UNCHANGED <<cur, outcome, result, callers, admission, cancels, channels>>

\* The turns of the run are over, for whatever reason (AgentLoop.tla).
TurnsOver ==
    /\ WorkerGoes("turns", "final")
    /\ UNCHANGED <<cur, outcome, result, transcript, callers, admission, cancels, channels>>

Final ==
    /\ wpc = "final"
    /\ Emit("AgentEnd", "unregister")
    /\ UNCHANGED <<cur, outcome, result, transcript, callers, admission, cancels,
                   activeRun, got, subscribed, eventsClosed>>

\* The deferred clean-up of runPrompt: d.cancelRun = nil under d.mu ...
Unregister ==
    /\ WorkerGoes("unregister", "release")
    /\ cancelRun' = None
    /\ UNCHANGED <<cur, outcome, result, transcript, callers, admission, channels,
                   cancelled, watcher, stopped, aborter, aborts, targeted>>

\* ... then cancel() and close(stop).
Release ==
    /\ WorkerGoes("release", "settle")
    /\ cancelled' = cancelled \cup {cur}
    /\ stopped' = stopped \cup {cur}
    /\ UNCHANGED <<cur, outcome, result, transcript, callers, admission, channels,
                   cancelRun, watcher, aborter, aborts, targeted>>

\* Faulty variant: setActiveRun(nil) is forgotten.
SettleKeepingStream ==
    /\ WorkerGoes("settle", "select")
    /\ activeRun' = activeRun
    /\ Complete(cur, outcome)
    /\ cur' = None
    /\ outcome' = "none"
    /\ UNCHANGED <<transcript, callers, admission, cancels,
                   buf, got, subscribed, events, eventsClosed>>

\* Back in the worker: setActiveRun(nil) and the prompt is completed.
Settle ==
    /\ WorkerGoes("settle", "select")
    /\ activeRun' = IF Kind[cur] = "stream" THEN None ELSE activeRun
    /\ Complete(cur, outcome)
    /\ cur' = None
    /\ outcome' = "none"
    /\ UNCHANGED <<transcript, callers, admission, cancels,
                   buf, got, subscribed, events, eventsClosed>>

\* Faulty variants: the queue is drained without queueMu; it is not drained.
ShutdownUnlocked ==
    /\ WorkerGoes("shutdown", "drain")
    /\ accepting' = FALSE
    /\ UNCHANGED <<cur, outcome, result, transcript, callers, queueMu, closed, queue, closer,
                   cancels, channels>>

ShutdownUndrained ==
    /\ WorkerGoes("shutdown", "finish")
    /\ queueMu = None
    /\ accepting' = FALSE
    /\ UNCHANGED <<cur, outcome, result, transcript, callers, queueMu, closed, queue, closer,
                   cancels, channels>>

\* shutdownWorker: queueMu is held from here to the empty queue.
Shutdown ==
    /\ WorkerGoes("shutdown", "drain")
    /\ queueMu = None
    /\ queueMu' = Worker
    /\ accepting' = FALSE
    /\ UNCHANGED <<cur, outcome, result, transcript, callers, closed, queue, closer,
                   cancels, channels>>

Drain ==
    /\ WorkerGoes("drain", "drain")
    /\ queue # <<>>
    /\ Complete(Head(queue), "closed")
    /\ queue' = Tail(queue)
    /\ UNCHANGED <<cur, outcome, transcript, callers, queueMu, accepting, closed, closer,
                   cancels, channels>>

Drained ==
    /\ WorkerGoes("drain", "finish")
    /\ queue = <<>>
    /\ queueMu' = None
    /\ UNCHANGED <<cur, outcome, result, transcript, callers, accepting, closed, queue,
                   closer, cancels, channels>>

FinishEvents ==
    /\ WorkerGoes("finish", "stopped")
    /\ eventsClosed' = TRUE
    /\ UNCHANGED <<cur, outcome, result, transcript, callers, admission, cancels,
                   activeRun, buf, got, subscribed, events>>

\* The goroutine of a run that turns Close into a cancellation.
WatcherFires(p) ==
    /\ watcher[p] = "armed"
    /\ closed
    /\ watcher' = [watcher EXCEPT ![p] = "exited"]
    /\ cancelled' = cancelled \cup {p}
    /\ UNCHANGED <<callers, admission, worker, channels,
                   cancelRun, stopped, aborter, aborts, targeted>>

WatcherStops(p) ==
    /\ watcher[p] = "armed"
    /\ p \in stopped
    /\ watcher' = [watcher EXCEPT ![p] = "exited"]
    /\ UNCHANGED <<callers, admission, worker, channels,
                   cancelRun, cancelled, stopped, aborter, aborts, targeted>>

\* Everything has come to rest after Close: the one state the system may stop in.
AtRest ==
    /\ wpc = "stopped"
    /\ closer = "returned"
    /\ aborter = None
    /\ \A p \in Prompts : client[p] \in {"refused", "returned"} /\ watcher[p] # "armed"

Resting == AtRest /\ UNCHANGED vars

-----------------------------------------------------------------------------

Caller(p) ==
    \/ Submit(p) \/ Admit(p) \/ Offer(p) \/ Withdraw(p)
    \/ ExecuteReturns(p) \/ Consume(p) \/ StreamReturns(p) \/ CallerCancels(p)

WorkerStep ==
    \/ TakeClosed \/ Dequeue \/ Recheck
    \/ Register \/ SpawnWatcher \/ Check \/ Announce \/ Seed \/ TurnsOver \/ Final
    \/ Unregister \/ Release \/ Settle
    \/ Shutdown \/ Drain \/ Drained \/ FinishEvents

Next ==
    \/ \E p \in Prompts : Caller(p) \/ WatcherFires(p) \/ WatcherStops(p)
    \/ AbortRead \/ AbortFire \/ CloseSignal \/ CloseGate \/ Subscribe \/ ReadEvents
    \/ WorkerStep
    \/ Resting

Spec == Init /\ [][Next]_vars

(***************************************************************************)
(* Fairness.  The runtime schedules every goroutine that can go on, and    *)
(* sync.Mutex starves nobody: weak fairness of each caller already inside  *)
(* enqueue, of the watchers, of Close once called, and of the worker.  The *)
(* consumer of a Run drains it, as run.go requires.  Nothing makes anybody *)
(* call Close, Abort or Events, read the session channel or cancel a       *)
(* context.  A run's turns end once its context has ended: providers and   *)
(* tools observe it, and nothing more is assumed of them.                  *)
(***************************************************************************)
CallerFairness ==
    \A p \in Prompts :
        /\ WF_vars(Admit(p))
        /\ WF_vars(Offer(p) \/ Withdraw(p))
        /\ WF_vars(ExecuteReturns(p))
        /\ WF_vars(Consume(p) \/ StreamReturns(p))
        /\ WF_vars(WatcherFires(p) \/ WatcherStops(p))

RestOfWorker == WorkerStep /\ ~(wpc = "turns" /\ ~RunDone(cur))

FairSpec ==
    /\ Spec
    /\ CallerFairness
    /\ WF_vars(CloseGate)
    /\ WF_vars(RestOfWorker)

\* Providers and tools that always come to an end, and a session channel somebody
\* reads: what FairSpec does not assume.
Responsive == WF_vars(WorkerStep) /\ WF_vars(ReadEvents)

-----------------------------------------------------------------------------
(* Properties.                                                              *)

Accepted(p) == client[p] \in {"waiting", "draining", "returned"}
Queued(p) == Contains(queue, p)
Recorded(p) == Contains(transcript, p)

\* Callers, the worker and its final drain hand prompts on without losing or
\* doubling one: a prompt that enqueue accepted is in the queue, once, or in the
\* worker's hands, or answered, and never two of these; one that was not accepted
\* is in none of them.
OnePlace ==
    /\ IsInjective(queue)
    /\ \A p \in Prompts :
        /\ Accepted(p) <=> Queued(p) \/ cur = p \/ result[p] # "none"
        /\ ~(Queued(p) /\ cur = p)
        /\ result[p] # "none" => ~Queued(p) /\ cur # p

\* After shutdownWorker every accepted prompt has its answer.
DrainIsFinal ==
    wpc \in {"finish", "stopped"} =>
        queue = <<>> /\ \A p \in Prompts : Accepted(p) => result[p] # "none"

\* queueMu has one owner: a caller in its select and the draining worker
\* exclude each other, and neither outlives the admission gate.
Exclusion ==
    /\ \A p, q \in Prompts :
        client[p] = "offering" /\ client[q] = "offering" => p = q
    /\ \A p \in Prompts :
        client[p] = "offering" => wpc \notin {"drain", "finish", "stopped"}

\* No event is sent to a closed channel, which would panic the worker: a run's
\* stream is closed only after its last event, and the events of a Send that
\* follows a Stream no longer go to that stream.
NoPanic == wpc # "panicked"

\* A run's stream carries its own events only, and the first is AgentStart.
StreamIsItsOwn ==
    \A p \in Prompts :
        LET all == got[p] \o buf[p]
        IN  \A i \in DOMAIN all :
                /\ all[i].run = p
                /\ all[i].kind = (IF i = 1 THEN "AgentStart" ELSE "AgentEnd")
                /\ i <= 2

\* What the consumer of a Run has read when its range loop ends: nothing if
\* the run was dropped, refused or closed unrun, else everything, the terminal
\* AgentEnd included, however Close, Abort and back pressure interfered.
StreamIsComplete ==
    \A p \in Prompts :
        Kind[p] = "stream" /\ client[p] = "returned" =>
            Len(got[p]) = (IF result[p] = "ran" THEN 2 ELSE 0)

\* The seed of p, unless it is a continuation, has been appended by now.
PastSeed(p) ==
    \/ result[p] = "ran"
    \/ /\ cur = p /\ outcome = "ran"
       /\ wpc \in {"turns", "final", "unregister", "release", "settle"}

\* The transcript holds the seed of every prompt that ran, once, and of no other:
\* work dropped, refused or closed unrun never touched it, whatever else happened
\* meanwhile, and an Abort or a Close during a run leaves its seed recorded.
TranscriptMatchesRuns ==
    /\ IsInjective(transcript)
    /\ \A p \in Prompts : Recorded(p) <=> PastSeed(p) /\ p \notin Continuations

\* A prompt that slipped into the queue after Close was called is answered
\* with an error and never mutates the transcript (loop.go, worker).
LateNeverRuns ==
    \A p \in late : result[p] \in {"none", "closed"} /\ ~Recorded(p)

\* A run's context is cancelled before its end only by an Abort that was called
\* while this very run was the active one, or by Close: a late Abort never hits
\* the run that follows.
NoStrayCancel ==
    \A p \in cancelled : p \in targeted \/ p \in stopped \/ closed

\* The first answer a prompt gets is the only one, and one that began is never
\* answered with "closed".
SettledOnce ==
    [][\A p \in Prompts :
        /\ result[p] # "none" => result'[p] = result[p]
        /\ wpc \in Running /\ cur = p => result'[p] # "closed"]_vars

\* Close always ends the worker, whatever run is active and whoever is blocked
\* on a full queue, a full session channel or queueMu.
CloseTerminates == closed ~> wpc = "stopped"

\* After Close every call of enqueue, Execute and Result that is under way
\* returns.
CloseReleasesCallers ==
    \A p \in Prompts :
        closed /\ client[p] # "idle" ~> client[p] \in {"refused", "returned"}

\* Every accepted prompt is settled, if runs end and the session channel is read.
AcceptedIsSettled ==
    Responsive => \A p \in Prompts : Accepted(p) ~> result[p] # "none"

-----------------------------------------------------------------------------
(* The abstract service: a prompt is pending until the worker has decided   *)
(* to run it, and running until it is completed.                            *)

InHand == cur # None /\ wpc = "recheck"

PhaseOf(p) ==
    IF client[p] \in Submitting THEN "new"
    ELSE IF client[p] = "refused" THEN "refused"
    ELSE IF result[p] = "closed" THEN "discarded"
    ELSE IF result[p] # "none" THEN "done"
    ELSE IF cur = p /\ ~InHand THEN "running"
    ELSE "pending"

Phase == [p \in Prompts |-> PhaseOf(p)]

Pending == IF InHand THEN <<cur>> \o queue ELSE queue

Shut == IF wpc \in {"finish", "stopped"} THEN "closed"
        ELSE IF closed THEN "closing" ELSE "open"

Service == INSTANCE PromptService WITH phase <- Phase, pending <- Pending, shut <- Shut

\* Every step of the session is a step of the service or changes nothing of it.
ImplementsService == Service!Spec

=============================================================================
