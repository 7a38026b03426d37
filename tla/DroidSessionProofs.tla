------------------------- MODULE DroidSessionProofs -------------------------
(***************************************************************************)
(* Proofs about DroidSession, for any number of prompts, any capacities    *)
(* and any number of Aborts.                                               *)
(*                                                                         *)
(* The safety properties are not inductive as they stand.  IInv adds what  *)
(* they rest on: who holds queueMu and what that says of accepting         *)
(* (MutexInv), that the gate only falls after Close (GateInv), that a      *)
(* prompt is in at most one place, the queue or the worker's hands, and    *)
(* unanswered while it is (PlaceInv), what the worker will answer at each  *)
(* point of a run (OutcomeInv), what the transcript holds (RecordInv),     *)
(* and whose the stream in activeRun is (StreamInv).                       *)
(***************************************************************************)
EXTENDS DroidSession, TLAPS

-----------------------------------------------------------------------------
(* The inductive invariant.                                                 *)

\* A caller in its select owns queueMu, which keeps the droid accepting; the
\* worker owns it while it drains, and by then the droid has stopped accepting.
MutexInv ==
    /\ \A p \in Prompts : client[p] = "offering" => queueMu = p
    /\ wpc = "drain" => queueMu = Worker
    /\ queueMu \in Prompts => accepting
    /\ wpc \in {"drain", "finish", "stopped"} => ~accepting

\* The droid stops accepting, and the worker leaves its loop, only after Close.
GateInv ==
    /\ ~accepting => closed
    /\ closed <=> closer # "idle"
    /\ wpc \in {"shutdown", "drain", "finish", "stopped"} => closed

\* An accepted prompt is in the queue once, or in the worker's hands, or
\* answered, and never two of these; what was not accepted is in none.
PlaceInv ==
    /\ IsInjective(queue)
    /\ \A p \in Prompts : Queued(p) => Accepted(p) /\ result[p] = "none" /\ cur # p
    /\ \A p \in Prompts : cur = p => Accepted(p) /\ result[p] = "none"
    /\ \A p \in Prompts : result[p] # "none" => Accepted(p)
    /\ \A p \in Prompts : Accepted(p) => Queued(p) \/ cur = p \/ result[p] # "none"

\* The queue is empty from the end of the drain on.
DrainedInv == wpc \in {"finish", "stopped"} => queue = <<>>

\* What runPrompt will return is known from the context check on.
OutcomeInv ==
    /\ wpc \in {"announce", "seed", "turns", "final"} => outcome = "ran"
    /\ wpc \in {"unregister", "release", "settle"} => outcome # "none"

\* The runs that got as far as their seed are in the transcript, once each, and
\* no others.
RecordInv == TranscriptMatchesRuns

\* A prompt that entered the queue after Close is looked at again before it is
\* run, and by then Close is visible.
LateInv ==
    \A p \in late :
        /\ closed
        /\ cur = p => wpc = "recheck"
        /\ result[p] \in {"none", "closed"}
        /\ Accepted(p)

\* While the worker runs a prompt with a stream of its own, activeRun is that
\* stream, and it is none otherwise.
StreamInv ==
    /\ activeRun = (IF wpc \in Running \ {"register"} /\ Kind[cur] = "stream"
                      THEN cur ELSE None)
    /\ NoPanic

\* The events that went to the stream of p so far, read or not.
Sent(p) == got[p] \o buf[p]

Start(p) == [run |-> p, kind |-> "AgentStart"]
End(p)   == [run |-> p, kind |-> "AgentEnd"]

\* What they should be by where p stands: nothing before its run announces
\* itself and after a run that was dropped, refused or closed unrun.
Due(p) ==
    IF Kind[p] # "stream" THEN <<>>
    ELSE IF result[p] = "ran" \/ (/\ cur = p /\ outcome = "ran"
                                  /\ wpc \in {"unregister", "release", "settle"})
      THEN <<Start(p), End(p)>>
    ELSE IF cur = p /\ wpc \in {"seed", "turns", "final"} THEN <<Start(p)>>
    ELSE <<>>

\* A stream holds what it should, and its consumer leaves it empty.
EventsInv ==
    \A p \in Prompts :
        /\ Sent(p) = Due(p)
        /\ client[p] = "waiting" => Kind[p] = "execute"
        /\ Kind[p] = "stream" /\ client[p] = "returned" =>
               buf[p] = <<>> /\ result[p] # "none"

\* What an Abort holds was the active run when it was called.
CancelInv ==
    /\ aborter # None => aborter \in targeted
    /\ NoStrayCancel

IInv ==
    /\ TypeOK
    /\ MutexInv
    /\ GateInv
    /\ PlaceInv
    /\ DrainedInv
    /\ OutcomeInv
    /\ RecordInv
    /\ LateInv
    /\ StreamInv
    /\ EventsInv
    /\ CancelInv


-----------------------------------------------------------------------------
(* Facts about sequences without repetition, which the queue is, and about  *)
(* the sequences of events.                                                 *)

\* A new element appended to a sequence without repetition leaves it one.
LEMMA AppendedOnce ==
    ASSUME NEW S, NEW s \in Seq(S), NEW e \in S, NEW t,
           t = Append(s, e), IsInjective(s), ~Contains(s, e)
    PROVE  IsInjective(t) /\ \A x : Contains(t, x) <=> Contains(s, x) \/ x = e
<1>1. /\ Len(s) \in Nat
      /\ DOMAIN s = 1..Len(s)
      /\ DOMAIN t = 1..Len(s) + 1
      /\ Len(t) = Len(s) + 1
      /\ t[Len(s) + 1] = e
      /\ \A i \in 1..Len(s) : t[i] = s[i]
    OBVIOUS
<1>2. IsInjective(t)
    BY <1>1 DEF IsInjective, Contains
<1>3. \A x : Contains(t, x) <=> Contains(s, x) \/ x = e
    BY <1>1 DEF Contains
<1>. QED
    BY <1>2, <1>3

\* Its head, once taken, is no longer in it.
LEMMA TakenOnce ==
    ASSUME NEW S, NEW s \in Seq(S), NEW t, s # <<>>, t = Tail(s), IsInjective(s)
    PROVE  /\ Head(s) \in S
           /\ IsInjective(t)
           /\ \A x : Contains(s, x) <=> Contains(t, x) \/ x = Head(s)
           /\ ~Contains(t, Head(s))
<1> DEFINE h == Head(s)
<1>1. /\ Len(s) \in Nat \ {0}
      /\ DOMAIN s = 1..Len(s)
      /\ DOMAIN t = 1..Len(s) - 1
      /\ Len(t) = Len(s) - 1
      /\ h = s[1]
      /\ h \in S
      /\ \A i \in DOMAIN t : t[i] = s[i + 1]
    OBVIOUS
<1> HIDE DEF h
<1>2. IsInjective(t)
    BY <1>1 DEF IsInjective
<1>3. \A i \in DOMAIN s : i = 1 \/ (i - 1 \in DOMAIN t /\ t[i - 1] = s[i])
    BY <1>1
<1>4. ASSUME NEW x, Contains(s, x) PROVE Contains(t, x) \/ x = h
  <2>1. PICK i \in DOMAIN s : s[i] = x
    BY <1>1, <1>4 DEF Contains
  <2>. QED
    BY <1>1, <1>3, <2>1 DEF Contains
<1>5. ASSUME NEW x, Contains(t, x) PROVE Contains(s, x) /\ x # h
  <2>1. PICK i \in DOMAIN t : t[i] = x
    BY <1>1, <1>5 DEF Contains
  <2>2. i + 1 \in DOMAIN s /\ s[i + 1] = x /\ i + 1 # 1 /\ 1 \in DOMAIN s
    BY <1>1, <2>1
  <2>. QED
    BY <1>1, <2>2 DEF Contains, IsInjective
<1>6. Contains(s, h)
    BY <1>1 DEF Contains
<1>. QED
    BY <1>1, <1>2, <1>4, <1>5, <1>6 DEF h

\* A second element makes a pair.
LEMMA PairAppended == \A a, b : Append(<<a>>, b) = <<a, b>>
<1>. SUFFICES ASSUME NEW a, NEW b PROVE Append(<<a>>, b) = <<a, b>>
    OBVIOUS
<1>. DEFINE S == {a, b}
<1>1. <<a>> \in Seq(S) /\ b \in S /\ <<a, b>> \in Seq(S)
    OBVIOUS
<1>. HIDE DEF S
<1>. DEFINE u == Append(<<a>>, b)
            v == <<a, b>>
<1>2. u \in Seq(S) /\ Len(u) = 2 /\ u[1] = a /\ u[2] = b
    BY <1>1
<1>3. v \in Seq(S) /\ Len(v) = 2 /\ v[1] = a /\ v[2] = b
    BY <1>1
<1>. HIDE DEF u, v
<1>4. u = v
  <2>1. \A i \in 1..2 : u[i] = v[i]
      BY <1>2, <1>3
  <2>. QED
      BY <1>2, <1>3, <2>1
<1>. QED
    BY <1>4 DEF u, v

\* An event that its consumer takes from the channel is still one of the stream.
LEMMA TakenIsSent ==
    ASSUME NEW S, NEW s \in Seq(S), NEW t \in Seq(S), t # <<>>
    PROVE  Append(s, Head(t)) \o Tail(t) = s \o t
    OBVIOUS

\* An event put into the channel is the last of its stream.
LEMMA SentIsLast ==
    ASSUME NEW S, NEW s \in Seq(S), NEW t \in Seq(S), NEW e \in S
    PROVE  s \o Append(t, e) = Append(s \o t, e)
    OBVIOUS

\* Emit puts events into channels, and nothing else.
LEMMA EmitTyped ==
    ASSUME WorkerOK, ChannelsOK, CapAssumption, cur \in Prompts,
           NEW kind \in {"AgentStart", "AgentEnd"}, NEW next, Emit(kind, next)
    PROVE  buf' \in [Prompts -> Seq(EventSet)] /\ events' \in Seq(EventSet)
<1> DEFINE ev == [run |-> cur, kind |-> kind]
<1>1. ev \in EventSet
    BY DEF EventSet
<1>2. \/ UNCHANGED <<buf, events>>
      \/ /\ activeRun \in Prompts
         /\ buf' = [buf EXCEPT ![activeRun] = Append(@, ev)]
         /\ UNCHANGED events
      \/ events' = Append(events, ev) /\ UNCHANGED buf
    BY DEF Emit, ChannelsOK
<1>3. buf \in [Prompts -> Seq(EventSet)] /\ events \in Seq(EventSet)
    BY DEF ChannelsOK
<1> HIDE DEF ev
<1>4. \A s \in Seq(EventSet) : Append(s, ev) \in Seq(EventSet)
    BY <1>1
<1>. QED
    BY <1>2, <1>3, <1>4


-----------------------------------------------------------------------------
(* Each step keeps each part of the invariant.                              *)

\* Each step keeps the callers' types.
LEMMA CallersStep ==
    CallersOK /\ [Next]_vars => CallersOK'
<1>. SUFFICES ASSUME CallersOK, [Next]_vars
             PROVE  CallersOK'
    OBVIOUS
<1>. USE NamesAssumption, KindAssumption, CapAssumption DEF CallersOK,
         ClientStates, Submitting
<1>1. ASSUME NEW p \in Prompts, Submit(p) PROVE CallersOK'
    BY <1>1 DEF Submit, admission, worker, cancels, channels
<1>2. ASSUME NEW p \in Prompts, Admit(p) PROVE CallersOK'
    BY <1>2 DEF Admit, worker, cancels, channels
<1>3. ASSUME NEW p \in Prompts, Offer(p) PROVE CallersOK'
    BY <1>3 DEF Offer, AfterEnqueue, worker, cancels, channels
<1>4. ASSUME NEW p \in Prompts, Withdraw(p) PROVE CallersOK'
    BY <1>4 DEF Withdraw, worker, cancels, channels
<1>5. ASSUME NEW p \in Prompts, ExecuteReturns(p) PROVE CallersOK'
    BY <1>5 DEF ExecuteReturns, admission, worker, cancels, channels
<1>6. ASSUME NEW p \in Prompts, StreamReturns(p) PROVE CallersOK'
    BY <1>6 DEF StreamReturns, admission, worker, cancels, channels
<1>7. ASSUME NEW p \in Prompts, CallerCancels(p) PROVE CallersOK'
    BY <1>7 DEF CallerCancels, admission, worker, cancels, channels
<1>8. CASE UNCHANGED <<client, ctxDone, late>>
    BY <1>8
<1>9. ASSUME NEW p \in Prompts, Consume(p) \/ WatcherFires(p) \/
            WatcherStops(p)
      PROVE  CallersOK'
    BY <1>8, <1>9 DEF Consume, callers, admission, worker, cancels,
        WatcherFires, channels, WatcherStops
<1>10. CASE AbortRead \/ AbortFire \/ CloseSignal \/ CloseGate \/ Subscribe \/
          ReadEvents \/ TakeClosed \/ Dequeue \/ Recheck \/ Register \/
          SpawnWatcher \/ Check \/ Announce \/ Seed \/ TurnsOver \/ Final \/
          Unregister \/ Release \/ Settle \/ Shutdown \/ Drain \/ Drained \/
          FinishEvents \/ Resting \/ UNCHANGED vars
    BY <1>8, <1>10 DEF AbortRead, callers, admission, worker, channels,
        AbortFire, CloseSignal, cancels, CloseGate, Subscribe, ReadEvents,
        TakeClosed, WorkerGoes, Dequeue, Recheck, Complete, Register,
        SpawnWatcher, Check, Announce, Emit, Seed, TurnsOver, Final,
        Unregister, Release, Settle, Shutdown, Drain, Drained, FinishEvents,
        Resting, vars
<1>. QED
    BY <1>1, <1>2, <1>3, <1>4, <1>5, <1>6, <1>7, <1>8, <1>9, <1>10 DEF Next,
        Caller, WorkerStep

\* Each step keeps the types of the admission gate and the bound of its queue.
LEMMA AdmissionStep ==
    AdmissionOK /\ [Next]_vars => AdmissionOK'
<1>. SUFFICES ASSUME AdmissionOK, [Next]_vars
             PROVE  AdmissionOK'
    OBVIOUS
<1>. USE NamesAssumption, KindAssumption, CapAssumption DEF AdmissionOK
<1>1. ASSUME NEW p \in Prompts, Admit(p) PROVE AdmissionOK'
    BY <1>1 DEF Admit, worker, cancels, channels
<1>2. ASSUME NEW p \in Prompts, Offer(p) PROVE AdmissionOK'
    BY <1>2 DEF Offer, AfterEnqueue, worker, cancels, channels
<1>3. ASSUME NEW p \in Prompts, Withdraw(p) PROVE AdmissionOK'
    BY <1>3 DEF Withdraw, worker, cancels, channels
<1>4. CASE CloseSignal
    BY <1>4 DEF CloseSignal, callers, worker, cancels, channels
<1>5. CASE CloseGate
    BY <1>5 DEF CloseGate, callers, worker, cancels, channels
<1>6. CASE Dequeue
    BY <1>6 DEF Dequeue, WorkerGoes, callers, cancels, channels
<1>7. CASE Shutdown
    BY <1>7 DEF Shutdown, WorkerGoes, callers, cancels, channels
<1>8. CASE Drain
    BY <1>8 DEF Drain, WorkerGoes, Complete, callers, cancels, channels
<1>9. CASE Drained
    BY <1>9 DEF Drained, WorkerGoes, callers, cancels, channels
<1>10. CASE UNCHANGED <<queueMu, accepting, closed, queue, closer>>
    BY <1>10
<1>11. ASSUME NEW p \in Prompts, Submit(p) \/ ExecuteReturns(p) \/ Consume(p)
            \/ StreamReturns(p) \/ CallerCancels(p) \/ WatcherFires(p) \/
            WatcherStops(p)
      PROVE  AdmissionOK'
    BY <1>10, <1>11 DEF Submit, admission, worker, cancels, channels,
        ExecuteReturns, Consume, callers, StreamReturns, CallerCancels,
        WatcherFires, WatcherStops
<1>12. CASE AbortRead \/ AbortFire \/ Subscribe \/ ReadEvents \/ TakeClosed \/
          Recheck \/ Register \/ SpawnWatcher \/ Check \/ Announce \/ Seed \/
          TurnsOver \/ Final \/ Unregister \/ Release \/ Settle \/ FinishEvents
          \/ Resting \/ UNCHANGED vars
    BY <1>10, <1>12 DEF AbortRead, callers, admission, worker, channels,
        AbortFire, Subscribe, cancels, ReadEvents, TakeClosed, WorkerGoes,
        Recheck, Complete, Register, SetActiveRun, SpawnWatcher, Check, Announce, Emit, Seed,
        TurnsOver, Final, Unregister, Release, Settle, FinishEvents, Resting,
        vars
<1>. QED
    BY <1>1, <1>2, <1>3, <1>4, <1>5, <1>6, <1>7, <1>8, <1>9, <1>10, <1>11,
        <1>12 DEF Next, Caller, WorkerStep

\* Each step keeps the worker's types, and the worker holds a prompt exactly
\* while it handles one.
LEMMA WorkerTypeStep ==
    AdmissionOK /\ WorkerOK /\ [Next]_vars => WorkerOK'
<1>. SUFFICES ASSUME AdmissionOK, WorkerOK, [Next]_vars
             PROVE  WorkerOK'
    OBVIOUS
<1>. USE NamesAssumption, KindAssumption, CapAssumption DEF AdmissionOK,
         WorkerOK, WorkerStates, Unoccupied, Results
<1>1. CASE TakeClosed
    BY <1>1 DEF TakeClosed, WorkerGoes, callers, admission, cancels, channels
<1>2. CASE Dequeue
    BY <1>2 DEF Dequeue, WorkerGoes, callers, cancels, channels
<1>3. CASE Recheck
    BY <1>3 DEF Recheck, Complete, callers, admission, cancels, channels
<1>4. CASE Register
    BY <1>4 DEF Register, SetActiveRun, WorkerGoes, callers, admission
<1>5. CASE SpawnWatcher
    BY <1>5 DEF SpawnWatcher, WorkerGoes, callers, admission, channels
<1>6. CASE Check
    BY <1>6 DEF Check, callers, admission, cancels, channels
<1>7. CASE Announce
    BY <1>7 DEF Announce, Emit, callers, admission, cancels
<1>8. CASE Seed
    BY <1>8 DEF Seed, WorkerGoes, callers, admission, cancels, channels
<1>9. CASE TurnsOver
    BY <1>9 DEF TurnsOver, WorkerGoes, callers, admission, cancels, channels
<1>10. CASE Final
    BY <1>10 DEF Final, Emit, callers, admission, cancels
<1>11. CASE Unregister
    BY <1>11 DEF Unregister, WorkerGoes, callers, admission, channels
<1>12. CASE Release
    BY <1>12 DEF Release, WorkerGoes, callers, admission, channels
<1>13. CASE Settle
    BY <1>13 DEF Settle, WorkerGoes, Complete, callers, admission, cancels
<1>14. CASE Shutdown
    BY <1>14 DEF Shutdown, WorkerGoes, callers, cancels, channels
<1>15. CASE Drain
    BY <1>15 DEF Drain, WorkerGoes, Complete, callers, cancels, channels
<1>16. CASE Drained
    BY <1>16 DEF Drained, WorkerGoes, callers, cancels, channels
<1>17. CASE FinishEvents
    BY <1>17 DEF FinishEvents, WorkerGoes, callers, admission, cancels
<1>18. CASE UNCHANGED <<wpc, cur, outcome, result, transcript>>
    BY <1>18
<1>19. ASSUME NEW p \in Prompts, Submit(p) \/ Admit(p) \/ Offer(p) \/
            Withdraw(p) \/ ExecuteReturns(p) \/ Consume(p) \/ StreamReturns(p)
            \/ CallerCancels(p) \/ WatcherFires(p) \/ WatcherStops(p)
      PROVE  WorkerOK'
    BY <1>18, <1>19 DEF Submit, admission, worker, cancels, channels, Admit,
        Offer, AfterEnqueue, Withdraw, ExecuteReturns, Consume, callers,
        StreamReturns, CallerCancels, WatcherFires, WatcherStops
<1>20. CASE AbortRead \/ AbortFire \/ CloseSignal \/ CloseGate \/ Subscribe \/
          ReadEvents \/ Resting \/ UNCHANGED vars
    BY <1>18, <1>20 DEF AbortRead, callers, admission, worker, channels,
        AbortFire, CloseSignal, cancels, CloseGate, Subscribe, ReadEvents,
        Resting, vars
<1>. QED
    BY <1>1, <1>2, <1>3, <1>4, <1>5, <1>6, <1>7, <1>8, <1>9, <1>10, <1>11,
        <1>12, <1>13, <1>14, <1>15, <1>16, <1>17, <1>18, <1>19, <1>20 DEF Next,
        Caller, WorkerStep

\* Each step keeps the types of the cancellation state.
LEMMA CancelsStep ==
    WorkerOK /\ CancelsOK /\ [Next]_vars => CancelsOK'
<1>. SUFFICES ASSUME WorkerOK, CancelsOK, [Next]_vars
             PROVE  CancelsOK'
    OBVIOUS
<1>. USE NamesAssumption, KindAssumption, CapAssumption DEF WorkerOK,
         CancelsOK, Unoccupied
<1>1. ASSUME NEW p \in Prompts, WatcherFires(p) PROVE CancelsOK'
    BY <1>1 DEF WatcherFires, callers, admission, worker, channels
<1>2. ASSUME NEW p \in Prompts, WatcherStops(p) PROVE CancelsOK'
    BY <1>2 DEF WatcherStops, callers, admission, worker, channels
<1>3. CASE AbortRead
    BY <1>3 DEF AbortRead, callers, admission, worker, channels
<1>4. CASE AbortFire
    BY <1>4 DEF AbortFire, callers, admission, worker, channels
<1>5. CASE Register
    BY <1>5 DEF Register, SetActiveRun, WorkerGoes, callers, admission
<1>6. CASE SpawnWatcher
    BY <1>6 DEF SpawnWatcher, WorkerGoes, callers, admission, channels
<1>7. CASE Unregister
    BY <1>7 DEF Unregister, WorkerGoes, callers, admission, channels
<1>8. CASE Release
    BY <1>8 DEF Release, WorkerGoes, callers, admission, channels
<1>9. CASE UNCHANGED <<cancelRun, cancelled, watcher, stopped, aborter, aborts, targeted>>
    BY <1>9
<1>10. ASSUME NEW p \in Prompts, Submit(p) \/ Admit(p) \/ Offer(p) \/
            Withdraw(p) \/ ExecuteReturns(p) \/ Consume(p) \/ StreamReturns(p)
            \/ CallerCancels(p)
      PROVE  CancelsOK'
    BY <1>9, <1>10 DEF Submit, admission, worker, cancels, channels, Admit,
        Offer, AfterEnqueue, Withdraw, ExecuteReturns, Consume, callers,
        StreamReturns, CallerCancels
<1>11. CASE CloseSignal \/ CloseGate \/ Subscribe \/ ReadEvents \/ TakeClosed
          \/ Dequeue \/ Recheck \/ Check \/ Announce \/ Seed \/ TurnsOver \/
          Final \/ Settle \/ Shutdown \/ Drain \/ Drained \/ FinishEvents \/
          Resting \/ UNCHANGED vars
    BY <1>9, <1>11 DEF CloseSignal, callers, worker, cancels, channels,
        CloseGate, Subscribe, admission, ReadEvents, TakeClosed, WorkerGoes,
        Dequeue, Recheck, Complete, Check, Announce, Emit, Seed, TurnsOver,
        Final, Settle, Shutdown, Drain, Drained, FinishEvents, Resting, vars
<1>. QED
    BY <1>1, <1>2, <1>3, <1>4, <1>5, <1>6, <1>7, <1>8, <1>9, <1>10, <1>11 DEF
        Next, Caller, WorkerStep

\* Each step keeps the types of the channels.
LEMMA ChannelsStep ==
    WorkerOK /\ ChannelsOK /\ [Next]_vars => ChannelsOK'
<1>. SUFFICES ASSUME WorkerOK, ChannelsOK, [Next]_vars
             PROVE  ChannelsOK'
    OBVIOUS
<1>. USE NamesAssumption, KindAssumption, CapAssumption DEF WorkerOK,
         ChannelsOK, Unoccupied
<1>1. ASSUME NEW p \in Prompts, Consume(p) PROVE ChannelsOK'
    BY <1>1, SMTT(60) DEF Consume, callers, admission, worker, cancels
<1>2. CASE Subscribe
    BY <1>2 DEF Subscribe, callers, admission, worker, cancels
<1>3. CASE ReadEvents
    BY <1>3 DEF ReadEvents, callers, admission, worker, cancels
<1>4. CASE Register
    BY <1>4 DEF Register, SetActiveRun, WorkerGoes, callers, admission
<1>5. CASE Announce
  <2>1. cur \in Prompts
    BY <1>5 DEF Announce
  <2>2. buf' \in [Prompts -> Seq(EventSet)] /\ events' \in Seq(EventSet)
    BY <1>5, <2>1, EmitTyped DEF Announce
  <2>. QED
    BY <1>5, <2>2 DEF Announce
<1>6. CASE Final
  <2>1. cur \in Prompts
    BY <1>6 DEF Final
  <2>2. buf' \in [Prompts -> Seq(EventSet)] /\ events' \in Seq(EventSet)
    BY <1>6, <2>1, EmitTyped DEF Final
  <2>. QED
    BY <1>6, <2>2 DEF Final
<1>7. CASE Settle
    BY <1>7 DEF Settle, WorkerGoes, Complete, callers, admission, cancels
<1>8. CASE FinishEvents
    BY <1>8 DEF FinishEvents, WorkerGoes, callers, admission, cancels
<1>9. CASE UNCHANGED <<activeRun, buf, got, subscribed, events, eventsClosed>>
    BY <1>9
<1>10. ASSUME NEW p \in Prompts, Submit(p) \/ Admit(p) \/ Offer(p) \/
            Withdraw(p) \/ ExecuteReturns(p) \/ StreamReturns(p) \/
            CallerCancels(p) \/ WatcherFires(p) \/ WatcherStops(p)
      PROVE  ChannelsOK'
    BY <1>9, <1>10 DEF Submit, admission, worker, cancels, channels, Admit,
        Offer, AfterEnqueue, Withdraw, ExecuteReturns, StreamReturns,
        CallerCancels, WatcherFires, callers, WatcherStops
<1>11. CASE AbortRead \/ AbortFire \/ CloseSignal \/ CloseGate \/ TakeClosed \/
          Dequeue \/ Recheck \/ SpawnWatcher \/ Check \/ Seed \/ TurnsOver \/
          Unregister \/ Release \/ Shutdown \/ Drain \/ Drained \/ Resting \/
          UNCHANGED vars
    BY <1>9, <1>11 DEF AbortRead, callers, admission, worker, channels,
        AbortFire, CloseSignal, cancels, CloseGate, TakeClosed, WorkerGoes,
        Dequeue, Recheck, Complete, SpawnWatcher, Check, Seed, TurnsOver,
        Unregister, Release, Shutdown, Drain, Drained, Resting, vars
<1>. QED
    BY <1>1, <1>2, <1>3, <1>4, <1>5, <1>6, <1>7, <1>8, <1>9, <1>10, <1>11 DEF
        Next, Caller, WorkerStep

\* Nobody enters the select of enqueue, or the drain, while another owns the
\* mutex.
LEMMA MutexStep ==
    CallersOK /\ AdmissionOK /\ WorkerOK /\ MutexInv /\ [Next]_vars => MutexInv'
<1>. SUFFICES ASSUME CallersOK, AdmissionOK, WorkerOK, MutexInv, [Next]_vars
             PROVE  MutexInv'
    OBVIOUS
<1>. USE NamesAssumption, KindAssumption, CapAssumption DEF CallersOK,
         ClientStates, Submitting, AdmissionOK, WorkerOK, WorkerStates,
         Unoccupied, Results, MutexInv
<1>1. ASSUME NEW p \in Prompts, Submit(p) PROVE MutexInv'
    BY <1>1 DEF Submit, admission, worker, cancels, channels
<1>2. ASSUME NEW p \in Prompts, Admit(p) PROVE MutexInv'
    BY <1>2 DEF Admit, worker, cancels, channels
<1>3. ASSUME NEW p \in Prompts, Offer(p) PROVE MutexInv'
    BY <1>3 DEF Offer, AfterEnqueue, worker, cancels, channels
<1>4. ASSUME NEW p \in Prompts, Withdraw(p) PROVE MutexInv'
    BY <1>4 DEF Withdraw, worker, cancels, channels
<1>5. ASSUME NEW p \in Prompts, ExecuteReturns(p) PROVE MutexInv'
    BY <1>5 DEF ExecuteReturns, admission, worker, cancels, channels
<1>6. ASSUME NEW p \in Prompts, StreamReturns(p) PROVE MutexInv'
    BY <1>6 DEF StreamReturns, admission, worker, cancels, channels
<1>7. CASE CloseGate
    BY <1>7 DEF CloseGate, callers, worker, cancels, channels
<1>8. CASE TakeClosed
    BY <1>8 DEF TakeClosed, WorkerGoes, callers, admission, cancels, channels
<1>9. CASE Dequeue
    BY <1>9 DEF Dequeue, WorkerGoes, callers, cancels, channels
<1>10. CASE Recheck
    BY <1>10 DEF Recheck, Complete, callers, admission, cancels, channels
<1>11. CASE Register
    BY <1>11 DEF Register, SetActiveRun, WorkerGoes, callers, admission
<1>12. CASE SpawnWatcher
    BY <1>12 DEF SpawnWatcher, WorkerGoes, callers, admission, channels
<1>13. CASE Check
    BY <1>13 DEF Check, callers, admission, cancels, channels
<1>14. CASE Announce
    BY <1>14 DEF Announce, Emit, callers, admission, cancels
<1>15. CASE Seed
    BY <1>15 DEF Seed, WorkerGoes, callers, admission, cancels, channels
<1>16. CASE TurnsOver
    BY <1>16 DEF TurnsOver, WorkerGoes, callers, admission, cancels, channels
<1>17. CASE Final
    BY <1>17 DEF Final, Emit, callers, admission, cancels
<1>18. CASE Unregister
    BY <1>18 DEF Unregister, WorkerGoes, callers, admission, channels
<1>19. CASE Release
    BY <1>19 DEF Release, WorkerGoes, callers, admission, channels
<1>20. CASE Settle
    BY <1>20 DEF Settle, WorkerGoes, Complete, callers, admission, cancels
<1>21. CASE Shutdown
    BY <1>21 DEF Shutdown, WorkerGoes, callers, cancels, channels
<1>22. CASE Drain
    BY <1>22 DEF Drain, WorkerGoes, Complete, callers, cancels, channels
<1>23. CASE Drained
    BY <1>23 DEF Drained, WorkerGoes, callers, cancels, channels
<1>24. CASE FinishEvents
    BY <1>24 DEF FinishEvents, WorkerGoes, callers, admission, cancels
<1>25. CASE UNCHANGED <<client, queueMu, accepting, wpc>>
    BY <1>25
<1>26. ASSUME NEW p \in Prompts, Consume(p) \/ CallerCancels(p) \/
            WatcherFires(p) \/ WatcherStops(p)
      PROVE  MutexInv'
    BY <1>25, <1>26 DEF Consume, callers, admission, worker, cancels,
        CallerCancels, channels, WatcherFires, WatcherStops
<1>27. CASE AbortRead \/ AbortFire \/ CloseSignal \/ Subscribe \/ ReadEvents \/
          Resting \/ UNCHANGED vars
    BY <1>25, <1>27 DEF AbortRead, callers, admission, worker, channels,
        AbortFire, CloseSignal, cancels, Subscribe, ReadEvents, Resting, vars
<1>. QED
    BY <1>1, <1>2, <1>3, <1>4, <1>5, <1>6, <1>7, <1>8, <1>9, <1>10, <1>11,
        <1>12, <1>13, <1>14, <1>15, <1>16, <1>17, <1>18, <1>19, <1>20, <1>21,
        <1>22, <1>23, <1>24, <1>25, <1>26, <1>27 DEF Next, Caller, WorkerStep

\* The gate falls, and the worker leaves its loop, only after Close.
LEMMA GateStep ==
    AdmissionOK /\ WorkerOK /\ GateInv /\ [Next]_vars => GateInv'
<1>. SUFFICES ASSUME AdmissionOK, WorkerOK, GateInv, [Next]_vars
             PROVE  GateInv'
    OBVIOUS
<1>. USE NamesAssumption, KindAssumption, CapAssumption DEF AdmissionOK,
         WorkerOK, WorkerStates, Unoccupied, Results, GateInv
<1>1. CASE CloseSignal
    BY <1>1 DEF CloseSignal, callers, worker, cancels, channels
<1>2. CASE CloseGate
    BY <1>2 DEF CloseGate, callers, worker, cancels, channels
<1>3. CASE TakeClosed
    BY <1>3 DEF TakeClosed, WorkerGoes, callers, admission, cancels, channels
<1>4. CASE Dequeue
    BY <1>4 DEF Dequeue, WorkerGoes, callers, cancels, channels
<1>5. CASE Recheck
    BY <1>5 DEF Recheck, Complete, callers, admission, cancels, channels
<1>6. CASE Register
    BY <1>6 DEF Register, SetActiveRun, WorkerGoes, callers, admission
<1>7. CASE SpawnWatcher
    BY <1>7 DEF SpawnWatcher, WorkerGoes, callers, admission, channels
<1>8. CASE Check
    BY <1>8 DEF Check, callers, admission, cancels, channels
<1>9. CASE Announce
    BY <1>9 DEF Announce, Emit, callers, admission, cancels
<1>10. CASE Seed
    BY <1>10 DEF Seed, WorkerGoes, callers, admission, cancels, channels
<1>11. CASE TurnsOver
    BY <1>11 DEF TurnsOver, WorkerGoes, callers, admission, cancels, channels
<1>12. CASE Final
    BY <1>12 DEF Final, Emit, callers, admission, cancels
<1>13. CASE Unregister
    BY <1>13 DEF Unregister, WorkerGoes, callers, admission, channels
<1>14. CASE Release
    BY <1>14 DEF Release, WorkerGoes, callers, admission, channels
<1>15. CASE Settle
    BY <1>15 DEF Settle, WorkerGoes, Complete, callers, admission, cancels
<1>16. CASE Shutdown
    BY <1>16 DEF Shutdown, WorkerGoes, callers, cancels, channels
<1>17. CASE Drain
    BY <1>17 DEF Drain, WorkerGoes, Complete, callers, cancels, channels
<1>18. CASE Drained
    BY <1>18 DEF Drained, WorkerGoes, callers, cancels, channels
<1>19. CASE FinishEvents
    BY <1>19 DEF FinishEvents, WorkerGoes, callers, admission, cancels
<1>20. CASE UNCHANGED <<accepting, closed, closer, wpc>>
    BY <1>20
<1>21. ASSUME NEW p \in Prompts, Submit(p) \/ Admit(p) \/ Offer(p) \/
            Withdraw(p) \/ ExecuteReturns(p) \/ Consume(p) \/ StreamReturns(p)
            \/ CallerCancels(p) \/ WatcherFires(p) \/ WatcherStops(p)
      PROVE  GateInv'
    BY <1>20, <1>21 DEF Submit, admission, worker, cancels, channels, Admit,
        Offer, AfterEnqueue, Withdraw, ExecuteReturns, Consume, callers,
        StreamReturns, CallerCancels, WatcherFires, WatcherStops
<1>22. CASE AbortRead \/ AbortFire \/ Subscribe \/ ReadEvents \/ Resting \/
          UNCHANGED vars
    BY <1>20, <1>22 DEF AbortRead, callers, admission, worker, channels,
        AbortFire, Subscribe, cancels, ReadEvents, Resting, vars
<1>. QED
    BY <1>1, <1>2, <1>3, <1>4, <1>5, <1>6, <1>7, <1>8, <1>9, <1>10, <1>11,
        <1>12, <1>13, <1>14, <1>15, <1>16, <1>17, <1>18, <1>19, <1>20, <1>21,
        <1>22 DEF Next, Caller, WorkerStep

\* An accepted prompt moves from the queue to the worker's hands to its answer,
\* and is never in two of these places or in none.
LEMMA PlaceStep ==
    CallersOK /\ AdmissionOK /\ WorkerOK /\ OutcomeInv /\ PlaceInv /\
    [Next]_vars => PlaceInv'
<1>. SUFFICES ASSUME CallersOK, AdmissionOK, WorkerOK, OutcomeInv, PlaceInv,
                     [Next]_vars
             PROVE  PlaceInv'
    OBVIOUS
<1>. USE NamesAssumption, KindAssumption, CapAssumption DEF CallersOK,
         ClientStates, Submitting, AdmissionOK, WorkerOK, WorkerStates,
         Unoccupied, Results, OutcomeInv, Accepted
<1>1. ASSUME NEW p \in Prompts, Submit(p) PROVE PlaceInv'
    BY <1>1 DEF Submit, admission, worker, cancels, channels, PlaceInv, Queued
<1>2. ASSUME NEW p \in Prompts, Admit(p) PROVE PlaceInv'
    BY <1>2 DEF Admit, worker, cancels, channels, PlaceInv, Queued
<1>3. ASSUME NEW p \in Prompts, Offer(p) PROVE PlaceInv'
  <2>1. ~Queued(p) /\ cur # p /\ result[p] = "none"
    BY <1>3 DEF Offer, PlaceInv
  <2>2. /\ queue \in Seq(Prompts) /\ p \in Prompts
        /\ IsInjective(queue)
        /\ ~Contains(queue, p)
        /\ queue' = Append(queue, p)
    BY <1>3, <2>1 DEF Offer, PlaceInv, Queued, Contains
  <2>3. IsInjective(queue')
    BY ONLY <2>2, AppendedOnce
  <2>4. \A x : Contains(queue', x) <=> Contains(queue, x) \/ x = p
    BY ONLY <2>2, AppendedOnce
  <2>5. UNCHANGED <<cur, result>> /\ client' = [client EXCEPT ![p] = AfterEnqueue(p)]
    BY <1>3 DEF Offer, worker
  <2>6. AfterEnqueue(p) \in {"waiting", "draining", "returned"}
    BY DEF AfterEnqueue
  <2>. QED
    BY <2>1, <2>3, <2>4, <2>5, <2>6 DEF PlaceInv, Queued
<1>4. ASSUME NEW p \in Prompts, Withdraw(p) PROVE PlaceInv'
    BY <1>4 DEF Withdraw, worker, cancels, channels, PlaceInv, Queued
<1>5. ASSUME NEW p \in Prompts, ExecuteReturns(p) PROVE PlaceInv'
    BY <1>5 DEF ExecuteReturns, admission, worker, cancels, channels, PlaceInv,
        Queued
<1>6. ASSUME NEW p \in Prompts, StreamReturns(p) PROVE PlaceInv'
    BY <1>6 DEF StreamReturns, admission, worker, cancels, channels, PlaceInv,
        Queued
<1>7. CASE Dequeue
  <2>1. /\ queue \in Seq(Prompts)
        /\ queue # <<>>
        /\ IsInjective(queue)
        /\ queue' = Tail(queue)
    BY <1>7 DEF Dequeue, PlaceInv
  <2>2. /\ Head(queue) \in Prompts
        /\ IsInjective(queue)'
        /\ \A x : Queued(x) <=> Queued(x)' \/ x = Head(queue)
        /\ ~Contains(queue', Head(queue))
    BY <2>1, TakenOnce DEF Queued
  <2>3. UNCHANGED <<client, result>> /\ cur' = Head(queue) /\ cur = None
    BY <1>7 DEF Dequeue, WorkerGoes, callers
  <2>. QED
    BY <2>2, <2>3 DEF PlaceInv, Queued
<1>8. CASE Recheck
    BY <1>8 DEF Recheck, Complete, callers, admission, cancels, channels,
        PlaceInv, Queued
<1>9. CASE Settle
    BY <1>9 DEF Settle, WorkerGoes, Complete, callers, admission, cancels,
        PlaceInv, Queued
<1>10. CASE Drain
  <2>1. /\ queue \in Seq(Prompts)
        /\ queue # <<>>
        /\ IsInjective(queue)
        /\ queue' = Tail(queue)
    BY <1>10 DEF Drain, PlaceInv
  <2>2. /\ Head(queue) \in Prompts
        /\ IsInjective(queue)'
        /\ \A x : Queued(x) <=> Queued(x)' \/ x = Head(queue)
        /\ ~Contains(queue', Head(queue))
    BY <2>1, TakenOnce DEF Queued
  <2>3. result[Head(queue)] = "none"
    BY <2>2 DEF PlaceInv, Queued
  <2>4. /\ UNCHANGED <<client, cur>>
        /\ cur = None
        /\ result' = [result EXCEPT ![Head(queue)] = "closed"]
    BY <1>10, <2>2, <2>3 DEF Drain, WorkerGoes, callers, Complete
  <2>. QED
    BY <2>2, <2>3, <2>4 DEF PlaceInv, Queued
<1>11. CASE UNCHANGED <<client, queue, cur, result>>
    BY <1>11 DEF PlaceInv, Queued
<1>12. ASSUME NEW p \in Prompts, Consume(p) \/ CallerCancels(p) \/
            WatcherFires(p) \/ WatcherStops(p)
      PROVE  PlaceInv'
    BY <1>11, <1>12 DEF Consume, callers, admission, worker, cancels, PlaceInv,
        Queued, CallerCancels, channels, WatcherFires, WatcherStops
<1>13. CASE AbortRead \/ AbortFire \/ CloseSignal \/ CloseGate \/ Subscribe \/
          ReadEvents \/ TakeClosed \/ Register \/ SpawnWatcher \/ Check \/
          Announce \/ Seed \/ TurnsOver \/ Final \/ Unregister \/ Release \/
          Shutdown \/ Drained \/ FinishEvents \/ Resting \/ UNCHANGED vars
    BY <1>11, <1>13 DEF AbortRead, callers, admission, worker, channels,
        PlaceInv, Queued, AbortFire, CloseSignal, cancels, CloseGate,
        Subscribe, ReadEvents, TakeClosed, WorkerGoes, Register, SetActiveRun, SpawnWatcher,
        Check, Announce, Emit, Seed, TurnsOver, Final, Unregister, Release,
        Shutdown, Drained, FinishEvents, Resting, vars
<1>. QED
    BY <1>1, <1>2, <1>3, <1>4, <1>5, <1>6, <1>7, <1>8, <1>9, <1>10, <1>11,
        <1>12, <1>13 DEF Next, Caller, WorkerStep

\* Nothing enters the queue once the worker has drained it.
LEMMA DrainedStep ==
    CallersOK /\ AdmissionOK /\ WorkerOK /\ MutexInv /\ DrainedInv /\
    [Next]_vars => DrainedInv'
<1>. SUFFICES ASSUME CallersOK, AdmissionOK, WorkerOK, MutexInv, DrainedInv,
                     [Next]_vars
             PROVE  DrainedInv'
    OBVIOUS
<1>. USE NamesAssumption, KindAssumption, CapAssumption DEF CallersOK,
         ClientStates, Submitting, AdmissionOK, WorkerOK, WorkerStates,
         Unoccupied, Results, MutexInv, DrainedInv
<1>1. ASSUME NEW p \in Prompts, Offer(p) PROVE DrainedInv'
    BY <1>1 DEF Offer, AfterEnqueue, worker, cancels, channels
<1>2. CASE TakeClosed
    BY <1>2 DEF TakeClosed, WorkerGoes, callers, admission, cancels, channels
<1>3. CASE Dequeue
    BY <1>3 DEF Dequeue, WorkerGoes, callers, cancels, channels
<1>4. CASE Recheck
    BY <1>4 DEF Recheck, Complete, callers, admission, cancels, channels
<1>5. CASE Register
    BY <1>5 DEF Register, SetActiveRun, WorkerGoes, callers, admission
<1>6. CASE SpawnWatcher
    BY <1>6 DEF SpawnWatcher, WorkerGoes, callers, admission, channels
<1>7. CASE Check
    BY <1>7 DEF Check, callers, admission, cancels, channels
<1>8. CASE Announce
    BY <1>8 DEF Announce, Emit, callers, admission, cancels
<1>9. CASE Seed
    BY <1>9 DEF Seed, WorkerGoes, callers, admission, cancels, channels
<1>10. CASE TurnsOver
    BY <1>10 DEF TurnsOver, WorkerGoes, callers, admission, cancels, channels
<1>11. CASE Final
    BY <1>11 DEF Final, Emit, callers, admission, cancels
<1>12. CASE Unregister
    BY <1>12 DEF Unregister, WorkerGoes, callers, admission, channels
<1>13. CASE Release
    BY <1>13 DEF Release, WorkerGoes, callers, admission, channels
<1>14. CASE Settle
    BY <1>14 DEF Settle, WorkerGoes, Complete, callers, admission, cancels
<1>15. CASE Shutdown
    BY <1>15 DEF Shutdown, WorkerGoes, callers, cancels, channels
<1>16. CASE Drain
    BY <1>16 DEF Drain, WorkerGoes, Complete, callers, cancels, channels
<1>17. CASE Drained
    BY <1>17 DEF Drained, WorkerGoes, callers, cancels, channels
<1>18. CASE FinishEvents
    BY <1>18 DEF FinishEvents, WorkerGoes, callers, admission, cancels
<1>19. CASE UNCHANGED <<queue, wpc>>
    BY <1>19
<1>20. ASSUME NEW p \in Prompts, Submit(p) \/ Admit(p) \/ Withdraw(p) \/
            ExecuteReturns(p) \/ Consume(p) \/ StreamReturns(p) \/
            CallerCancels(p) \/ WatcherFires(p) \/ WatcherStops(p)
      PROVE  DrainedInv'
    BY <1>19, <1>20 DEF Submit, admission, worker, cancels, channels, Admit,
        Withdraw, ExecuteReturns, Consume, callers, StreamReturns,
        CallerCancels, WatcherFires, WatcherStops
<1>21. CASE AbortRead \/ AbortFire \/ CloseSignal \/ CloseGate \/ Subscribe \/
          ReadEvents \/ Resting \/ UNCHANGED vars
    BY <1>19, <1>21 DEF AbortRead, callers, admission, worker, channels,
        AbortFire, CloseSignal, cancels, CloseGate, Subscribe, ReadEvents,
        Resting, vars
<1>. QED
    BY <1>1, <1>2, <1>3, <1>4, <1>5, <1>6, <1>7, <1>8, <1>9, <1>10, <1>11,
        <1>12, <1>13, <1>14, <1>15, <1>16, <1>17, <1>18, <1>19, <1>20, <1>21
        DEF Next, Caller, WorkerStep

\* The outcome of a run is settled by its context check.
LEMMA OutcomeStep ==
    WorkerOK /\ OutcomeInv /\ [Next]_vars => OutcomeInv'
<1>. SUFFICES ASSUME WorkerOK, OutcomeInv, [Next]_vars
             PROVE  OutcomeInv'
    OBVIOUS
<1>. USE NamesAssumption, KindAssumption, CapAssumption DEF WorkerOK,
         WorkerStates, Unoccupied, Results, OutcomeInv
<1>1. CASE TakeClosed
    BY <1>1 DEF TakeClosed, WorkerGoes, callers, admission, cancels, channels
<1>2. CASE Dequeue
    BY <1>2 DEF Dequeue, WorkerGoes, callers, cancels, channels
<1>3. CASE Recheck
    BY <1>3 DEF Recheck, Complete, callers, admission, cancels, channels
<1>4. CASE Register
    BY <1>4 DEF Register, SetActiveRun, WorkerGoes, callers, admission
<1>5. CASE SpawnWatcher
    BY <1>5 DEF SpawnWatcher, WorkerGoes, callers, admission, channels
<1>6. CASE Check
    BY <1>6 DEF Check, callers, admission, cancels, channels
<1>7. CASE Announce
    BY <1>7 DEF Announce, Emit, callers, admission, cancels
<1>8. CASE Seed
    BY <1>8 DEF Seed, WorkerGoes, callers, admission, cancels, channels
<1>9. CASE TurnsOver
    BY <1>9 DEF TurnsOver, WorkerGoes, callers, admission, cancels, channels
<1>10. CASE Final
    BY <1>10 DEF Final, Emit, callers, admission, cancels
<1>11. CASE Unregister
    BY <1>11 DEF Unregister, WorkerGoes, callers, admission, channels
<1>12. CASE Release
    BY <1>12 DEF Release, WorkerGoes, callers, admission, channels
<1>13. CASE Settle
    BY <1>13 DEF Settle, WorkerGoes, Complete, callers, admission, cancels
<1>14. CASE Shutdown
    BY <1>14 DEF Shutdown, WorkerGoes, callers, cancels, channels
<1>15. CASE Drain
    BY <1>15 DEF Drain, WorkerGoes, Complete, callers, cancels, channels
<1>16. CASE Drained
    BY <1>16 DEF Drained, WorkerGoes, callers, cancels, channels
<1>17. CASE FinishEvents
    BY <1>17 DEF FinishEvents, WorkerGoes, callers, admission, cancels
<1>18. CASE UNCHANGED <<wpc, outcome>>
    BY <1>18
<1>19. ASSUME NEW p \in Prompts, Submit(p) \/ Admit(p) \/ Offer(p) \/
            Withdraw(p) \/ ExecuteReturns(p) \/ Consume(p) \/ StreamReturns(p)
            \/ CallerCancels(p) \/ WatcherFires(p) \/ WatcherStops(p)
      PROVE  OutcomeInv'
    BY <1>18, <1>19 DEF Submit, admission, worker, cancels, channels, Admit,
        Offer, AfterEnqueue, Withdraw, ExecuteReturns, Consume, callers,
        StreamReturns, CallerCancels, WatcherFires, WatcherStops
<1>20. CASE AbortRead \/ AbortFire \/ CloseSignal \/ CloseGate \/ Subscribe \/
          ReadEvents \/ Resting \/ UNCHANGED vars
    BY <1>18, <1>20 DEF AbortRead, callers, admission, worker, channels,
        AbortFire, CloseSignal, cancels, CloseGate, Subscribe, ReadEvents,
        Resting, vars
<1>. QED
    BY <1>1, <1>2, <1>3, <1>4, <1>5, <1>6, <1>7, <1>8, <1>9, <1>10, <1>11,
        <1>12, <1>13, <1>14, <1>15, <1>16, <1>17, <1>18, <1>19, <1>20 DEF Next,
        Caller, WorkerStep

\* The transcript gains a prompt only in its seed step, which each run takes
\* once.
LEMMA RecordStep ==
    CallersOK /\ AdmissionOK /\ WorkerOK /\ OutcomeInv /\ PlaceInv /\ RecordInv
    /\ NoPanic' /\ [Next]_vars => RecordInv'
<1>. SUFFICES ASSUME CallersOK, AdmissionOK, WorkerOK, OutcomeInv, PlaceInv,
                     RecordInv, NoPanic', [Next]_vars
             PROVE  RecordInv'
    OBVIOUS
<1>. USE NamesAssumption, KindAssumption, CapAssumption DEF CallersOK,
         ClientStates, Submitting, AdmissionOK, WorkerOK, WorkerStates,
         Unoccupied, Results, PlaceInv, OutcomeInv, RecordInv, Queued,
         Recorded, Accepted, NoPanic, TranscriptMatchesRuns, PastSeed
<1>1. CASE TakeClosed
    BY <1>1 DEF TakeClosed, WorkerGoes, callers, admission, cancels, channels
<1>2. CASE Dequeue
    BY <1>2 DEF Dequeue, WorkerGoes, callers, cancels, channels
<1>3. CASE Recheck
    BY <1>3 DEF Recheck, Complete, callers, admission, cancels, channels
<1>4. CASE Register
    BY <1>4 DEF Register, SetActiveRun, WorkerGoes, callers, admission
<1>5. CASE SpawnWatcher
    BY <1>5 DEF SpawnWatcher, WorkerGoes, callers, admission, channels
<1>6. CASE Check
    BY <1>6 DEF Check, callers, admission, cancels, channels
<1>7. CASE Announce
    BY <1>7 DEF Announce, Emit, callers, admission, cancels
<1>8. CASE Seed
  <2>1. cur \in Prompts /\ outcome = "ran" /\ UNCHANGED <<cur, outcome, result>>
    BY <1>8 DEF Seed, WorkerGoes
  <2>2. /\ transcript \in Seq(Prompts) /\ cur \in Prompts
        /\ IsInjective(transcript)
        /\ ~Contains(transcript, cur)
    BY <1>8 DEF Seed, WorkerGoes
  <2>3. CASE cur \in Continuations
    BY <1>8, <2>1, <2>3 DEF Seed, WorkerGoes
  <2>4. CASE transcript' = Append(transcript, cur)
    <3>1. IsInjective(transcript')
      BY ONLY <2>2, <2>4, AppendedOnce
    <3>2. \A x : Contains(transcript', x) <=> Contains(transcript, x) \/ x = cur
      BY ONLY <2>2, <2>4, AppendedOnce
    <3>. QED
      BY <1>8, <2>1, <3>1, <3>2 DEF Seed, WorkerGoes
  <2>. QED
    BY <1>8, <2>3, <2>4 DEF Seed
<1>9. CASE TurnsOver
    BY <1>9 DEF TurnsOver, WorkerGoes, callers, admission, cancels, channels
<1>10. CASE Final
    BY <1>10 DEF Final, Emit, callers, admission, cancels
<1>11. CASE Unregister
    BY <1>11 DEF Unregister, WorkerGoes, callers, admission, channels
<1>12. CASE Release
    BY <1>12 DEF Release, WorkerGoes, callers, admission, channels
<1>13. CASE Settle
    BY <1>13 DEF Settle, WorkerGoes, Complete, callers, admission, cancels
<1>14. CASE Shutdown
    BY <1>14 DEF Shutdown, WorkerGoes, callers, cancels, channels
<1>15. CASE Drain
  <2>1. Head(queue) \in Prompts /\ result[Head(queue)] = "none"
    BY <1>15 DEF Drain, Contains
  <2>. QED
    BY <1>15, <2>1 DEF Drain, WorkerGoes, Complete
<1>16. CASE Drained
    BY <1>16 DEF Drained, WorkerGoes, callers, cancels, channels
<1>17. CASE FinishEvents
    BY <1>17 DEF FinishEvents, WorkerGoes, callers, admission, cancels
<1>18. CASE UNCHANGED <<wpc, cur, outcome, result, transcript>>
    BY <1>18
<1>19. ASSUME NEW p \in Prompts, Submit(p) \/ Admit(p) \/ Offer(p) \/
            Withdraw(p) \/ ExecuteReturns(p) \/ Consume(p) \/ StreamReturns(p)
            \/ CallerCancels(p) \/ WatcherFires(p) \/ WatcherStops(p)
      PROVE  RecordInv'
    BY <1>18, <1>19 DEF Submit, admission, worker, cancels, channels, Admit,
        Offer, AfterEnqueue, Withdraw, ExecuteReturns, Consume, callers,
        StreamReturns, CallerCancels, WatcherFires, WatcherStops
<1>20. CASE AbortRead \/ AbortFire \/ CloseSignal \/ CloseGate \/ Subscribe \/
          ReadEvents \/ Resting \/ UNCHANGED vars
    BY <1>18, <1>20 DEF AbortRead, callers, admission, worker, channels,
        AbortFire, CloseSignal, cancels, CloseGate, Subscribe, ReadEvents,
        Resting, vars
<1>. QED
    BY <1>1, <1>2, <1>3, <1>4, <1>5, <1>6, <1>7, <1>8, <1>9, <1>10, <1>11,
        <1>12, <1>13, <1>14, <1>15, <1>16, <1>17, <1>18, <1>19, <1>20 DEF Next,
        Caller, WorkerStep

\* A prompt queued after Close goes no further than the second look at closed.
LEMMA LateStep ==
    CallersOK /\ AdmissionOK /\ WorkerOK /\ GateInv /\ PlaceInv /\ LateInv /\
    [Next]_vars => LateInv'
<1>. SUFFICES ASSUME CallersOK, AdmissionOK, WorkerOK, GateInv, PlaceInv,
                     LateInv, [Next]_vars
             PROVE  LateInv'
    OBVIOUS
<1>. USE NamesAssumption, KindAssumption, CapAssumption DEF CallersOK,
         ClientStates, Submitting, AdmissionOK, WorkerOK, WorkerStates,
         Unoccupied, Results, PlaceInv, GateInv, LateInv, Queued, Accepted
<1>1. ASSUME NEW p \in Prompts, Submit(p) PROVE LateInv'
    BY <1>1 DEF Submit, admission, worker, cancels, channels
<1>2. ASSUME NEW p \in Prompts, Admit(p) PROVE LateInv'
    BY <1>2 DEF Admit, worker, cancels, channels
<1>3. ASSUME NEW p \in Prompts, Offer(p) PROVE LateInv'
    BY <1>3 DEF Offer, AfterEnqueue, worker, cancels, channels
<1>4. ASSUME NEW p \in Prompts, Withdraw(p) PROVE LateInv'
    BY <1>4 DEF Withdraw, worker, cancels, channels
<1>5. ASSUME NEW p \in Prompts, ExecuteReturns(p) PROVE LateInv'
    BY <1>5 DEF ExecuteReturns, admission, worker, cancels, channels
<1>6. ASSUME NEW p \in Prompts, StreamReturns(p) PROVE LateInv'
    BY <1>6 DEF StreamReturns, admission, worker, cancels, channels
<1>7. CASE CloseSignal
    BY <1>7 DEF CloseSignal, callers, worker, cancels, channels
<1>8. CASE TakeClosed
    BY <1>8 DEF TakeClosed, WorkerGoes, callers, admission, cancels, channels
<1>9. CASE Dequeue
    BY <1>9 DEF Dequeue, WorkerGoes, callers, cancels, channels
<1>10. CASE Recheck
    BY <1>10 DEF Recheck, Complete, callers, admission, cancels, channels
<1>11. CASE Register
    BY <1>11 DEF Register, SetActiveRun, WorkerGoes, callers, admission
<1>12. CASE SpawnWatcher
    BY <1>12 DEF SpawnWatcher, WorkerGoes, callers, admission, channels
<1>13. CASE Check
    BY <1>13 DEF Check, callers, admission, cancels, channels
<1>14. CASE Announce
    BY <1>14 DEF Announce, Emit, callers, admission, cancels
<1>15. CASE Seed
    BY <1>15 DEF Seed, WorkerGoes, callers, admission, cancels, channels
<1>16. CASE TurnsOver
    BY <1>16 DEF TurnsOver, WorkerGoes, callers, admission, cancels, channels
<1>17. CASE Final
    BY <1>17 DEF Final, Emit, callers, admission, cancels
<1>18. CASE Unregister
    BY <1>18 DEF Unregister, WorkerGoes, callers, admission, channels
<1>19. CASE Release
    BY <1>19 DEF Release, WorkerGoes, callers, admission, channels
<1>20. CASE Settle
    BY <1>20 DEF Settle, WorkerGoes, Complete, callers, admission, cancels
<1>21. CASE Shutdown
    BY <1>21 DEF Shutdown, WorkerGoes, callers, cancels, channels
<1>22. CASE Drain
    BY <1>22 DEF Drain, WorkerGoes, Complete, callers, cancels, channels
<1>23. CASE Drained
    BY <1>23 DEF Drained, WorkerGoes, callers, cancels, channels
<1>24. CASE FinishEvents
    BY <1>24 DEF FinishEvents, WorkerGoes, callers, admission, cancels
<1>25. CASE UNCHANGED <<client, closed, wpc, cur, result, late>>
    BY <1>25
<1>26. ASSUME NEW p \in Prompts, Consume(p) \/ CallerCancels(p) \/
            WatcherFires(p) \/ WatcherStops(p)
      PROVE  LateInv'
    BY <1>25, <1>26 DEF Consume, callers, admission, worker, cancels,
        CallerCancels, channels, WatcherFires, WatcherStops
<1>27. CASE AbortRead \/ AbortFire \/ CloseGate \/ Subscribe \/ ReadEvents \/
          Resting \/ UNCHANGED vars
    BY <1>25, <1>27 DEF AbortRead, callers, admission, worker, channels,
        AbortFire, CloseGate, cancels, Subscribe, ReadEvents, Resting, vars
<1>. QED
    BY <1>1, <1>2, <1>3, <1>4, <1>5, <1>6, <1>7, <1>8, <1>9, <1>10, <1>11,
        <1>12, <1>13, <1>14, <1>15, <1>16, <1>17, <1>18, <1>19, <1>20, <1>21,
        <1>22, <1>23, <1>24, <1>25, <1>26, <1>27 DEF Next, Caller, WorkerStep

\* While events go to a stream, it is the stream of the prompt in the worker's
\* hands, which is not answered and so not closed.
LEMMA StreamStep ==
    CallersOK /\ AdmissionOK /\ WorkerOK /\ ChannelsOK /\ PlaceInv /\ StreamInv
    /\ [Next]_vars => StreamInv'
<1>. SUFFICES ASSUME CallersOK, AdmissionOK, WorkerOK, ChannelsOK, PlaceInv,
                     StreamInv, [Next]_vars
             PROVE  StreamInv'
    OBVIOUS
<1>. USE NamesAssumption, KindAssumption, CapAssumption DEF CallersOK,
         ClientStates, Submitting, AdmissionOK, WorkerOK, WorkerStates,
         Unoccupied, Results, ChannelsOK, PlaceInv, StreamInv, NoPanic,
         StreamClosed, Running, Accepted
<1>1. CASE TakeClosed
    BY <1>1 DEF TakeClosed, WorkerGoes, callers, admission, cancels, channels
<1>2. CASE Dequeue
    BY <1>2 DEF Dequeue, WorkerGoes, callers, cancels, channels
<1>3. CASE Recheck
    BY <1>3 DEF Recheck, Complete, callers, admission, cancels, channels
<1>4. CASE Register
    BY <1>4 DEF Register, SetActiveRun, WorkerGoes, callers, admission
<1>5. CASE SpawnWatcher
    BY <1>5 DEF SpawnWatcher, WorkerGoes, callers, admission, channels
<1>6. CASE Check
    BY <1>6 DEF Check, callers, admission, cancels, channels
<1>7. CASE Announce
    BY <1>7 DEF Announce, Emit, callers, admission, cancels
<1>8. CASE Seed
    BY <1>8 DEF Seed, WorkerGoes, callers, admission, cancels, channels
<1>9. CASE TurnsOver
    BY <1>9 DEF TurnsOver, WorkerGoes, callers, admission, cancels, channels
<1>10. CASE Final
    BY <1>10 DEF Final, Emit, callers, admission, cancels
<1>11. CASE Unregister
    BY <1>11 DEF Unregister, WorkerGoes, callers, admission, channels
<1>12. CASE Release
    BY <1>12 DEF Release, WorkerGoes, callers, admission, channels
<1>13. CASE Settle
    BY <1>13 DEF Settle, WorkerGoes, Complete, callers, admission, cancels
<1>14. CASE Shutdown
    BY <1>14 DEF Shutdown, WorkerGoes, callers, cancels, channels
<1>15. CASE Drain
    BY <1>15 DEF Drain, WorkerGoes, Complete, callers, cancels, channels
<1>16. CASE Drained
    BY <1>16 DEF Drained, WorkerGoes, callers, cancels, channels
<1>17. CASE FinishEvents
    BY <1>17 DEF FinishEvents, WorkerGoes, callers, admission, cancels
<1>18. CASE UNCHANGED <<wpc, cur, result, activeRun>>
    BY <1>18
<1>19. ASSUME NEW p \in Prompts, Submit(p) \/ Admit(p) \/ Offer(p) \/
            Withdraw(p) \/ ExecuteReturns(p) \/ Consume(p) \/ StreamReturns(p)
            \/ CallerCancels(p) \/ WatcherFires(p) \/ WatcherStops(p)
      PROVE  StreamInv'
    BY <1>18, <1>19 DEF Submit, admission, worker, cancels, channels, Admit,
        Offer, AfterEnqueue, Withdraw, ExecuteReturns, Consume, callers,
        StreamReturns, CallerCancels, WatcherFires, WatcherStops
<1>20. CASE AbortRead \/ AbortFire \/ CloseSignal \/ CloseGate \/ Subscribe \/
          ReadEvents \/ Resting \/ UNCHANGED vars
    BY <1>18, <1>20 DEF AbortRead, callers, admission, worker, channels,
        AbortFire, CloseSignal, cancels, CloseGate, Subscribe, ReadEvents,
        Resting, vars
<1>. QED
    BY <1>1, <1>2, <1>3, <1>4, <1>5, <1>6, <1>7, <1>8, <1>9, <1>10, <1>11,
        <1>12, <1>13, <1>14, <1>15, <1>16, <1>17, <1>18, <1>19, <1>20 DEF Next,
        Caller, WorkerStep

\* Emit adds its event to the stream of the prompt in the worker's hands, if it
\* has one, and to no other.
LEMMA EmitSends ==
    ASSUME TypeOK, PlaceInv, StreamInv, cur \in Prompts,
           wpc \in Running \ {"register"}, UNCHANGED got,
           NEW kind \in {"AgentStart", "AgentEnd"}, NEW next, Emit(kind, next)
    PROVE  /\ wpc' = next
           /\ \A p \in Prompts :
                /\ Sent(p)' = IF p = cur /\ Kind[p] = "stream"
                                THEN Append(Sent(p), [run |-> p, kind |-> kind])
                                ELSE Sent(p)
                /\ Kind[p] = "stream" /\ p # cur => buf'[p] = buf[p]
<1>. DEFINE ev == [run |-> cur, kind |-> kind]
<1>1. activeRun = IF Kind[cur] = "stream" THEN cur ELSE None
    BY DEF StreamInv
<1>2. ~StreamClosed(cur)
    BY DEF PlaceInv, StreamClosed
<1>3. /\ wpc' = next
      /\ IF Kind[cur] = "stream" THEN buf' = [buf EXCEPT ![cur] = Append(@, ev)]
                                  ELSE buf' = buf
    BY <1>1, <1>2, NamesAssumption DEF Emit
<1>4. ev \in EventSet
    BY DEF EventSet
<1>5. \A p \in Prompts : buf[p] \in Seq(EventSet) /\ got[p] \in Seq(EventSet)
    BY DEF TypeOK, ChannelsOK
<1>6. buf \in [Prompts -> Seq(EventSet)]
    BY DEF TypeOK, ChannelsOK
<1>. HIDE DEF ev
<1>7. CASE Kind[cur] = "stream"
  <2>1. /\ buf'[cur] = Append(buf[cur], ev)
        /\ \A p \in Prompts : p # cur => buf'[p] = buf[p]
      BY <1>3, <1>6, <1>7
  <2>2. got[cur] \o Append(buf[cur], ev) = Append(got[cur] \o buf[cur], ev)
    <3>1. \A u, v \in Seq(EventSet) : u \o Append(v, ev) = Append(u \o v, ev)
        BY <1>4, SentIsLast
    <3>. QED
        BY <1>5, <3>1
  <2>. QED
      BY <1>3, <1>7, <2>1, <2>2 DEF Sent, ev
<1>8. CASE Kind[cur] # "stream"
    BY <1>3, <1>8 DEF Sent
<1>. QED
    BY <1>7, <1>8

\* A step in which no event is sent and no consumer goes away keeps the streams
\* as they should be if it keeps what is due.
LEMMA EventsKept ==
    ASSUME EventsInv, UNCHANGED <<got, buf, client>>,
           \A p \in Prompts : Due(p)' = Due(p) /\ (result[p] # "none" => result'[p] # "none")
    PROVE  EventsInv'
    BY DEF EventsInv, Sent

\* Each step keeps every stream as it should be.
LEMMA EventsStep ==
    TypeOK /\ PlaceInv /\ OutcomeInv /\ StreamInv /\ EventsInv /\ [Next]_vars => EventsInv'
<1>. SUFFICES ASSUME TypeOK, PlaceInv, OutcomeInv, StreamInv, EventsInv, [Next]_vars
             PROVE  EventsInv'
    OBVIOUS
<1>. USE NamesAssumption, KindAssumption DEF TypeOK, CallersOK, WorkerOK,
         WorkerStates, Unoccupied
<1>1. ASSUME NEW p \in Prompts, Submit(p) \/ Admit(p) \/ Withdraw(p) \/ ExecuteReturns(p)
      PROVE  EventsInv'
  <2>1. /\ \A q \in Prompts : Due(q)' = Due(q)
        /\ UNCHANGED <<got, buf, result>>
        /\ \A q \in Prompts :
             /\ client'[q] = "waiting" => client[q] = "waiting"
             /\ client'[q] = "returned" => client[q] \in {"waiting", "returned"}
      BY <1>1 DEF Submit, Admit, Withdraw, ExecuteReturns, ClientStates, Submitting,
                  admission, worker, cancels, channels, Due
  <2>. QED
      BY <2>1 DEF EventsInv, Sent
<1>2. ASSUME NEW p \in Prompts, Offer(p) PROVE EventsInv'
  <2>1. /\ \A q \in Prompts : Due(q)' = Due(q)
        /\ UNCHANGED <<got, buf, result>>
      BY <1>2 DEF Offer, worker, cancels, channels, Due
  <2>2. /\ \A q \in Prompts : q # p => client'[q] = client[q]
        /\ client'[p] = AfterEnqueue(p)
      BY <1>2 DEF Offer
  <2>3. /\ AfterEnqueue(p) = "waiting" => Kind[p] = "execute"
        /\ AfterEnqueue(p) = "returned" => Kind[p] = "send"
      BY DEF AfterEnqueue
  <2>. QED
      BY <2>1, <2>2, <2>3 DEF EventsInv, Sent
<1>3. ASSUME NEW p \in Prompts, Consume(p) PROVE EventsInv'
  <2>1. buf[p] # <<>> /\ client[p] = "draining" /\ client' = client
      BY <1>3 DEF Consume, callers
  <2>2. \A q \in Prompts : Due(q)' = Due(q)
      BY <1>3 DEF Consume, worker, Due
  <2>3. /\ got' = [got EXCEPT ![p] = Append(@, Head(buf[p]))]
        /\ buf' = [buf EXCEPT ![p] = Tail(@)]
      BY <1>3 DEF Consume
  <2>4. got[p] \in Seq(EventSet) /\ buf[p] \in Seq(EventSet)
      BY DEF ChannelsOK
  <2>5. Append(got[p], Head(buf[p])) \o Tail(buf[p]) = got[p] \o buf[p]
    <3>1. \A u, v \in Seq(EventSet) : v # <<>> => Append(u, Head(v)) \o Tail(v) = u \o v
        BY TakenIsSent
    <3>. QED
        BY <2>1, <2>4, <3>1
  <2>6. \A q \in Prompts : got'[q] \o buf'[q] = got[q] \o buf[q]
      BY <2>3, <2>5 DEF ChannelsOK
  <2>7. \A q \in Prompts : q # p => buf'[q] = buf[q]
      BY <2>3 DEF ChannelsOK
  <2>. QED
      BY <1>3, <2>1, <2>2, <2>6, <2>7 DEF EventsInv, Sent, Consume, worker
<1>4. ASSUME NEW p \in Prompts, StreamReturns(p) PROVE EventsInv'
  <2>1. /\ \A q \in Prompts : Due(q)' = Due(q)
        /\ UNCHANGED <<got, buf, result>>
        /\ buf[p] = <<>> /\ result[p] # "none"
        /\ client'[p] = "returned" /\ \A q \in Prompts : q # p => client'[q] = client[q]
      BY <1>4 DEF StreamReturns, admission, worker, cancels, channels, Due
  <2>. QED
      BY <2>1 DEF EventsInv, Sent
<1>5. CASE Announce
  <2>1. cur \in Prompts /\ outcome = "ran" /\ UNCHANGED <<client, result, cur, outcome, got>>
      BY <1>5 DEF Announce, callers, OutcomeInv
  <2>2. /\ wpc' = "seed"
        /\ \A p \in Prompts :
             /\ Sent(p)' = IF p = cur /\ Kind[p] = "stream"
                             THEN Append(Sent(p), Start(p)) ELSE Sent(p)
             /\ Kind[p] = "stream" /\ p # cur => buf'[p] = buf[p]
      BY <1>5, <2>1, EmitSends DEF Announce, Running, Start
  <2>3. \A p \in Prompts :
            Due(p)' = IF p = cur /\ Kind[p] = "stream" THEN Append(Due(p), Start(p)) ELSE Due(p)
    <3>1. wpc = "announce" /\ result[cur] = "none"
        BY <1>5, <2>1 DEF Announce, PlaceInv
    <3>2. \A p \in Prompts : Start(p)' = Start(p) /\ End(p)' = End(p)
        BY DEF Start, End
    <3>3. ASSUME NEW p \in Prompts, p # cur \/ Kind[p] # "stream" PROVE Due(p)' = Due(p)
        BY <2>1, <2>2, <3>1, <3>2, <3>3 DEF Due
    <3>4. ASSUME Kind[cur] = "stream"
          PROVE  Due(cur) = <<>> /\ Due(cur)' = <<Start(cur)>>
        BY <2>1, <2>2, <3>1, <3>2, <3>4 DEF Due
    <3>5. Append(<<>>, Start(cur)) = <<Start(cur)>>
        OBVIOUS
    <3>. QED
        BY <2>1, <3>3, <3>4, <3>5
  <2>4. result[cur] = "none"
      BY <2>1 DEF PlaceInv
  <2>. QED
      BY <2>1, <2>2, <2>3, <2>4 DEF EventsInv
<1>6. CASE Final
  <2>1. cur \in Prompts /\ outcome = "ran" /\ UNCHANGED <<client, result, cur, outcome, got>>
      BY <1>6 DEF Final, callers, OutcomeInv
  <2>2. /\ wpc' = "unregister"
        /\ \A p \in Prompts :
             /\ Sent(p)' = IF p = cur /\ Kind[p] = "stream"
                             THEN Append(Sent(p), End(p)) ELSE Sent(p)
             /\ Kind[p] = "stream" /\ p # cur => buf'[p] = buf[p]
      BY <1>6, <2>1, EmitSends DEF Final, Running, End
  <2>3. \A p \in Prompts :
            Due(p)' = IF p = cur /\ Kind[p] = "stream" THEN Append(Due(p), End(p)) ELSE Due(p)
    <3>1. wpc = "final" /\ result[cur] = "none"
        BY <1>6, <2>1 DEF Final, PlaceInv
    <3>2. \A p \in Prompts : Start(p)' = Start(p) /\ End(p)' = End(p)
        BY DEF Start, End
    <3>3. ASSUME NEW p \in Prompts, p # cur \/ Kind[p] # "stream" PROVE Due(p)' = Due(p)
        BY <2>1, <2>2, <3>1, <3>2, <3>3 DEF Due
    <3>4. ASSUME Kind[cur] = "stream"
          PROVE  Due(cur) = <<Start(cur)>> /\ Due(cur)' = <<Start(cur), End(cur)>>
        BY <2>1, <2>2, <3>1, <3>2, <3>4 DEF Due
    <3>5. Append(<<Start(cur)>>, End(cur)) = <<Start(cur), End(cur)>>
        BY PairAppended
    <3>. QED
        BY <2>1, <3>3, <3>4, <3>5
  <2>4. result[cur] = "none"
      BY <2>1 DEF PlaceInv
  <2>. QED
      BY <2>1, <2>2, <2>3, <2>4 DEF EventsInv
<1>7. CASE Recheck
  <2>1. wpc = "recheck" /\ UNCHANGED <<client, got, buf, outcome>>
      BY <1>7 DEF Recheck, callers, channels
  <2>2. cur \in Prompts /\ result[cur] = "none"
      BY <2>1 DEF PlaceInv
  <2>3. CASE closed
    <3>1. wpc' = "shutdown" /\ cur' = None /\ result' = [result EXCEPT ![cur] = "closed"]
        BY <1>7, <2>2, <2>3 DEF Recheck, Complete
    <3>2. \A p \in Prompts : Due(p)' = Due(p)
        BY <2>1, <2>2, <3>1 DEF Due
    <3>. QED
        BY <2>1, <3>1, <3>2, EventsKept
  <2>4. CASE ~closed
    <3>1. wpc' = "register" /\ UNCHANGED <<cur, result>>
        BY <1>7, <2>4 DEF Recheck
    <3>2. \A p \in Prompts : Due(p)' = Due(p)
        BY <2>1, <3>1 DEF Due
    <3>. QED
        BY <2>1, <3>1, <3>2, EventsKept
  <2>. QED
      BY <2>3, <2>4
<1>8. CASE Settle
  <2>1. /\ UNCHANGED <<client, got, buf>>
        /\ cur \in Prompts /\ result[cur] = "none" /\ outcome # "none"
        /\ result' = [result EXCEPT ![cur] = outcome]
        /\ wpc = "settle" /\ wpc' = "select" /\ cur' = None
      BY <1>8 DEF Settle, WorkerGoes, Complete, callers, PlaceInv, OutcomeInv
  <2>2. \A p \in Prompts : Due(p)' = Due(p)
      BY <2>1 DEF Due
  <2>. QED
      BY <2>1, <2>2, EventsKept
<1>9. CASE Drain
  <2>1. Head(queue) \in Prompts /\ result[Head(queue)] = "none"
      BY <1>9 DEF Drain, AdmissionOK, PlaceInv, Queued, Contains
  <2>2. /\ UNCHANGED <<client, got, buf, cur, outcome, wpc>>
        /\ result' = [result EXCEPT ![Head(queue)] = "closed"]
      BY <1>9, <2>1 DEF Drain, WorkerGoes, Complete, callers, channels
  <2>3. \A p \in Prompts : Due(p)' = Due(p)
      BY <1>9, <2>1, <2>2 DEF Due, Drain, WorkerGoes
  <2>. QED
      BY <2>1, <2>2, <2>3, EventsKept
<1>10. CASE Check
  <2>1. /\ UNCHANGED <<client, got, buf, cur, result>>
        /\ wpc = "check"
        /\ wpc' = "announce" \/ (wpc' = "unregister" /\ outcome' # "ran")
      BY <1>10 DEF Check, callers, channels
  <2>2. \A p \in Prompts : Due(p)' = Due(p)
      BY <2>1 DEF Due
  <2>. QED
      BY <2>1, <2>2, EventsKept
<1>11. CASE Dequeue
  <2>1. Head(queue) \in Prompts /\ result[Head(queue)] = "none"
      BY <1>11 DEF Dequeue, AdmissionOK, PlaceInv, Queued, Contains
  <2>2. UNCHANGED <<client, got, buf, result>> /\ \A p \in Prompts : Due(p)' = Due(p)
      BY <1>11, <2>1 DEF Dequeue, WorkerGoes, callers, channels, Due
  <2>. QED
      BY <2>2, EventsKept
<1>12. CASE TakeClosed \/ Register \/ SpawnWatcher \/ Seed \/ TurnsOver \/ Unregister
            \/ Release \/ Shutdown \/ Drained \/ FinishEvents
  <2>1. UNCHANGED <<client, got, buf, result>>
      BY <1>12 DEF TakeClosed, Register, SetActiveRun, SpawnWatcher, Seed, TurnsOver, Unregister,
          Release, Shutdown, Drained, FinishEvents, callers, channels
  <2>2. \A p \in Prompts : Due(p)' = Due(p)
      BY <1>12 DEF TakeClosed, Register, SetActiveRun, SpawnWatcher, Seed, TurnsOver, Unregister,
          Release, Shutdown, Drained, FinishEvents, WorkerGoes, Due
  <2>. QED
      BY <2>1, <2>2, EventsKept
<1>13. CASE UNCHANGED <<client, result, cur, outcome, wpc, got, buf>>
  <2>1. \A p \in Prompts : Due(p)' = Due(p)
      BY <1>13 DEF Due
  <2>. QED
      BY <1>13, <2>1, EventsKept
<1>14. ASSUME NEW p \in Prompts, CallerCancels(p) \/ WatcherFires(p) \/ WatcherStops(p)
       PROVE  EventsInv'
    BY <1>13, <1>14 DEF CallerCancels, WatcherFires, WatcherStops, callers, worker, channels
<1>15. CASE AbortRead \/ AbortFire \/ CloseSignal \/ CloseGate \/ Subscribe \/
          ReadEvents \/ Resting \/ UNCHANGED vars
    BY <1>13, <1>15 DEF AbortRead, AbortFire, CloseSignal, CloseGate, Subscribe,
        ReadEvents, Resting, vars, callers, worker, channels
<1>. QED
    BY <1>1, <1>2, <1>3, <1>4, <1>5, <1>6, <1>7, <1>8, <1>9, <1>10, <1>11, <1>12,
       <1>13, <1>14, <1>15 DEF Next, Caller, WorkerStep

\* A run is cancelled through the copy an Abort took while it was active, by
\* Close, or at its own end.
LEMMA CancelStep ==
    AdmissionOK /\ WorkerOK /\ CancelsOK /\ CancelInv /\ [Next]_vars => CancelInv'
<1>. SUFFICES ASSUME AdmissionOK, WorkerOK, CancelsOK, CancelInv, [Next]_vars
             PROVE  CancelInv'
    OBVIOUS
<1>. USE NamesAssumption, KindAssumption, CapAssumption DEF AdmissionOK,
         WorkerOK, CancelsOK, Unoccupied, CancelInv, NoStrayCancel
<1>1. ASSUME NEW p \in Prompts, WatcherFires(p) PROVE CancelInv'
    BY <1>1 DEF WatcherFires, callers, admission, worker, channels
<1>2. CASE AbortRead
    BY <1>2 DEF AbortRead, callers, admission, worker, channels
<1>3. CASE AbortFire
    BY <1>3 DEF AbortFire, callers, admission, worker, channels
<1>4. CASE CloseSignal
    BY <1>4 DEF CloseSignal, callers, worker, cancels, channels
<1>5. CASE Release
    BY <1>5 DEF Release, WorkerGoes, callers, admission, channels
<1>6. CASE UNCHANGED <<closed, cancelled, stopped, aborter, targeted>>
    BY <1>6
<1>7. ASSUME NEW p \in Prompts, Submit(p) \/ Admit(p) \/ Offer(p) \/
            Withdraw(p) \/ ExecuteReturns(p) \/ Consume(p) \/ StreamReturns(p)
            \/ CallerCancels(p) \/ WatcherStops(p)
      PROVE  CancelInv'
    BY <1>6, <1>7 DEF Submit, admission, worker, cancels, channels, Admit,
        Offer, AfterEnqueue, Withdraw, ExecuteReturns, Consume, callers,
        StreamReturns, CallerCancels, WatcherStops
<1>8. CASE CloseGate \/ Subscribe \/ ReadEvents \/ TakeClosed \/ Dequeue \/
          Recheck \/ Register \/ SpawnWatcher \/ Check \/ Announce \/ Seed \/
          TurnsOver \/ Final \/ Unregister \/ Settle \/ Shutdown \/ Drain \/
          Drained \/ FinishEvents \/ Resting \/ UNCHANGED vars
    BY <1>6, <1>8 DEF CloseGate, callers, worker, cancels, channels, Subscribe,
        admission, ReadEvents, TakeClosed, WorkerGoes, Dequeue, Recheck,
        Complete, Register, SetActiveRun, SpawnWatcher, Check, Announce, Emit, Seed,
        TurnsOver, Final, Unregister, Settle, Shutdown, Drain, Drained,
        FinishEvents, Resting, vars
<1>. QED
    BY <1>1, <1>2, <1>3, <1>4, <1>5, <1>6, <1>7, <1>8 DEF Next, Caller,
        WorkerStep

-----------------------------------------------------------------------------
(* The invariant and the properties it carries.                             *)

\* A new Droid satisfies the invariant.
LEMMA Initially == Init => IInv
<1>. SUFFICES ASSUME Init PROVE IInv
    OBVIOUS
<1>. USE NamesAssumption, KindAssumption, CapAssumption DEF Init
<1>1. TypeOK
  <2>1. CallersOK
    BY DEF CallersOK, ClientStates, Submitting
  <2>2. AdmissionOK
    <3>1. queue \in Seq(Prompts)
      OBVIOUS
    <3>2. Len(queue) <= QueueCap
      OBVIOUS
    <3>3. /\ queueMu \in Prompts \cup {None, Worker}
          /\ accepting \in BOOLEAN /\ closed \in BOOLEAN
          /\ closer \in {"idle", "locking", "returned"}
      OBVIOUS
    <3>. QED
      BY ONLY <3>1, <3>2, <3>3 DEF AdmissionOK
  <2>3. WorkerOK
    BY DEF WorkerOK, WorkerStates, Unoccupied, Results
  <2>4. CancelsOK
    BY DEF CancelsOK
  <2>5. ChannelsOK
    <3>1. activeRun = None /\ subscribed = FALSE /\ eventsClosed = FALSE
      OBVIOUS
    <3>2. /\ <<>> \in Seq(EventSet)
          /\ buf = [p \in Prompts |-> <<>>]
          /\ got = [p \in Prompts |-> <<>>]
          /\ events = <<>>
      OBVIOUS
    <3>3. /\ buf \in [Prompts -> Seq(EventSet)]
          /\ got \in [Prompts -> Seq(EventSet)]
          /\ events \in Seq(EventSet)
      BY ONLY <3>2
    <3>. QED
      BY ONLY <3>1, <3>3 DEF ChannelsOK
  <2>. QED
    BY <2>1, <2>2, <2>3, <2>4, <2>5 DEF TypeOK
<1>2. MutexInv /\ GateInv /\ DrainedInv /\ OutcomeInv /\ LateInv /\ StreamInv /\ CancelInv
    BY DEF MutexInv, GateInv, DrainedInv, OutcomeInv, LateInv, StreamInv, NoPanic,
           Running, CancelInv, NoStrayCancel
<1>3. PlaceInv
    BY DEF PlaceInv, Accepted, Queued, Contains, IsInjective
<1>4. RecordInv
    BY DEF RecordInv, TranscriptMatchesRuns, PastSeed, Recorded, Contains, IsInjective
<1>5. EventsInv
    BY DEF EventsInv, Sent, Due
<1>. QED
    BY <1>1, <1>2, <1>3, <1>4, <1>5 DEF IInv

\* Every step keeps it.
LEMMA Inductive == IInv /\ [Next]_vars => IInv'
<1>. SUFFICES ASSUME IInv, [Next]_vars PROVE IInv'
    OBVIOUS
<1>1. TypeOK'
    BY CallersStep, AdmissionStep, WorkerTypeStep, CancelsStep, ChannelsStep
       DEF IInv, TypeOK
<1>2. MutexInv' /\ GateInv' /\ DrainedInv' /\ OutcomeInv'
    BY MutexStep, GateStep, DrainedStep, OutcomeStep DEF IInv, TypeOK
<1>3. PlaceInv' /\ LateInv'
    BY PlaceStep, LateStep DEF IInv, TypeOK
<1>4. StreamInv' /\ EventsInv' /\ CancelInv'
    BY StreamStep, EventsStep, CancelStep DEF IInv, TypeOK
<1>5. NoPanic'
    BY <1>4 DEF StreamInv
<1>6. RecordInv'
    BY <1>5, RecordStep DEF IInv, TypeOK
<1>. QED
    BY <1>1, <1>2, <1>3, <1>4, <1>6 DEF IInv

\* Every reachable state of a Droid satisfies the inductive invariant.
THEOREM Invariance == Spec => []IInv
    BY Initially, Inductive, PTL DEF Spec

\* The variables keep their types, whatever the prompts and the capacities, and
\* the worker holds a prompt exactly while it handles one.
THEOREM TypeCorrect == Spec => []TypeOK
<1>1. IInv => TypeOK
    BY DEF IInv
<1>. QED
    BY <1>1, Invariance, PTL

\* At most one goroutine is between Lock and Unlock of queueMu in enqueue, and
\* none is once the worker drains the queue in shutdownWorker.
THEOREM MutualExclusion == Spec => []Exclusion
<1>1. IInv => Exclusion
  <2>. SUFFICES ASSUME IInv PROVE Exclusion
      OBVIOUS
  <2>1. MutexInv /\ (\A p \in Prompts : p # Worker)
      BY NamesAssumption DEF IInv
  <2>. QED
      BY <2>1 DEF MutexInv, Exclusion
<1>. QED
    BY <1>1, Invariance, PTL

\* No prompt that enqueue accepted is ever lost, and none is handled twice.
THEOREM NothingIsLost == Spec => []OnePlace
<1>1. IInv => OnePlace
    BY DEF IInv, PlaceInv, OnePlace
<1>. QED
    BY <1>1, Invariance, PTL

\* Once shutdownWorker has drained the queue, every accepted prompt is answered.
THEOREM DrainSettlesAll == Spec => []DrainIsFinal
<1>1. IInv => DrainIsFinal
  <2>. SUFFICES ASSUME IInv, wpc \in {"finish", "stopped"}, NEW p \in Prompts, Accepted(p)
                PROVE  queue = <<>> /\ result[p] # "none"
      BY DEF DrainIsFinal, IInv, DrainedInv
  <2>1. queue = <<>>
      BY DEF IInv, DrainedInv
  <2>2. ~Queued(p)
      BY <2>1 DEF Queued, Contains
  <2>3. cur # p
      BY NamesAssumption DEF IInv, TypeOK, WorkerOK, Unoccupied
  <2>. QED
      BY <2>1, <2>2, <2>3 DEF IInv, PlaceInv
<1>. QED
    BY <1>1, Invariance, PTL

\* A prompt that slips into the queue after Close is never run.
THEOREM LateWorkIsNotRun == Spec => []LateNeverRuns
<1>1. IInv => LateNeverRuns
  <2>. SUFFICES ASSUME IInv, NEW p \in late
                PROVE  result[p] \in {"none", "closed"} /\ ~Recorded(p)
      BY DEF LateNeverRuns
  <2>1. p \in Prompts
      BY DEF IInv, TypeOK, CallersOK
  <2>2. result[p] \in {"none", "closed"} /\ (cur = p => wpc = "recheck")
      BY DEF IInv, LateInv
  <2>. QED
      BY <2>1, <2>2 DEF IInv, RecordInv, TranscriptMatchesRuns, PastSeed
<1>. QED
    BY <1>1, Invariance, PTL

\* The worker never sends to a stream that has been closed.
THEOREM NoSendOnClosed == Spec => []NoPanic
<1>1. IInv => NoPanic
    BY DEF IInv, StreamInv
<1>. QED
    BY <1>1, Invariance, PTL

\* The transcript holds the seed of every prompt that ran, once, and no other.
THEOREM TranscriptIsExact == Spec => []TranscriptMatchesRuns
<1>1. IInv => TranscriptMatchesRuns
    BY DEF IInv, RecordInv
<1>. QED
    BY <1>1, Invariance, PTL

\* An Abort cancels the run that was active when it was called, and no other.
THEOREM AbortHitsItsRun == Spec => []NoStrayCancel
<1>1. IInv => NoStrayCancel
    BY DEF IInv, CancelInv
<1>. QED
    BY <1>1, Invariance, PTL

\* A run's stream carries its own events only, AgentStart first and AgentEnd
\* last, whichever runs came before it and however its consumer lags behind.
THEOREM StreamsAreOwn == Spec => []StreamIsItsOwn
<1>1. IInv => StreamIsItsOwn
  <2>. SUFFICES ASSUME IInv PROVE StreamIsItsOwn
      OBVIOUS
  <2>1. ASSUME NEW p \in Prompts, NEW all, all = Due(p), NEW i \in DOMAIN all
        PROVE  /\ all[i].run = p
               /\ all[i].kind = (IF i = 1 THEN "AgentStart" ELSE "AgentEnd")
               /\ i <= 2
    <3>1. all = <<>> \/ all = <<Start(p)>> \/ all = <<Start(p), End(p)>>
        BY <2>1 DEF Due
    <3>. QED
        BY <3>1, <2>1 DEF Start, End
  <2>2. \A p \in Prompts : got[p] \o buf[p] = Due(p)
      BY DEF IInv, EventsInv, Sent
  <2>. QED
      BY <2>1, <2>2, Zenon DEF StreamIsItsOwn
<1>. QED
    BY <1>1, Invariance, PTL

\* What the consumer of a stream has read when its range loop ends is the whole
\* of a run that ran, and nothing of one that was dropped, refused or closed.
THEOREM StreamsAreComplete == Spec => []StreamIsComplete
<1>1. IInv => StreamIsComplete
  <2>. SUFFICES ASSUME IInv, NEW p \in Prompts, Kind[p] = "stream", client[p] = "returned"
                PROVE  Len(got[p]) = IF result[p] = "ran" THEN 2 ELSE 0
      BY DEF StreamIsComplete
  <2>1. buf[p] = <<>> /\ result[p] # "none" /\ got[p] \o buf[p] = Due(p)
      BY DEF IInv, EventsInv, Sent
  <2>2. got[p] \in Seq(EventSet)
      BY DEF IInv, TypeOK, ChannelsOK
  <2>3. got[p] = Due(p)
      BY <2>1, <2>2
  <2>4. cur # p
      BY <2>1 DEF IInv, PlaceInv
  <2>5. Due(p) = IF result[p] = "ran" THEN <<Start(p), End(p)>> ELSE <<>>
      BY <2>4 DEF Due
  <2>. QED
      BY <2>3, <2>5
<1>. QED
    BY <1>1, Invariance, PTL

\* What SettledOnce says of one step.
SettledBetween ==
    \A p \in Prompts :
        /\ result[p] # "none" => result'[p] = result[p]
        /\ wpc \in Running /\ cur = p => result'[p] # "closed"

\* A step answers a prompt at most once, and never with "closed" once its run
\* has begun.
LEMMA SettledStep ==
    TypeOK /\ PlaceInv /\ OutcomeInv /\ [Next]_vars => SettledBetween
<1>. SUFFICES ASSUME TypeOK, PlaceInv, OutcomeInv, [Next]_vars
             PROVE  SettledBetween
    OBVIOUS
<1>. USE NamesAssumption DEF TypeOK, AdmissionOK, WorkerOK, WorkerStates,
         Unoccupied, Results, PlaceInv, OutcomeInv, Running, SettledBetween
<1>1. CASE Recheck
    BY <1>1 DEF Recheck, Complete, callers, admission, cancels, channels
<1>2. CASE Settle
    BY <1>2 DEF Settle, WorkerGoes, Complete, callers, admission, cancels
<1>3. CASE Drain
  <2>1. Head(queue) \in Prompts /\ result[Head(queue)] = "none"
    BY <1>3 DEF Drain, Queued, Contains
  <2>. QED
    BY <1>3, <2>1 DEF Drain, WorkerGoes, Complete
<1>4. CASE UNCHANGED result
    BY <1>4
<1>5. ASSUME NEW p \in Prompts, Submit(p) \/ Admit(p) \/ Offer(p) \/
            Withdraw(p) \/ ExecuteReturns(p) \/ Consume(p) \/ StreamReturns(p)
            \/ CallerCancels(p) \/ WatcherFires(p) \/ WatcherStops(p)
      PROVE  SettledBetween
    BY <1>4, <1>5 DEF Submit, admission, worker, cancels, channels, Admit,
        Offer, AfterEnqueue, Withdraw, ExecuteReturns, Consume, callers,
        StreamReturns, CallerCancels, WatcherFires, WatcherStops
<1>6. CASE AbortRead \/ AbortFire \/ CloseSignal \/ CloseGate \/ Subscribe \/
          ReadEvents \/ TakeClosed \/ Dequeue \/ Register \/ SpawnWatcher \/
          Check \/ Announce \/ Seed \/ TurnsOver \/ Final \/ Unregister \/
          Release \/ Shutdown \/ Drained \/ FinishEvents \/ Resting \/
          UNCHANGED vars
    BY <1>4, <1>6 DEF AbortRead, callers, admission, worker, channels,
        AbortFire, CloseSignal, cancels, CloseGate, Subscribe, ReadEvents,
        TakeClosed, WorkerGoes, Dequeue, Register, SetActiveRun, SpawnWatcher, Check,
        Announce, Emit, Seed, TurnsOver, Final, Unregister, Release, Shutdown,
        Drained, FinishEvents, Resting, vars
<1>. QED
    BY <1>1, <1>2, <1>3, <1>4, <1>5, <1>6 DEF Next, Caller, WorkerStep

\* The first answer a prompt gets is the only one, and work that began is not
\* answered with the error for work Close refused.
THEOREM AnswersAreFinal == Spec => SettledOnce
<1>1. IInv /\ [Next]_vars => [SettledBetween]_vars
    BY SettledStep DEF IInv
<1>2. Spec => [][SettledBetween]_vars
    BY <1>1, Invariance, PTL DEF Spec
<1>. QED
    BY <1>2 DEF SettledOnce, SettledBetween

-----------------------------------------------------------------------------
(* A Droid implements PromptService: every step is one of the service, or   *)
(* changes nothing of it.                                                   *)

\* The head of a sequence before its tail is the sequence.
LEMMA HeadBeforeTail ==
    ASSUME NEW S, NEW s \in Seq(S), s # <<>>
    PROVE  <<Head(s)>> \o Tail(s) = s
    OBVIOUS

\* A prefixed element is the head, and the rest the tail.
LEMMA TailOfPrefixed ==
    ASSUME NEW S, NEW s \in Seq(S), NEW e \in S
    PROVE  LET t == <<e>> \o s IN t # <<>> /\ Head(t) = e /\ Tail(t) = s
    OBVIOUS

\* What moves no prompt, pending or worker of the abstract service is a stutter.
LEMMA Unmoved ==
    ASSUME \A p \in Prompts : PhaseOf(p)' = PhaseOf(p),
           Pending' = Pending, Shut' = Shut
    PROVE  UNCHANGED Service!vars
    BY DEF Service!vars, Phase

\* What moves one prompt only is an update of the phases.
LEMMA Moved ==
    ASSUME NEW p \in Prompts, NEW ph, PhaseOf(p)' = ph,
           \A q \in Prompts : q # p => PhaseOf(q)' = PhaseOf(q)
    PROVE  Phase' = [Phase EXCEPT ![p] = ph]
    BY DEF Phase

\* A prompt is running in the service exactly while the worker runs it.
LEMMA RunsInHand ==
    ASSUME TypeOK, PlaceInv
    PROVE  /\ \A p \in Prompts : Phase[p] = "running" <=> cur = p /\ ~InHand
           /\ Service!Idle <=> cur = None \/ InHand
<1>1. \A p \in Prompts : Phase[p] = "running" <=> cur = p /\ ~InHand
    BY DEF Phase, PhaseOf, PlaceInv, Accepted, Submitting
<1>2. cur \in Prompts \cup {None}
    BY DEF TypeOK, WorkerOK
<1>. QED
    BY <1>1, <1>2, NamesAssumption DEF Service!Idle

\* A step of the callers, of Abort or of the watchers that neither admits nor
\* refuses a prompt is no step of the service.
LEMMA OthersStutter ==
    ASSUME UNCHANGED <<admission, worker>>,
           \A p \in Prompts :
               \/ client'[p] = client[p]
               \/ client[p] \in Submitting /\ client'[p] \in Submitting
               \/ Accepted(p) /\ Accepted(p)'
    PROVE  UNCHANGED Service!vars
<1>1. \A p \in Prompts : PhaseOf(p)' = PhaseOf(p)
    BY DEF PhaseOf, InHand, admission, worker, Accepted, Submitting
<1>2. Pending' = Pending /\ Shut' = Shut
    BY DEF Pending, Shut, InHand, admission, worker
<1>. QED
    BY <1>1, <1>2, Unmoved

\* enqueue gives up, for whatever reason.
LEMMA RefusalRefines ==
    ASSUME NEW p \in Prompts, client[p] \in Submitting,
           \A q \in Prompts : client'[q] = IF q = p THEN "refused" ELSE client[q],
           UNCHANGED <<worker, closed, queue>>
    PROVE  Service!Refuse(p)
<1>1. PhaseOf(p) = "new" /\ PhaseOf(p)' = "refused"
  <2>1. client'[p] = "refused" /\ "refused" \notin Submitting
      BY DEF Submitting
  <2>. QED
      BY <2>1, Zenon DEF PhaseOf
<1>2. \A q \in Prompts : q # p => PhaseOf(q)' = PhaseOf(q)
    BY DEF PhaseOf, InHand, worker
<1>3. Pending' = Pending /\ Shut' = Shut
    BY DEF Pending, Shut, InHand, worker
<1>. QED
    BY <1>1, <1>2, <1>3, Moved DEF Service!Refuse, Phase

\* A call of Prompt that finds its context done is refused, others do not show yet.
LEMMA SubmitRefines ==
    ASSUME TypeOK, NEW p \in Prompts, Submit(p)
    PROVE  Service!Refuse(p) \/ UNCHANGED Service!vars
<1>. USE DEF TypeOK, CallersOK
<1>1. CASE p \in ctxDone
    BY <1>1, RefusalRefines DEF Submit, admission, Submitting
<1>2. CASE p \notin ctxDone
    BY <1>2, OthersStutter DEF Submit, Submitting
<1>. QED
    BY <1>1, <1>2

\* So is one that finds admission closed,
LEMMA AdmitRefines ==
    ASSUME TypeOK, NEW p \in Prompts, Admit(p)
    PROVE  Service!Refuse(p) \/ UNCHANGED Service!vars
<1>. USE DEF TypeOK, CallersOK
<1>1. CASE ~accepting
    BY <1>1, RefusalRefines DEF Admit, Submitting
<1>2. CASE accepting
  <2>1. \A q \in Prompts : PhaseOf(q)' = PhaseOf(q)
      BY <1>2 DEF Admit, PhaseOf, InHand, worker, Submitting
  <2>2. Pending' = Pending /\ Shut' = Shut
      BY <1>2 DEF Admit, Pending, Shut, InHand, worker
  <2>. QED
      BY <2>1, <2>2, Unmoved
<1>. QED
    BY <1>1, <1>2

\* The send on the queue is the moment of acceptance; the mutex that its caller
\* holds keeps the worker from finishing meanwhile.
LEMMA OfferRefines ==
    ASSUME TypeOK, MutexInv, PlaceInv, NEW p \in Prompts, Offer(p)
    PROVE  Service!Accept(p)
<1>1. PhaseOf(p) = "new"
  <2>1. client[p] \in Submitting
      BY DEF Offer, Submitting
  <2>. QED
      BY <2>1, Zenon DEF PhaseOf
<1>2. result[p] = "none" /\ cur # p
    BY DEF Offer, PlaceInv, Accepted
<1>3. client'[p] \in {"waiting", "draining", "returned"}
      /\ \A q \in Prompts : q # p => client'[q] = client[q]
    BY DEF Offer, AfterEnqueue, TypeOK, CallersOK
<1>4. UNCHANGED <<wpc, cur, result, closed>> /\ queue' = Append(queue, p)
    BY DEF Offer, worker
<1>5. PhaseOf(p)' = "pending"
    BY <1>2, <1>3, <1>4 DEF PhaseOf, Submitting
<1>6. \A q \in Prompts : q # p => PhaseOf(q)' = PhaseOf(q)
    BY <1>3, <1>4 DEF PhaseOf, InHand
<1>7. Pending' = Append(Pending, p)
  <2>1. CASE InHand
    <3>1. cur \in Prompts /\ queue \in Seq(Prompts) /\ InHand'
        BY <1>4, <2>1 DEF InHand, TypeOK, WorkerOK, AdmissionOK
    <3>2. \A u, v \in Seq(Prompts) : u \o Append(v, p) = Append(u \o v, p)
        BY SentIsLast
    <3>3. <<cur>> \in Seq(Prompts)
        BY <3>1
    <3>. QED
        BY <1>4, <2>1, <3>1, <3>2, <3>3 DEF Pending
  <2>2. CASE ~InHand
      BY <1>4, <2>2 DEF Pending, InHand
  <2>. QED
      BY <2>1, <2>2
<1>8. Shut # "closed" /\ Shut' = Shut
  <2>1. wpc \notin {"finish", "stopped"}
      BY DEF Offer, MutexInv
  <2>. QED
      BY <1>4, <2>1 DEF Shut
<1>9. Phase[p] = "new" /\ Phase' = [Phase EXCEPT ![p] = "pending"]
    BY <1>1, <1>5, <1>6, Moved DEF Phase
<1>. QED
    BY <1>7, <1>8, <1>9 DEF Service!Accept

\* and one whose context ends while it waits for a place in the queue.
LEMMA WithdrawRefines ==
    ASSUME TypeOK, NEW p \in Prompts, Withdraw(p)
    PROVE  Service!Refuse(p)
    BY RefusalRefines DEF Withdraw, Submitting, TypeOK, CallersOK

\* Close is taken notice of the moment its channel is closed.
LEMMA CloseRefines ==
    ASSUME GateInv, CloseSignal
    PROVE  Service!BeginClose
<1>1. Shut = "open" /\ Shut' = "closing"
    BY DEF CloseSignal, GateInv, Shut, worker
<1>2. \A p \in Prompts : PhaseOf(p)' = PhaseOf(p)
    BY DEF CloseSignal, PhaseOf, InHand, worker, callers
<1>3. Pending' = Pending
    BY DEF CloseSignal, Pending, InHand, worker
<1>. QED
    BY <1>1, <1>2, <1>3 DEF Service!BeginClose, Phase

\* The prompt the worker took from the queue is still the oldest pending one.
LEMMA DequeueRefines ==
    ASSUME TypeOK, PlaceInv, Dequeue
    PROVE  UNCHANGED Service!vars
<1>. DEFINE h == Head(queue)
<1>1. cur = None /\ queue \in Seq(Prompts) /\ queue # <<>> /\ wpc = "select"
    BY DEF Dequeue, WorkerGoes, TypeOK, WorkerOK, Unoccupied, AdmissionOK
<1>2. h \in Prompts /\ Queued(h)
    BY <1>1 DEF Queued, Contains
<1>3. cur' = h /\ queue' = Tail(queue) /\ wpc' = "recheck" /\ h # None
      /\ UNCHANGED <<client, result, closed>>
    BY <1>2, NamesAssumption DEF Dequeue, WorkerGoes, callers
<1>. HIDE DEF h
<1>4. \A p \in Prompts : PhaseOf(p)' = PhaseOf(p)
    BY <1>1, <1>3, NamesAssumption DEF PhaseOf, InHand
<1>5. Pending' = Pending
  <2>1. <<h>> \o Tail(queue) = queue
      BY <1>1, HeadBeforeTail DEF h
  <2>. QED
      BY <1>1, <1>3, <2>1 DEF Pending, InHand
<1>6. Shut' = Shut
    BY <1>1, <1>3 DEF Shut
<1>. QED
    BY <1>4, <1>5, <1>6, Unmoved

\* At the second look at d.closed a prompt begins or is discarded.
LEMMA RecheckRefines ==
    ASSUME TypeOK, PlaceInv, Recheck
    PROVE  Service!Begin \/ Service!Discard
<1>1. wpc = "recheck" /\ cur \in Prompts /\ cur # None /\ InHand
      /\ queue \in Seq(Prompts) /\ UNCHANGED <<client, closed, queue>>
    BY NamesAssumption
       DEF Recheck, TypeOK, WorkerOK, AdmissionOK, Unoccupied, InHand, callers, admission
<1>2. PICK p \in Prompts : p = cur
    BY <1>1
<1>3. client[p] \notin Submitting /\ client[p] # "refused" /\ result[p] = "none"
    BY <1>2 DEF PlaceInv, Accepted, Submitting
<1>4. Pending # <<>> /\ Head(Pending) = p /\ Tail(Pending) = queue
  <2>1. \A e \in Prompts : LET t == <<e>> \o queue IN t # <<>> /\ Head(t) = e /\ Tail(t) = queue
      BY <1>1, TailOfPrefixed
  <2>. QED
      BY <1>1, <1>2, <2>1 DEF Pending
<1>5. Service!Idle
    BY <1>1, RunsInHand
<1>6. CASE closed
  <2>1. wpc' = "shutdown" /\ cur' = None /\ result' = [result EXCEPT ![p] = "closed"]
      BY <1>2, <1>3, <1>6 DEF Recheck, Complete
  <2>2. PhaseOf(p)' = "discarded"
    <3>1. client'[p] = client[p] /\ result'[p] = "closed"
        BY <1>1, <2>1 DEF TypeOK, WorkerOK
    <3>. QED
        BY <1>3, <3>1 DEF PhaseOf
  <2>3. \A q \in Prompts : q # p => PhaseOf(q)' = PhaseOf(q)
    <3>1. \A q \in Prompts : q # p => q # cur /\ q # cur' /\ result'[q] = result[q]
        BY <1>2, <2>1, NamesAssumption DEF TypeOK, WorkerOK
    <3>. QED
        BY <1>1, <3>1 DEF PhaseOf
  <2>4. Pending' = queue /\ Shut = "closing" /\ Shut' = Shut
      BY <1>1, <1>6, <2>1 DEF Pending, Shut, InHand
  <2>5. Phase' = [Phase EXCEPT ![p] = "discarded"]
      BY <2>2, <2>3, Moved
  <2>. QED
      BY <1>4, <1>5, <2>4, <2>5 DEF Service!Discard
<1>7. CASE ~closed
  <2>1. wpc' = "register" /\ UNCHANGED <<cur, result>>
      BY <1>7 DEF Recheck
  <2>2. PhaseOf(p)' = "running"
      BY <1>1, <1>2, <1>3, <2>1 DEF PhaseOf, InHand
  <2>3. \A q \in Prompts : q # p => PhaseOf(q)' = PhaseOf(q)
      BY <1>1, <1>2, <2>1 DEF PhaseOf
  <2>4. Pending' = queue /\ Shut = "open" /\ Shut' = Shut
      BY <1>1, <1>7, <2>1 DEF Pending, Shut, InHand
  <2>5. Phase' = [Phase EXCEPT ![p] = "running"]
      BY <2>2, <2>3, Moved
  <2>. QED
      BY <1>4, <1>5, <2>4, <2>5 DEF Service!Begin
<1>. QED
    BY <1>6, <1>7

\* Settling the prompt in hand finishes it.
LEMMA SettleRefines ==
    ASSUME TypeOK, PlaceInv, OutcomeInv, Settle
    PROVE  \E p \in Prompts : Service!Finish(p)
<1>1. wpc = "settle" /\ wpc' = "select" /\ cur \in Prompts /\ cur' = None
      /\ outcome \in {"dropped", "invalid", "ran"}
      /\ UNCHANGED <<client, closed, queue>>
    BY NamesAssumption DEF Settle, WorkerGoes, TypeOK, WorkerOK, Unoccupied, OutcomeInv,
       callers, admission
<1>2. PICK p \in Prompts : p = cur
    BY <1>1
<1>3. client[p] \notin Submitting /\ client[p] # "refused" /\ result[p] = "none"
    BY <1>2 DEF PlaceInv, Accepted, Submitting
<1>4. result' = [result EXCEPT ![p] = outcome]
    BY <1>2, <1>3 DEF Settle, Complete
<1>5. PhaseOf(p) = "running"
    BY <1>1, <1>2, <1>3 DEF PhaseOf, InHand
<1>6. PhaseOf(p)' = "done"
  <2>1. client'[p] = client[p] /\ result'[p] \notin {"none", "closed"}
      BY <1>1, <1>4 DEF TypeOK, WorkerOK
  <2>. QED
      BY <1>3, <2>1 DEF PhaseOf
<1>7. \A q \in Prompts : q # p => PhaseOf(q)' = PhaseOf(q)
  <2>1. \A q \in Prompts : q # p => q # cur /\ q # cur' /\ result'[q] = result[q]
      BY <1>1, <1>2, <1>4, NamesAssumption DEF TypeOK, WorkerOK
  <2>. QED
      BY <1>1, <2>1 DEF PhaseOf
<1>8. Pending' = Pending /\ Shut' = Shut
    BY <1>1 DEF Pending, Shut, InHand
<1>9. Phase[p] = "running" /\ Phase' = [Phase EXCEPT ![p] = "done"]
    BY <1>5, <1>6, <1>7, Moved DEF Phase
<1>. QED
    BY <1>8, <1>9 DEF Service!Finish

\* What shutdownWorker takes from the queue is discarded.
LEMMA DrainRefines ==
    ASSUME TypeOK, GateInv, PlaceInv, Drain
    PROVE  Service!Discard
<1>1. wpc = "drain" /\ wpc' = "drain" /\ cur = None /\ cur' = None /\ closed
      /\ queue \in Seq(Prompts) /\ queue # <<>> /\ queue' = Tail(queue)
      /\ UNCHANGED <<client, closed>>
    BY DEF Drain, WorkerGoes, TypeOK, WorkerOK, Unoccupied, AdmissionOK, GateInv, callers
<1>2. PICK p \in Prompts : p = Head(queue)
    BY <1>1
<1>3. Accepted(p) /\ result[p] = "none"
    BY <1>1, <1>2 DEF PlaceInv, Queued, Contains
<1>4. client[p] \notin Submitting /\ client[p] # "refused"
    BY <1>3 DEF Accepted, Submitting
<1>5. result' = [result EXCEPT ![p] = "closed"]
    BY <1>2, <1>3 DEF Drain, Complete
<1>6. PhaseOf(p)' = "discarded"
  <2>1. client'[p] = client[p] /\ result'[p] = "closed"
      BY <1>1, <1>5 DEF TypeOK, WorkerOK
  <2>. QED
      BY <1>4, <2>1 DEF PhaseOf
<1>7. \A q \in Prompts : q # p => PhaseOf(q)' = PhaseOf(q)
  <2>1. \A q \in Prompts : q # p => result'[q] = result[q]
      BY <1>5 DEF TypeOK, WorkerOK
  <2>. QED
      BY <1>1, <2>1, NamesAssumption DEF PhaseOf
<1>8. Pending = queue /\ Pending' = Tail(queue) /\ Shut = "closing" /\ Shut' = Shut
    BY <1>1 DEF Pending, Shut, InHand
<1>9. Service!Idle
    BY <1>1, RunsInHand
<1>10. Phase' = [Phase EXCEPT ![p] = "discarded"]
    BY <1>6, <1>7, Moved
<1>. QED
    BY <1>1, <1>2, <1>8, <1>9, <1>10 DEF Service!Discard

\* The service is closed once the worker has found its queue empty.
LEMMA DrainedRefines ==
    ASSUME TypeOK, GateInv, PlaceInv, Drained
    PROVE  Service!Halt
<1>1. wpc = "drain" /\ wpc' = "finish" /\ cur = None /\ closed /\ queue = <<>>
      /\ UNCHANGED <<client, closed, cur, result, queue>>
    BY DEF Drained, WorkerGoes, TypeOK, WorkerOK, Unoccupied, GateInv, callers
<1>2. \A p \in Prompts : PhaseOf(p)' = PhaseOf(p)
    BY <1>1, NamesAssumption DEF PhaseOf
<1>3. Pending = <<>> /\ Pending' = Pending /\ Shut = "closing" /\ Shut' = "closed"
    BY <1>1 DEF Pending, Shut, InHand
<1>4. Service!Idle
    BY <1>1, RunsInHand
<1>. QED
    BY <1>2, <1>3, <1>4 DEF Service!Halt, Phase

\* From setting up a run to its clean-up the worker stays with its prompt.
LEMMA RunStutters ==
    ASSUME UNCHANGED <<client, result, cur, closed, queue>>,
           wpc # "recheck", wpc' # "recheck",
           wpc \in {"finish", "stopped"} <=> wpc' \in {"finish", "stopped"}
    PROVE  UNCHANGED Service!vars
<1>1. \A p \in Prompts : PhaseOf(p)' = PhaseOf(p)
    BY DEF PhaseOf, InHand
<1>2. Pending' = Pending /\ Shut' = Shut
    BY DEF Pending, Shut, InHand
<1>. QED
    BY <1>1, <1>2, Unmoved

\* Each step of the session is a step of the abstract service, or a stutter.
LEMMA ServiceStep == IInv /\ [Next]_vars => [Service!Next]_(Service!vars)
<1>. SUFFICES ASSUME IInv, [Next]_vars
             PROVE  Service!Next \/ UNCHANGED Service!vars
    OBVIOUS
<1>. USE DEF IInv, Service!Next
<1>1. ASSUME NEW p \in Prompts, Submit(p) \/ Admit(p) \/ Offer(p) \/ Withdraw(p)
      PROVE  Service!Next \/ UNCHANGED Service!vars
    BY <1>1, SubmitRefines, AdmitRefines, OfferRefines, WithdrawRefines
<1>2. ASSUME NEW p \in Prompts, ExecuteReturns(p) \/ Consume(p) \/ StreamReturns(p)
            \/ CallerCancels(p) \/ WatcherFires(p) \/ WatcherStops(p)
      PROVE  UNCHANGED Service!vars
  <2>1. UNCHANGED <<admission, worker>>
      BY <1>2 DEF ExecuteReturns, Consume, StreamReturns, CallerCancels,
          WatcherFires, WatcherStops
  <2>2. \A q \in Prompts : client'[q] = client[q] \/ (Accepted(q) /\ Accepted(q)')
      BY <1>2 DEF ExecuteReturns, Consume, StreamReturns, CallerCancels, WatcherFires,
          WatcherStops, callers, Accepted, TypeOK, CallersOK
  <2>. QED
      BY <2>1, <2>2, OthersStutter
<1>3. CASE AbortRead \/ AbortFire \/ Subscribe \/ ReadEvents \/ Resting \/ UNCHANGED vars
  <2>1. UNCHANGED <<admission, worker>> /\ client' = client
      BY <1>3 DEF AbortRead, AbortFire, Subscribe, ReadEvents, Resting, vars, callers
  <2>. QED
      BY <2>1, OthersStutter
<1>4. CASE CloseSignal \/ Recheck \/ Settle \/ Drain \/ Drained \/ Dequeue
    BY <1>4, CloseRefines, RecheckRefines, SettleRefines, DrainRefines, DrainedRefines,
       DequeueRefines
<1>5. CASE CloseGate \/ TakeClosed \/ Register \/ SpawnWatcher \/ Check \/ Seed \/ TurnsOver
            \/ Unregister \/ Release \/ Shutdown \/ FinishEvents
  <2>1. CASE CloseGate
    <3>1. UNCHANGED <<client, result, cur, closed, queue, wpc>>
        BY <2>1 DEF CloseGate, callers, worker
    <3>2. /\ \A p \in Prompts : PhaseOf(p)' = PhaseOf(p)
          /\ Pending' = Pending /\ Shut' = Shut
        BY <3>1 DEF PhaseOf, Pending, Shut, InHand
    <3>. QED
        BY <3>2, Unmoved
  <2>2. CASE TakeClosed \/ Register \/ SpawnWatcher \/ Check \/ Seed \/ TurnsOver
              \/ Unregister \/ Release \/ Shutdown \/ FinishEvents
    <3>1. /\ UNCHANGED <<client, result, cur, closed, queue>>
          /\ wpc # "recheck" /\ wpc' # "recheck"
          /\ wpc \in {"finish", "stopped"} <=> wpc' \in {"finish", "stopped"}
        BY <2>2 DEF TakeClosed, Register, SetActiveRun, SpawnWatcher, Check, Seed, TurnsOver,
               Unregister, Release, Shutdown, FinishEvents, WorkerGoes, callers, admission
    <3>. QED
        BY <3>1, RunStutters
  <2>. QED
      BY <1>5, <2>1, <2>2
<1>6. CASE Announce \/ Final
  <2>1. UNCHANGED <<client, result, cur, closed, queue>> /\ wpc \in {"announce", "final"}
      BY <1>6 DEF Announce, Final, callers, admission
  <2>2. wpc' \in {"seed", "unregister", "panicked"}
      BY <1>6 DEF Announce, Final, Emit
  <2>. QED
      BY <2>1, <2>2, RunStutters
<1>. QED
    BY <1>1, <1>2, <1>3, <1>4, <1>5, <1>6 DEF Next, Caller, WorkerStep

\* The session starts as the service does.
LEMMA ServiceInit == Init => Service!Init
    BY DEF Init, Service!Init, Phase, PhaseOf, Submitting, Pending, Shut, InHand

\* A Droid, with its mutex, channels and goroutines, is a service that accepts or
\* refuses prompts, runs the accepted ones one at a time in the order they were
\* accepted, and on Close lets the one in progress end and discards the others.
THEOREM Implementation == Spec => ImplementsService
<1>1. Spec => []IInv
    BY Invariance
<1>. QED
    BY <1>1, ServiceInit, ServiceStep, PTL DEF Spec, ImplementsService, Service!Spec

=============================================================================
