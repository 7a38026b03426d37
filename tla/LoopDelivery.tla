---------------------------- MODULE LoopDelivery ----------------------------
(***************************************************************************)
(* The loop of AgentLoop.tla when its events go to a channel somebody has  *)
(* to read: the run's own stream (agentRun.emit in run.go) or the session's *)
(* (Droid.emit in droid.go).  A send on a full channel waits for the       *)
(* reader, and no context ends that wait; on the session's channel Close   *)
(* does, which is DroidSession.tla.                                        *)
(*                                                                         *)
(* How much the channel holds is abstracted to whether it is full: a send  *)
(* may leave it either way.  A step that sends several events waits once.  *)
(***************************************************************************)
EXTENDS AgentLoop

VARIABLE full       \* the channel of the run's events has no room

deliveryVars == <<vars, full>>

DeliveryInit == Init /\ full = FALSE

\* The first step of a normal run whose steering queue is empty sends nothing.
NothingToAnnounce == kind = "normal" /\ steering = <<>>

\* What the worker and its goroutines do without an event.
Silent ==
    /\ \/ Request \/ Join
       \/ NothingToAnnounce /\ StepFirst
       \/ \E i \in DOMAIN tool : Acquire(i)
    /\ UNCHANGED full

\* A send: it waits for room, and may take the last of it.
Sent == ~full /\ full' \in BOOLEAN

Announce ==
    /\ Sent
    /\ \/ StepAborts \/ StepLater \/ Weigh \/ Finalize \/ BatchEnd
       \/ ~NothingToAnnounce /\ StepFirst

Starting == Sent /\ (StartRun("normal") \/ StartRun("continuation"))

\* The answers of the application and the provider all end in events.
AnswerSent == Sent /\ Answer

\* Whoever ranges over the channel takes an event from it.
ReadEvent ==
    /\ full
    /\ full' = FALSE
    /\ UNCHANGED vars

\* Cancelling, steering and a refused continuation have no events either.
Others == (RefuseContinuation \/ Cancel \/ Steer) /\ UNCHANGED full

Reborn == Restart /\ full' = FALSE

DeliveryNext ==
    \/ Silent \/ Announce \/ Starting \/ AnswerSent
    \/ Sent /\ StreamStarts
    \/ ReadEvent \/ Others \/ Reborn

DeliverySpec == DeliveryInit /\ [][DeliveryNext]_deliveryVars

(***************************************************************************)
(* Fairness.  The worker goroutine and the goroutines of a batch are       *)
(* scheduled; the semaphore is a channel of which each goroutine takes one *)
(* place once.  Providers, tools and hooks are only assumed to come to an  *)
(* end after the context they were given is cancelled.  That the events    *)
(* are read is the contract run.go states ("must be consumed               *)
(* continuously"), not something the code sees to.                         *)
(***************************************************************************)
FairDelivery ==
    /\ DeliverySpec
    /\ WF_deliveryVars(Silent \/ Announce)
    /\ WF_deliveryVars(ctxDone /\ AnswerSent)
    /\ WF_deliveryVars(ReadEvent)

\* A cancelled run ends, wherever it stands: in its stream, its compaction hook,
\* its tools one by one or side by side, or in the middle of a send, as long as
\* somebody goes on reading its events.
CancelledRunEnds == ctxDone /\ pc # "idle" ~> pc = "idle"

=============================================================================
