----------------------------- MODULE RunEvents -----------------------------
(***************************************************************************)
(* The events of one run as a consumer of Droid.Events or Run.Events reads *)
(* them (event.go).  An event is a record of its kind and, where it has    *)
(* one, the call it is about; texts and usage figures are left out, and    *)
(* MessageDelta, which the loop only sends between the MessageStart and    *)
(* the MessageEnd of an assistant message, is left out with them.          *)
(***************************************************************************)
EXTENDS Naturals, Sequences

Event(kind) == [kind |-> kind, of |-> 0]
CallEvent(kind, i) == [kind |-> kind, of |-> i]

\* What a reader knows after the events so far.
View ==
    [agent : {"unstarted", "started", "ended"},
     turn : BOOLEAN,                \* inside TurnStart .. TurnEnd
     message : BOOLEAN,             \* inside MessageStart .. MessageEnd
     compaction : BOOLEAN,          \* inside CompactionStart .. CompactionEnd
     tools : SUBSET Nat,            \* calls started and not ended
     failure : {"none", "failed", "aborted"},
     compactions : Nat,             \* CompactionStart events so far
     broken : BOOLEAN]              \* some event came where it must not

FreshView ==
    [agent |-> "unstarted", turn |-> FALSE, message |-> FALSE, compaction |-> FALSE,
     tools |-> {}, failure |-> "none", compactions |-> 0, broken |-> FALSE]

\* Between two messages, outside a compaction, with no tool running.
Quiet(v) == ~v.message /\ ~v.compaction /\ v.tools = {}

\* Where an event may come in the order loop.go sends them.  The list at the head
\* of event.go is stricter in two places: here a message may come outside a turn, as
\* the seed and the first steering do, and AgentEnd follows an ErrorEvent.
InPlace(v, e) ==
    IF e.kind = "AgentStart" THEN v.agent = "unstarted"
    ELSE
    /\ v.agent = "started"
    /\ v.failure = "none" \/ e.kind = "AgentEnd"
    /\ CASE e.kind = "TurnStart"          -> Quiet(v) /\ ~v.turn
         [] e.kind = "TurnEnd"            -> Quiet(v) /\ v.turn
         [] e.kind = "MessageStart"       -> Quiet(v)
         [] e.kind = "MessageEnd"         -> v.message
         [] e.kind = "CompactionStart"    -> Quiet(v) /\ ~v.turn
         [] e.kind = "CompactionEnd"      -> v.compaction
         [] e.kind = "ToolExecutionStart" ->
                v.turn /\ ~v.message /\ ~v.compaction /\ e.of \notin v.tools
         [] e.kind = "ToolExecutionEnd"   -> e.of \in v.tools
         [] e.kind \in {"ErrorEvent", "AbortedErrorEvent", "AgentEnd"} ->
                Quiet(v) /\ ~v.turn

Read(v, e) ==
    LET seen ==
        CASE e.kind = "AgentStart"         -> [v EXCEPT !.agent = "started"]
          [] e.kind = "TurnStart"          -> [v EXCEPT !.turn = TRUE]
          [] e.kind = "TurnEnd"            -> [v EXCEPT !.turn = FALSE]
          [] e.kind = "MessageStart"       -> [v EXCEPT !.message = TRUE]
          [] e.kind = "MessageEnd"         -> [v EXCEPT !.message = FALSE]
          [] e.kind = "CompactionStart"    ->
                [v EXCEPT !.compaction = TRUE, !.compactions = @ + 1]
          [] e.kind = "CompactionEnd"      -> [v EXCEPT !.compaction = FALSE]
          [] e.kind = "ToolExecutionStart" -> [v EXCEPT !.tools = @ \cup {e.of}]
          [] e.kind = "ToolExecutionEnd"   -> [v EXCEPT !.tools = @ \ {e.of}]
          [] e.kind = "ErrorEvent"         -> [v EXCEPT !.failure = "failed"]
          [] e.kind = "AbortedErrorEvent"  -> [v EXCEPT !.failure = "aborted"]
          [] e.kind = "AgentEnd"           -> [v EXCEPT !.agent = "ended"]
    IN  [seen EXCEPT !.broken = v.broken \/ ~InPlace(v, e)]

ReadAll(v, events) ==
    LET after[i \in 0..Len(events)] ==
          IF i = 0 THEN v ELSE Read(after[i - 1], events[i])
    IN  after[Len(events)]

\* The lifecycle of a message that arrives whole.
Announced == <<Event("MessageStart"), Event("MessageEnd")>>

\* The same for n messages in a row.
AnnouncedTimes(n) ==
    [i \in 1..(2 * n) |-> IF i % 2 = 1 THEN Event("MessageStart") ELSE Event("MessageEnd")]

=============================================================================
