-------------------------- MODULE AgentLoopProofs --------------------------
(***************************************************************************)
(* Proofs about AgentLoop, for any numbers of steps, calls and runs, and   *)
(* about LoopDelivery, which implements it.                                *)
(*                                                                         *)
(* What a consumer has read of a run is determined by where the loop is    *)
(* (Fits): with the state of the batch, the semaphore, the requests and    *)
(* the compactions it makes up the inductive invariant IInv.  Three more   *)
(* invariants rest on it: every steered message is accounted for           *)
(* (Accounted), what a history ends with may be continued (TailInv), and   *)
(* every history becomes a complete request (WholeInv).                    *)
(***************************************************************************)
EXTENDS LoopDelivery, MessageSequenceProofs, FiniteSetTheorems

-----------------------------------------------------------------------------
(* A consumer reads the events of a run.                                    *)

Kinds ==
    {"AgentStart", "AgentEnd", "TurnStart", "TurnEnd", "MessageStart", "MessageEnd",
     "CompactionStart", "CompactionEnd", "ToolExecutionStart", "ToolExecutionEnd",
     "ErrorEvent", "AbortedErrorEvent"}

Events == [kind : Kinds, of : Nat]

\* A view in the middle of a run of which nothing has failed.
Reading(turn, message, compaction, calls, n) ==
    [agent |-> "started", turn |-> turn, message |-> message, compaction |-> compaction,
     tools |-> calls, failure |-> "none", compactions |-> n, broken |-> FALSE]

\* What the recursion of ReadAll goes through for the first n events.
Passes(v, events, n, after) ==
    /\ after[0] = v
    /\ \A i \in 1..n : after[i] = Read(after[i - 1], events[i])

\* The events of the loop are events.
LEMMA EventsTyped ==
    ASSUME NEW name \in Kinds, NEW i \in Nat
    PROVE  Event(name) \in Events /\ CallEvent(name, i) \in Events
    BY DEF Event, CallEvent, Events

\* Reading an event yields a view.
LEMMA ReadTyped ==
    ASSUME NEW v \in View, NEW e \in Events
    PROVE  Read(v, e) \in View
<1>. DEFINE seen(name) ==
        CASE name = "AgentStart"         -> [v EXCEPT !.agent = "started"]
          [] name = "TurnStart"          -> [v EXCEPT !.turn = TRUE]
          [] name = "TurnEnd"            -> [v EXCEPT !.turn = FALSE]
          [] name = "MessageStart"       -> [v EXCEPT !.message = TRUE]
          [] name = "MessageEnd"         -> [v EXCEPT !.message = FALSE]
          [] name = "CompactionStart"    ->
                [v EXCEPT !.compaction = TRUE, !.compactions = @ + 1]
          [] name = "CompactionEnd"      -> [v EXCEPT !.compaction = FALSE]
          [] name = "ToolExecutionStart" -> [v EXCEPT !.tools = @ \cup {e.of}]
          [] name = "ToolExecutionEnd"   -> [v EXCEPT !.tools = @ \ {e.of}]
          [] name = "ErrorEvent"         -> [v EXCEPT !.failure = "failed"]
          [] name = "AbortedErrorEvent"  -> [v EXCEPT !.failure = "aborted"]
          [] name = "AgentEnd"           -> [v EXCEPT !.agent = "ended"]
<1>1. e.kind \in Kinds /\ e.of \in Nat
    BY DEF Events
<1>2. seen(e.kind) \in View
  <2>1. /\ [v EXCEPT !.agent = "started"] \in View
        /\ [v EXCEPT !.agent = "ended"] \in View
        /\ \A b \in BOOLEAN :
               /\ [v EXCEPT !.turn = b] \in View
               /\ [v EXCEPT !.message = b] \in View
               /\ [v EXCEPT !.compaction = b] \in View
      BY DEF View
  <2>2. [v EXCEPT !.compaction = TRUE, !.compactions = @ + 1] \in View
    <3>1. v.compactions + 1 \in Nat
        BY DEF View
    <3>2. \A n \in Nat : [v EXCEPT !.compaction = TRUE, !.compactions = n] \in View
        BY DEF View
    <3>. QED
        BY <3>1, <3>2
  <2>3. /\ [v EXCEPT !.tools = @ \cup {e.of}] \in View
        /\ [v EXCEPT !.tools = @ \ {e.of}] \in View
      BY <1>1 DEF View
  <2>4. /\ [v EXCEPT !.failure = "failed"] \in View
        /\ [v EXCEPT !.failure = "aborted"] \in View
      BY DEF View
  <2>5. CASE e.kind \in {"AgentStart", "AgentEnd", "ErrorEvent", "AbortedErrorEvent"}
      BY <2>1, <2>4, <2>5
  <2>6. CASE e.kind \in {"TurnStart", "TurnEnd", "MessageStart", "MessageEnd"}
      BY <2>1, <2>6
  <2>7. CASE e.kind \in {"CompactionStart", "CompactionEnd"}
      BY <2>1, <2>2, <2>7
  <2>8. CASE e.kind \in {"ToolExecutionStart", "ToolExecutionEnd"}
      BY <2>3, <2>8
  <2>. QED
      BY <1>1, <2>5, <2>6, <2>7, <2>8 DEF Kinds
<1>3. (v.broken \/ ~InPlace(v, e)) \in BOOLEAN
    OBVIOUS
<1>4. [seen(e.kind) EXCEPT !.broken = v.broken \/ ~InPlace(v, e)] \in View
  <2>. HIDE DEF seen
  <2>. QED
      BY <1>2, <1>3 DEF View
<1>5. Read(v, e) = [seen(e.kind) EXCEPT !.broken = v.broken \/ ~InPlace(v, e)]
    BY DEF Read
<1>. QED
    BY <1>4, <1>5

\* ReadAll reads the events one after the other.
LEMMA ReadAllPasses ==
    ASSUME NEW v \in View, NEW events \in Seq(Events)
    PROVE  \E after \in [0..Len(events) -> View] :
               Passes(v, events, Len(events), after) /\ ReadAll(v, events) = after[Len(events)]
<1>. DEFINE N == Len(events)
            rec[i \in 0..Len(events)] ==
                IF i = 0 THEN v ELSE Read(rec[i - 1], events[i])
            steps == [i \in 1..N |-> [w \in View |-> Read(w, events[i])]]
<1>1. N \in Nat /\ \A i \in 1..N : events[i] \in Events
    OBVIOUS
<1>2. steps \in [1..N -> [View -> View]]
    BY <1>1, ReadTyped
<1>. HIDE DEF rec, steps, N
<1>3. PICK f \in [0..N -> View] : Recursive(f, N, v, steps)
    BY <1>1, <1>2, RecursionOverInterval
<1>4. \A i \in 1..N : f[i] = Read(f[i - 1], events[i])
  <2>. SUFFICES ASSUME NEW i \in 1..N PROVE f[i] = Read(f[i - 1], events[i])
      OBVIOUS
  <2>1. i - 1 \in 0..N
      BY <1>1
  <2>2. f[i - 1] \in View
      BY <2>1
  <2>3. steps[i][f[i - 1]] = Read(f[i - 1], events[i])
      BY <2>2 DEF steps
  <2>. QED
      BY <1>3, <2>3 DEF Recursive
<1>5. f = [i \in 0..Len(events) |-> IF i = 0 THEN v ELSE Read(f[i - 1], events[i])]
    BY <1>1, <1>3, <1>4 DEF Recursive, N
<1>6. rec = [i \in 0..Len(events) |-> IF i = 0 THEN v ELSE Read(rec[i - 1], events[i])]
    BY <1>5 DEF rec
<1>7. Passes(v, events, N, rec)
    BY <1>1, <1>6 DEF Passes, N
<1>8. \A i \in 0..N : rec[i] \in View
  <2>. DEFINE S == {i \in 0..N : rec[i] \in View}
  <2>1. 0 \in S
      BY <1>1, <1>7 DEF Passes
  <2>2. \A i \in 0..(N - 1) : i \in S => i + 1 \in S
      BY <1>1, <1>7, ReadTyped DEF Passes, N
  <2>. HIDE DEF S
  <2>3. \A i \in 0..N : i \in S
      BY <1>1, <2>1, <2>2, UpwardInduction
  <2>. QED
      BY <2>3 DEF S
<1>9. rec \in [0..N -> View]
    BY <1>6, <1>8 DEF N
<1>10. ReadAll(v, events) = rec[Len(events)]
    BY DEF ReadAll, rec
<1>. QED
    BY <1>7, <1>9, <1>10 DEF N

\* What is read is settled by the passes.
LEMMA PassesAgree ==
    ASSUME NEW v, NEW N \in Nat, NEW events, NEW f, NEW g,
           Passes(v, events, N, f), Passes(v, events, N, g)
    PROVE  \A i \in 0..N : f[i] = g[i]
<1>. DEFINE S == {i \in 0..N : f[i] = g[i]}
<1>1. 0 \in S
    BY DEF Passes
<1>2. \A i \in 0..(N - 1) : i \in S => i + 1 \in S
  <2>. SUFFICES ASSUME NEW i \in 0..(N - 1), i \in S PROVE i + 1 \in S
      OBVIOUS
  <2>1. i + 1 \in 1..N /\ (i + 1) - 1 = i
      OBVIOUS
  <2>2. f[i + 1] = Read(f[i], events[i + 1]) /\ g[i + 1] = Read(g[i], events[i + 1])
      BY <2>1 DEF Passes
  <2>. QED
      BY <2>1, <2>2
<1>. HIDE DEF S
<1>3. \A i \in 0..N : i \in S
    BY <1>1, <1>2, UpwardInduction
<1>. QED
    BY <1>3 DEF S

\* Nothing to read changes nothing.
LEMMA ReadNothing ==
    ASSUME NEW v \in View
    PROVE  ReadAll(v, <<>>) = v
<1>1. <<>> \in Seq(Events) /\ Len(<<>>) = 0
    OBVIOUS
<1>2. PICK f \in [0..Len(<<>>) -> View] :
          Passes(v, <<>>, Len(<<>>), f) /\ ReadAll(v, <<>>) = f[Len(<<>>)]
    BY <1>1, ReadAllPasses
<1>. QED
    BY <1>1, <1>2 DEF Passes

\* Reading ends with the last event.
LEMMA ReadOneMore ==
    ASSUME NEW v \in View, NEW s \in Seq(Events), NEW e \in Events
    PROVE  /\ ReadAll(v, s) \in View
           /\ ReadAll(v, Append(s, e)) = Read(ReadAll(v, s), e)
<1>. DEFINE t == Append(s, e)
            N == Len(s)
<1>1. PICK f \in [0..N -> View] : Passes(v, s, N, f) /\ ReadAll(v, s) = f[N]
    BY ReadAllPasses
<1>2. /\ t \in Seq(Events) /\ Len(t) = N + 1 /\ N \in Nat
      /\ t[N + 1] = e
      /\ \A i \in 1..N : t[i] = s[i]
    OBVIOUS
<1>. HIDE DEF t
<1>3. PICK g \in [0..Len(t) -> View] :
          Passes(v, t, Len(t), g) /\ ReadAll(v, t) = g[Len(t)]
    BY <1>2, ReadAllPasses
<1>4. Passes(v, s, N, g)
    BY <1>2, <1>3 DEF Passes
<1>5. N \in 0..N /\ (N + 1) - 1 = N /\ N + 1 \in 1..Len(t)
    BY <1>2
<1>. HIDE DEF N
<1>6. \A i \in 0..N : f[i] = g[i]
    BY <1>1, <1>2, <1>4, PassesAgree
<1>7. f[N] = g[N] /\ f[N] \in View
    BY <1>1, <1>5, <1>6
<1>8. g[N + 1] = Read(g[N], e)
    BY <1>2, <1>3, <1>5 DEF Passes
<1>. QED
    BY <1>1, <1>2, <1>3, <1>7, <1>8 DEF t

\* Reading two sequences is reading the one, then the other.
LEMMA ReadBoth ==
    ASSUME NEW v \in View, NEW s \in Seq(Events), NEW t \in Seq(Events)
    PROVE  ReadAll(v, s \o t) = ReadAll(ReadAll(v, s), t)
<1>. DEFINE u == s \o t
            w == ReadAll(v, s)
            M == Len(s)
            N == Len(t)
<1>1. PICK f \in [0..M -> View] : Passes(v, s, M, f) /\ w = f[M]
    BY ReadAllPasses
<1>2. M \in 0..M /\ w \in View
    BY <1>1
<1>3. PICK g \in [0..N -> View] : Passes(w, t, N, g) /\ ReadAll(w, t) = g[N]
  <2>. HIDE DEF w
  <2>. QED
      BY <1>2, ReadAllPasses
<1>4. /\ u \in Seq(Events) /\ Len(u) = M + N /\ M \in Nat /\ N \in Nat
      /\ \A i \in 1..M : u[i] = s[i]
      /\ \A i \in 1..N : u[M + i] = t[i]
    OBVIOUS
<1>. HIDE DEF u, w
<1>5. PICK h \in [0..Len(u) -> View] :
          Passes(v, u, Len(u), h) /\ ReadAll(v, u) = h[Len(u)]
    BY <1>4, ReadAllPasses
<1>6. \A i \in 1..M : i \in 1..Len(u)
    BY <1>4
<1>7. Passes(v, s, M, h)
    BY <1>4, <1>5, <1>6 DEF Passes
<1>. HIDE DEF M, N
<1>8. M \in Nat
    BY <1>4
<1>9. \A i \in 0..M : f[i] = h[i]
    BY <1>1, <1>7, <1>8, PassesAgree
<1>10. h[M] = w
    BY <1>1, <1>2, <1>9
<1>. DEFINE k == [i \in 0..N |-> h[M + i]]
<1>11. k[0] = w
    BY <1>4, <1>10
<1>12. \A i \in 1..N : k[i] = Read(k[i - 1], t[i])
  <2>. SUFFICES ASSUME NEW i \in 1..N PROVE k[i] = Read(k[i - 1], t[i])
      OBVIOUS
  <2>1. M + i \in 1..Len(u) /\ (M + i) - 1 = M + (i - 1) /\ i - 1 \in 0..N /\ i \in 0..N
      BY <1>4
  <2>2. h[M + i] = Read(h[M + (i - 1)], u[M + i])
      BY <1>5, <2>1 DEF Passes
  <2>3. k[i] = h[M + i] /\ k[i - 1] = h[M + (i - 1)]
      BY <2>1
  <2>. QED
      BY <1>4, <2>2, <2>3
<1>. HIDE DEF k
<1>13. Passes(w, t, N, k)
    BY <1>11, <1>12 DEF Passes
<1>14. \A i \in 0..N : k[i] = g[i]
    BY <1>3, <1>4, <1>13, PassesAgree
<1>15. k[N] = h[M + N]
    BY <1>4 DEF k
<1>16. N \in 0..N
    BY <1>4
<1>. QED
    BY <1>3, <1>4, <1>5, <1>14, <1>15, <1>16 DEF u, w

\* One event is read at once.
LEMMA ReadOne ==
    ASSUME NEW v \in View, NEW e \in Events
    PROVE  ReadAll(v, <<e>>) = Read(v, e)
<1>1. <<>> \in Seq(Events) /\ Append(<<>>, e) = <<e>>
    OBVIOUS
<1>. QED
    BY <1>1, ReadNothing, ReadOneMore

\* Two events are read one after the other.
LEMMA ReadTwo ==
    ASSUME NEW v \in View, NEW d \in Events, NEW e \in Events
    PROVE  /\ ReadAll(v, <<d, e>>) = Read(Read(v, d), e)
           /\ ReadAll(v, <<d, e>>) = ReadAll(ReadAll(v, <<d>>), <<e>>)
<1>. DEFINE s == <<d>>
            t == Append(s, e)
            u == <<d, e>>
<1>1. s \in Seq(Events) /\ t \in Seq(Events) /\ u \in Seq(Events)
    OBVIOUS
<1>2. Len(t) = 2 /\ t[1] = d /\ t[2] = e /\ Len(u) = 2 /\ u[1] = d /\ u[2] = e
    OBVIOUS
<1>3. ReadAll(v, s) = Read(v, d)
    BY ReadOne
<1>. HIDE DEF s, t, u
<1>4. t = u
    BY <1>1, <1>2, SeqEqual
<1>5. ReadAll(v, t) = Read(ReadAll(v, s), e)
    BY <1>1, ReadOneMore DEF t
<1>6. Read(v, d) \in View
    BY ReadTyped
<1>7. ReadAll(Read(v, d), <<e>>) = Read(Read(v, d), e)
    BY <1>6, ReadOne
<1>. QED
    BY <1>3, <1>4, <1>5, <1>7 DEF s, u

\* Views are the same when all that they say is.
LEMMA ViewsAgree ==
    ASSUME NEW v \in View, NEW w \in View,
           v.agent = w.agent, v.turn = w.turn, v.message = w.message,
           v.compaction = w.compaction, v.tools = w.tools, v.failure = w.failure,
           v.compactions = w.compactions, v.broken = w.broken
    PROVE  v = w
    BY DEF View

\* What an event in its place says.
LEMMA ReadInPlace ==
    ASSUME NEW v \in View, NEW e \in Events, ~v.broken, InPlace(v, e)
    PROVE  /\ Read(v, e) \in View
           /\ Read(v, e).broken = FALSE
           /\ Read(v, e).agent = IF e.kind = "AgentStart" THEN "started"
                                 ELSE IF e.kind = "AgentEnd" THEN "ended" ELSE v.agent
           /\ Read(v, e).turn = IF e.kind = "TurnStart" THEN TRUE
                                ELSE IF e.kind = "TurnEnd" THEN FALSE ELSE v.turn
           /\ Read(v, e).message = IF e.kind = "MessageStart" THEN TRUE
                                   ELSE IF e.kind = "MessageEnd" THEN FALSE ELSE v.message
           /\ Read(v, e).compaction =
                  IF e.kind = "CompactionStart" THEN TRUE
                  ELSE IF e.kind = "CompactionEnd" THEN FALSE ELSE v.compaction
           /\ Read(v, e).compactions =
                  IF e.kind = "CompactionStart" THEN v.compactions + 1 ELSE v.compactions
           /\ Read(v, e).tools =
                  IF e.kind = "ToolExecutionStart" THEN v.tools \cup {e.of}
                  ELSE IF e.kind = "ToolExecutionEnd" THEN v.tools \ {e.of} ELSE v.tools
           /\ Read(v, e).failure = IF e.kind = "ErrorEvent" THEN "failed"
                                   ELSE IF e.kind = "AbortedErrorEvent" THEN "aborted"
                                   ELSE v.failure
<1>1. e.kind \in Kinds
    BY DEF Events
<1>2. (v.broken \/ ~InPlace(v, e)) = FALSE
    OBVIOUS
<1>3. CASE e.kind \in {"AgentStart", "AgentEnd"}
    BY <1>2, <1>3, ReadTyped, ZenonT(60) DEF Read, View
<1>4. CASE e.kind \in {"ErrorEvent", "AbortedErrorEvent"}
    BY <1>2, <1>4, ReadTyped, ZenonT(60) DEF Read, View
<1>5. CASE e.kind \in {"TurnStart", "TurnEnd"}
    BY <1>2, <1>5, ReadTyped, ZenonT(60) DEF Read, View
<1>6. CASE e.kind \in {"MessageStart", "MessageEnd"}
    BY <1>2, <1>6, ReadTyped, ZenonT(60) DEF Read, View
<1>7. CASE e.kind \in {"CompactionStart", "CompactionEnd"}
    BY <1>2, <1>7, ReadTyped, ZenonT(60) DEF Read, View
<1>8. CASE e.kind \in {"ToolExecutionStart", "ToolExecutionEnd"}
    BY <1>2, <1>8, ReadTyped, ZenonT(60) DEF Read, View
<1>. QED
    BY <1>1, <1>3, <1>4, <1>5, <1>6, <1>7, <1>8 DEF Kinds

\* A view of Reading is a view.
LEMMA ReadingTyped ==
    ASSUME NEW turn \in BOOLEAN, NEW message \in BOOLEAN, NEW compaction \in BOOLEAN,
           NEW calls \in SUBSET Nat, NEW n \in Nat
    PROVE  Reading(turn, message, compaction, calls, n) \in View
    BY DEF Reading, View

\* The first event of a run.
LEMMA ReadAgentStart ==
    /\ FreshView \in View
    /\ ReadAll(FreshView, <<Event("AgentStart")>>) = Reading(FALSE, FALSE, FALSE, {}, 0)
<1>. DEFINE e == Event("AgentStart")
<1>1. FreshView \in View
    BY DEF FreshView, View
<1>2. e \in Events /\ e.kind = "AgentStart"
    BY DEF Event, Events, Kinds
<1>. HIDE DEF e
<1>3. Read(FreshView, e) = Reading(FALSE, FALSE, FALSE, {}, 0)
  <2>1. InPlace(FreshView, e) /\ ~FreshView.broken
      BY <1>2 DEF InPlace, FreshView
  <2>2. Reading(FALSE, FALSE, FALSE, {}, 0) \in View
      BY ReadingTyped
  <2>. QED
      BY <1>1, <1>2, <2>1, <2>2, ReadInPlace, ViewsAgree, ZenonT(60) DEF FreshView, Reading
<1>. QED
    BY <1>1, <1>2, <1>3, ReadOne DEF e

\* A turn begins.
LEMMA ReadTurnStart ==
    ASSUME NEW n \in Nat
    PROVE  ReadAll(Reading(FALSE, FALSE, FALSE, {}, n), <<Event("TurnStart")>>)
               = Reading(TRUE, FALSE, FALSE, {}, n)
<1>. DEFINE v == Reading(FALSE, FALSE, FALSE, {}, n)
            w == Reading(TRUE, FALSE, FALSE, {}, n)
            e == Event("TurnStart")
            r == Read(v, e)
<1>1. e \in Events /\ e.kind = "TurnStart"
    BY DEF Event, Events, Kinds
<1>. HIDE DEF e
<1>2. v \in View /\ w \in View
    BY ReadingTyped
<1>3. InPlace(v, e) /\ ~v.broken
    BY <1>1 DEF InPlace, Quiet, Reading
<1>4. /\ v.agent = "started" /\ v.failure = "none" /\ v.broken = FALSE
      /\ v.turn = FALSE /\ v.message = FALSE /\ v.compaction = FALSE
      /\ v.tools = {} /\ v.compactions = n
    BY DEF Reading
<1>5. /\ w.agent = "started" /\ w.failure = "none" /\ w.broken = FALSE
      /\ w.turn = TRUE /\ w.message = FALSE /\ w.compaction = FALSE
      /\ w.tools = {} /\ w.compactions = n
    BY DEF Reading
<1>. HIDE DEF v, w
<1>6. /\ r \in View
      /\ r.agent = w.agent /\ r.failure = w.failure /\ r.broken = w.broken
      /\ r.turn = w.turn /\ r.message = w.message /\ r.compaction = w.compaction
      /\ r.tools = w.tools /\ r.compactions = w.compactions
    BY <1>1, <1>2, <1>3, <1>4, <1>5, ReadInPlace
<1>. HIDE DEF r
<1>7. r = w
    BY <1>2, <1>6, ViewsAgree
<1>. QED
    BY <1>1, <1>2, <1>7, ReadOne DEF e, r, v, w

\* A turn ends.
LEMMA ReadTurnEnd ==
    ASSUME NEW n \in Nat
    PROVE  ReadAll(Reading(TRUE, FALSE, FALSE, {}, n), <<Event("TurnEnd")>>)
               = Reading(FALSE, FALSE, FALSE, {}, n)
<1>. DEFINE v == Reading(TRUE, FALSE, FALSE, {}, n)
            w == Reading(FALSE, FALSE, FALSE, {}, n)
            e == Event("TurnEnd")
            r == Read(v, e)
<1>1. e \in Events /\ e.kind = "TurnEnd"
    BY DEF Event, Events, Kinds
<1>. HIDE DEF e
<1>2. v \in View /\ w \in View
    BY ReadingTyped
<1>3. InPlace(v, e) /\ ~v.broken
    BY <1>1 DEF InPlace, Quiet, Reading
<1>4. /\ v.agent = "started" /\ v.failure = "none" /\ v.broken = FALSE
      /\ v.turn = TRUE /\ v.message = FALSE /\ v.compaction = FALSE
      /\ v.tools = {} /\ v.compactions = n
    BY DEF Reading
<1>5. /\ w.agent = "started" /\ w.failure = "none" /\ w.broken = FALSE
      /\ w.turn = FALSE /\ w.message = FALSE /\ w.compaction = FALSE
      /\ w.tools = {} /\ w.compactions = n
    BY DEF Reading
<1>. HIDE DEF v, w
<1>6. /\ r \in View
      /\ r.agent = w.agent /\ r.failure = w.failure /\ r.broken = w.broken
      /\ r.turn = w.turn /\ r.message = w.message /\ r.compaction = w.compaction
      /\ r.tools = w.tools /\ r.compactions = w.compactions
    BY <1>1, <1>2, <1>3, <1>4, <1>5, ReadInPlace
<1>. HIDE DEF r
<1>7. r = w
    BY <1>2, <1>6, ViewsAgree
<1>. QED
    BY <1>1, <1>2, <1>7, ReadOne DEF e, r, v, w

\* A message begins, inside a turn or outside.
LEMMA ReadMessageStart ==
    ASSUME NEW turn \in BOOLEAN, NEW n \in Nat
    PROVE  ReadAll(Reading(turn, FALSE, FALSE, {}, n), <<Event("MessageStart")>>)
               = Reading(turn, TRUE, FALSE, {}, n)
<1>. DEFINE v == Reading(turn, FALSE, FALSE, {}, n)
            w == Reading(turn, TRUE, FALSE, {}, n)
            e == Event("MessageStart")
            r == Read(v, e)
<1>1. e \in Events /\ e.kind = "MessageStart"
    BY DEF Event, Events, Kinds
<1>. HIDE DEF e
<1>2. v \in View /\ w \in View
    BY ReadingTyped
<1>3. InPlace(v, e) /\ ~v.broken
    BY <1>1 DEF InPlace, Quiet, Reading
<1>4. /\ v.agent = "started" /\ v.failure = "none" /\ v.broken = FALSE
      /\ v.turn = turn /\ v.message = FALSE /\ v.compaction = FALSE
      /\ v.tools = {} /\ v.compactions = n
    BY DEF Reading
<1>5. /\ w.agent = "started" /\ w.failure = "none" /\ w.broken = FALSE
      /\ w.turn = turn /\ w.message = TRUE /\ w.compaction = FALSE
      /\ w.tools = {} /\ w.compactions = n
    BY DEF Reading
<1>. HIDE DEF v, w
<1>6. /\ r \in View
      /\ r.agent = w.agent /\ r.failure = w.failure /\ r.broken = w.broken
      /\ r.turn = w.turn /\ r.message = w.message /\ r.compaction = w.compaction
      /\ r.tools = w.tools /\ r.compactions = w.compactions
    BY <1>1, <1>2, <1>3, <1>4, <1>5, ReadInPlace
<1>. HIDE DEF r
<1>7. r = w
    BY <1>2, <1>6, ViewsAgree
<1>. QED
    BY <1>1, <1>2, <1>7, ReadOne DEF e, r, v, w

\* A message ends.
LEMMA ReadMessageEnd ==
    ASSUME NEW turn \in BOOLEAN, NEW n \in Nat
    PROVE  ReadAll(Reading(turn, TRUE, FALSE, {}, n), <<Event("MessageEnd")>>)
               = Reading(turn, FALSE, FALSE, {}, n)
<1>. DEFINE v == Reading(turn, TRUE, FALSE, {}, n)
            w == Reading(turn, FALSE, FALSE, {}, n)
            e == Event("MessageEnd")
            r == Read(v, e)
<1>1. e \in Events /\ e.kind = "MessageEnd"
    BY DEF Event, Events, Kinds
<1>. HIDE DEF e
<1>2. v \in View /\ w \in View
    BY ReadingTyped
<1>3. InPlace(v, e) /\ ~v.broken
    BY <1>1 DEF InPlace, Quiet, Reading
<1>4. /\ v.agent = "started" /\ v.failure = "none" /\ v.broken = FALSE
      /\ v.turn = turn /\ v.message = TRUE /\ v.compaction = FALSE
      /\ v.tools = {} /\ v.compactions = n
    BY DEF Reading
<1>5. /\ w.agent = "started" /\ w.failure = "none" /\ w.broken = FALSE
      /\ w.turn = turn /\ w.message = FALSE /\ w.compaction = FALSE
      /\ w.tools = {} /\ w.compactions = n
    BY DEF Reading
<1>. HIDE DEF v, w
<1>6. /\ r \in View
      /\ r.agent = w.agent /\ r.failure = w.failure /\ r.broken = w.broken
      /\ r.turn = w.turn /\ r.message = w.message /\ r.compaction = w.compaction
      /\ r.tools = w.tools /\ r.compactions = w.compactions
    BY <1>1, <1>2, <1>3, <1>4, <1>5, ReadInPlace
<1>. HIDE DEF r
<1>7. r = w
    BY <1>2, <1>6, ViewsAgree
<1>. QED
    BY <1>1, <1>2, <1>7, ReadOne DEF e, r, v, w

\* A compaction begins.
LEMMA ReadCompactionStart ==
    ASSUME NEW n \in Nat
    PROVE  ReadAll(Reading(FALSE, FALSE, FALSE, {}, n), <<Event("CompactionStart")>>)
               = Reading(FALSE, FALSE, TRUE, {}, n + 1)
<1>. DEFINE v == Reading(FALSE, FALSE, FALSE, {}, n)
            w == Reading(FALSE, FALSE, TRUE, {}, n + 1)
            e == Event("CompactionStart")
            r == Read(v, e)
<1>1. e \in Events /\ e.kind = "CompactionStart"
    BY DEF Event, Events, Kinds
<1>. HIDE DEF e
<1>2. v \in View /\ w \in View
  <2>1. n + 1 \in Nat
      OBVIOUS
  <2>. QED
      BY <2>1, ReadingTyped
<1>3. InPlace(v, e) /\ ~v.broken
    BY <1>1 DEF InPlace, Quiet, Reading
<1>4. /\ v.agent = "started" /\ v.failure = "none" /\ v.broken = FALSE
      /\ v.turn = FALSE /\ v.message = FALSE /\ v.compaction = FALSE
      /\ v.tools = {} /\ v.compactions = n
    BY DEF Reading
<1>5. /\ w.agent = "started" /\ w.failure = "none" /\ w.broken = FALSE
      /\ w.turn = FALSE /\ w.message = FALSE /\ w.compaction = TRUE
      /\ w.tools = {} /\ w.compactions = n + 1
    BY DEF Reading
<1>. HIDE DEF v, w
<1>6. /\ r \in View
      /\ r.agent = w.agent /\ r.failure = w.failure /\ r.broken = w.broken
      /\ r.turn = w.turn /\ r.message = w.message /\ r.compaction = w.compaction
      /\ r.tools = w.tools /\ r.compactions = w.compactions
    BY <1>1, <1>2, <1>3, <1>4, <1>5, ReadInPlace
<1>. HIDE DEF r
<1>7. r = w
    BY <1>2, <1>6, ViewsAgree
<1>. QED
    BY <1>1, <1>2, <1>7, ReadOne DEF e, r, v, w

\* A compaction ends.
LEMMA ReadCompactionEnd ==
    ASSUME NEW n \in Nat
    PROVE  ReadAll(Reading(FALSE, FALSE, TRUE, {}, n), <<Event("CompactionEnd")>>)
               = Reading(FALSE, FALSE, FALSE, {}, n)
<1>. DEFINE v == Reading(FALSE, FALSE, TRUE, {}, n)
            w == Reading(FALSE, FALSE, FALSE, {}, n)
            e == Event("CompactionEnd")
            r == Read(v, e)
<1>1. e \in Events /\ e.kind = "CompactionEnd"
    BY DEF Event, Events, Kinds
<1>. HIDE DEF e
<1>2. v \in View /\ w \in View
    BY ReadingTyped
<1>3. InPlace(v, e) /\ ~v.broken
    BY <1>1 DEF InPlace, Quiet, Reading
<1>4. /\ v.agent = "started" /\ v.failure = "none" /\ v.broken = FALSE
      /\ v.turn = FALSE /\ v.message = FALSE /\ v.compaction = TRUE
      /\ v.tools = {} /\ v.compactions = n
    BY DEF Reading
<1>5. /\ w.agent = "started" /\ w.failure = "none" /\ w.broken = FALSE
      /\ w.turn = FALSE /\ w.message = FALSE /\ w.compaction = FALSE
      /\ w.tools = {} /\ w.compactions = n
    BY DEF Reading
<1>. HIDE DEF v, w
<1>6. /\ r \in View
      /\ r.agent = w.agent /\ r.failure = w.failure /\ r.broken = w.broken
      /\ r.turn = w.turn /\ r.message = w.message /\ r.compaction = w.compaction
      /\ r.tools = w.tools /\ r.compactions = w.compactions
    BY <1>1, <1>2, <1>3, <1>4, <1>5, ReadInPlace
<1>. HIDE DEF r
<1>7. r = w
    BY <1>2, <1>6, ViewsAgree
<1>. QED
    BY <1>1, <1>2, <1>7, ReadOne DEF e, r, v, w

\* A call starts that was not running.
LEMMA ReadToolStart ==
    ASSUME NEW calls \in SUBSET Nat, NEW i \in Nat \ calls, NEW n \in Nat
    PROVE  ReadAll(Reading(TRUE, FALSE, FALSE, calls, n), <<CallEvent("ToolExecutionStart", i)>>)
               = Reading(TRUE, FALSE, FALSE, calls \cup {i}, n)
<1>. DEFINE v == Reading(TRUE, FALSE, FALSE, calls, n)
            w == Reading(TRUE, FALSE, FALSE, calls \cup {i}, n)
            e == CallEvent("ToolExecutionStart", i)
            r == Read(v, e)
<1>1. e \in Events /\ e.kind = "ToolExecutionStart" /\ e.of = i
    BY DEF CallEvent, Events, Kinds
<1>. HIDE DEF e
<1>2. v \in View /\ w \in View
    BY ReadingTyped
<1>3. InPlace(v, e) /\ ~v.broken
    BY <1>1 DEF InPlace, Quiet, Reading
<1>4. /\ v.agent = "started" /\ v.failure = "none" /\ v.broken = FALSE
      /\ v.turn = TRUE /\ v.message = FALSE /\ v.compaction = FALSE
      /\ v.tools = calls /\ v.compactions = n
    BY DEF Reading
<1>5. /\ w.agent = "started" /\ w.failure = "none" /\ w.broken = FALSE
      /\ w.turn = TRUE /\ w.message = FALSE /\ w.compaction = FALSE
      /\ w.tools = calls \cup {i} /\ w.compactions = n
    BY DEF Reading
<1>. HIDE DEF v, w
<1>6. /\ r \in View
      /\ r.agent = w.agent /\ r.failure = w.failure /\ r.broken = w.broken
      /\ r.turn = w.turn /\ r.message = w.message /\ r.compaction = w.compaction
      /\ r.tools = w.tools /\ r.compactions = w.compactions
    BY <1>1, <1>2, <1>3, <1>4, <1>5, ReadInPlace, ZenonT(60)
<1>. HIDE DEF r
<1>7. r = w
    BY <1>2, <1>6, ViewsAgree
<1>. QED
    BY <1>1, <1>2, <1>7, ReadOne DEF e, r, v, w

\* A running call ends.
LEMMA ReadToolEnd ==
    ASSUME NEW calls \in SUBSET Nat, NEW i \in calls, NEW n \in Nat
    PROVE  ReadAll(Reading(TRUE, FALSE, FALSE, calls, n), <<CallEvent("ToolExecutionEnd", i)>>)
               = Reading(TRUE, FALSE, FALSE, calls \ {i}, n)
<1>. DEFINE v == Reading(TRUE, FALSE, FALSE, calls, n)
            w == Reading(TRUE, FALSE, FALSE, calls \ {i}, n)
            e == CallEvent("ToolExecutionEnd", i)
            r == Read(v, e)
<1>1. e \in Events /\ e.kind = "ToolExecutionEnd" /\ e.of = i
    BY DEF CallEvent, Events, Kinds
<1>. HIDE DEF e
<1>2. v \in View /\ w \in View
    BY ReadingTyped
<1>3. InPlace(v, e) /\ ~v.broken
    BY <1>1 DEF InPlace, Quiet, Reading
<1>4. /\ v.agent = "started" /\ v.failure = "none" /\ v.broken = FALSE
      /\ v.turn = TRUE /\ v.message = FALSE /\ v.compaction = FALSE
      /\ v.tools = calls /\ v.compactions = n
    BY DEF Reading
<1>5. /\ w.agent = "started" /\ w.failure = "none" /\ w.broken = FALSE
      /\ w.turn = TRUE /\ w.message = FALSE /\ w.compaction = FALSE
      /\ w.tools = calls \ {i} /\ w.compactions = n
    BY DEF Reading
<1>. HIDE DEF v, w
<1>6. /\ r \in View
      /\ r.agent = w.agent /\ r.failure = w.failure /\ r.broken = w.broken
      /\ r.turn = w.turn /\ r.message = w.message /\ r.compaction = w.compaction
      /\ r.tools = w.tools /\ r.compactions = w.compactions
    BY <1>1, <1>2, <1>3, <1>4, <1>5, ReadInPlace, ZenonT(60)
<1>. HIDE DEF r
<1>7. r = w
    BY <1>2, <1>6, ViewsAgree
<1>. QED
    BY <1>1, <1>2, <1>7, ReadOne DEF e, r, v, w

\* A view that AgentEnd may follow, after n compactions.
Ending(v, n) ==
    /\ v \in View /\ ~v.broken /\ v.agent = "started"
    /\ Quiet(v) /\ ~v.turn
    /\ v.compactions = n

\* The view of a run that is over, after n compactions.
Over(v, n) == v \in View /\ ~v.broken /\ v.agent = "ended" /\ v.compactions = n

\* A run may end between two turns.
LEMMA ReadingEnds ==
    ASSUME NEW n \in Nat
    PROVE  Ending(Reading(FALSE, FALSE, FALSE, {}, n), n)
    BY ReadingTyped DEF Ending, Quiet, Reading

\* A run fails between two turns; only AgentEnd may follow.
LEMMA ReadFailure ==
    ASSUME NEW n \in Nat, NEW name \in {"ErrorEvent", "AbortedErrorEvent"}
    PROVE  Ending(ReadAll(Reading(FALSE, FALSE, FALSE, {}, n), <<Event(name)>>), n)
<1>. DEFINE v == Reading(FALSE, FALSE, FALSE, {}, n)
            e == Event(name)
            w == Read(v, e)
<1>1. e \in Events /\ e.kind = name
    BY DEF Event, Events, Kinds
<1>. HIDE DEF e
<1>2. v \in View
    BY ReadingTyped
<1>3. InPlace(v, e) /\ ~v.broken
    BY <1>1 DEF InPlace, Quiet, Reading
<1>4. /\ v.compactions = n /\ v.agent = "started" /\ v.tools = {}
      /\ ~v.turn /\ ~v.message /\ ~v.compaction
    BY DEF Reading
<1>. HIDE DEF v
<1>5. /\ w \in View /\ ~w.broken
      /\ w.compactions = n /\ w.agent = "started" /\ w.tools = {}
      /\ ~w.turn /\ ~w.message /\ ~w.compaction
    BY <1>1, <1>2, <1>3, <1>4, ReadInPlace
<1>6. ReadAll(v, <<e>>) = w
    BY <1>1, <1>2, ReadOne
<1>. HIDE DEF w
<1>7. Ending(w, n)
    BY <1>5 DEF Ending, Quiet
<1>. QED
    BY <1>6, <1>7 DEF v, e

\* The last event of a run.
LEMMA ReadAgentEnd ==
    ASSUME NEW n \in Nat, NEW v, Ending(v, n)
    PROVE  Over(ReadAll(v, <<Event("AgentEnd")>>), n)
<1>. DEFINE e == Event("AgentEnd")
            w == Read(v, e)
<1>1. e \in Events /\ e.kind = "AgentEnd"
    BY DEF Event, Events, Kinds
<1>. HIDE DEF e
<1>2. v \in View /\ ~v.broken /\ v.compactions = n
    BY DEF Ending
<1>3. InPlace(v, e)
    BY <1>1 DEF InPlace, Ending
<1>4. w \in View /\ ~w.broken /\ w.agent = "ended" /\ w.compactions = n
    BY <1>1, <1>2, <1>3, ReadInPlace
<1>5. ReadAll(v, <<e>>) = w
    BY <1>1, <1>2, ReadOne
<1>. QED
    BY <1>4, <1>5 DEF Over, e

-----------------------------------------------------------------------------
(* The sequences of events that the steps of the loop send.                 *)

\* Single events and their pairs are sequences of events.
LEMMA ShortSequences ==
    ASSUME NEW d \in Events, NEW e \in Events
    PROVE  <<>> \in Seq(Events) /\ <<d>> \in Seq(Events) /\ <<d, e>> \in Seq(Events)
    OBVIOUS

\* A message that arrives whole leaves nothing open.
LEMMA ReadAnnounced ==
    ASSUME NEW turn \in BOOLEAN, NEW n \in Nat
    PROVE  /\ Announced \in Seq(Events)
           /\ ReadAll(Reading(turn, FALSE, FALSE, {}, n), Announced)
                  = Reading(turn, FALSE, FALSE, {}, n)
<1>. DEFINE v == Reading(turn, FALSE, FALSE, {}, n)
            w == Reading(turn, TRUE, FALSE, {}, n)
            d == Event("MessageStart")
            e == Event("MessageEnd")
<1>1. d \in Events /\ e \in Events
    BY EventsTyped DEF Kinds
<1>2. v \in View
    BY ReadingTyped
<1>3. ReadAll(v, <<d>>) = w /\ ReadAll(w, <<e>>) = v
    BY ReadMessageStart, ReadMessageEnd
<1>4. Announced = <<d, e>>
    BY DEF Announced
<1>. HIDE DEF v, w, d, e
<1>5. ReadAll(v, <<d, e>>) = v /\ <<d, e>> \in Seq(Events)
    BY <1>1, <1>2, <1>3, ReadTwo, ShortSequences
<1>. QED
    BY <1>4, <1>5 DEF v

\* One message more.
LEMMA AnnouncedOnceMore ==
    ASSUME NEW k \in Nat
    PROVE  /\ AnnouncedTimes(k) \in Seq(Events)
           /\ AnnouncedTimes(k + 1) = AnnouncedTimes(k) \o Announced
<1>. DEFINE d == Event("MessageStart")
            e == Event("MessageEnd")
            s == AnnouncedTimes(k)
            t == AnnouncedTimes(k + 1)
            u == s \o Announced
<1>1. d \in Events /\ e \in Events
    BY EventsTyped DEF Kinds
<1>2. Announced \in Seq(Events) /\ Len(Announced) = 2
      /\ Announced[1] = d /\ Announced[2] = e
  <2>1. Announced = <<d, e>>
      BY DEF Announced
  <2>. HIDE DEF d, e
  <2>. QED
      BY <1>1, <2>1
<1>3. /\ s \in [1..(2 * k) -> Events]
      /\ \A i \in 1..(2 * k) : s[i] = IF i % 2 = 1 THEN d ELSE e
      /\ t \in [1..(2 * (k + 1)) -> Events]
      /\ \A i \in 1..(2 * (k + 1)) : t[i] = IF i % 2 = 1 THEN d ELSE e
    BY <1>1 DEF AnnouncedTimes
<1>. HIDE DEF d, e, s, t
<1>4. s \in Seq(Events) /\ Len(s) = 2 * k /\ t \in Seq(Events) /\ Len(t) = 2 * k + 2
  <2>1. 2 * k \in Nat /\ 2 * (k + 1) \in Nat /\ 2 * (k + 1) = 2 * k + 2
      OBVIOUS
  <2>. QED
      BY <1>3, <2>1
<1>5. /\ u \in Seq(Events) /\ Len(u) = 2 * k + 2
      /\ \A i \in 1..(2 * k) : u[i] = s[i]
      /\ u[2 * k + 1] = d /\ u[2 * k + 2] = e
  <2>. DEFINE K == 2 * k
              a == Announced
  <2>1. K \in Nat
      OBVIOUS
  <2>. HIDE DEF K, a
  <2>2. s \in Seq(Events) /\ Len(s) = K
      BY <1>4 DEF K
  <2>3. a \in Seq(Events) /\ Len(a) = 2 /\ a[1] = d /\ a[2] = e
      BY <1>2 DEF a
  <2>4. /\ s \o a \in Seq(Events) /\ Len(s \o a) = K + 2
        /\ \A i \in 1..(K + 2) : (s \o a)[i] = IF i <= K THEN s[i] ELSE a[i - K]
    <3>1. /\ s \o a \in Seq(Events) /\ Len(s \o a) = Len(s) + Len(a)
          /\ \A i \in 1..Len(s) + Len(a) :
                 (s \o a)[i] = IF i <= Len(s) THEN s[i] ELSE a[i - Len(s)]
        BY <2>2, <2>3, ConcatProperties
    <3>. QED
        BY <2>2, <2>3, <3>1
  <2>5. /\ \A i \in 1..K : i \in 1..(K + 2) /\ i <= K
        /\ K + 1 \in 1..(K + 2) /\ ~(K + 1 <= K) /\ (K + 1) - K = 1
        /\ K + 2 \in 1..(K + 2) /\ ~(K + 2 <= K) /\ (K + 2) - K = 2
      BY <2>1
  <2>6. \A i \in 1..K : (s \o a)[i] = s[i]
      BY <2>4, <2>5
  <2>7. (s \o a)[K + 1] = d /\ (s \o a)[K + 2] = e
      BY <2>3, <2>4, <2>5
  <2>. QED
      BY <2>4, <2>6, <2>7 DEF K, a
<1>. HIDE DEF u
<1>6. ASSUME NEW i \in 1..(2 * k + 2) PROVE t[i] = u[i]
  <2>1. t[i] = IF i % 2 = 1 THEN d ELSE e
      BY <1>3
  <2>2. CASE i \in 1..(2 * k)
      BY <1>3, <1>5, <2>1, <2>2
  <2>3. CASE i = 2 * k + 1
    <3>1. i % 2 = 1
        BY <2>3
    <3>. QED
        BY <1>5, <2>1, <2>3, <3>1
  <2>4. CASE i = 2 * k + 2
    <3>1. i % 2 # 1
        BY <2>4
    <3>. QED
        BY <1>5, <2>1, <2>4, <3>1
  <2>. QED
      BY <2>2, <2>3, <2>4
<1>7. t = u
    BY <1>4, <1>5, <1>6, SeqEqual
<1>. QED
    BY <1>4, <1>7 DEF s, t, u

\* So do any number of them.
LEMMA ReadAnnouncedTimes ==
    ASSUME NEW turn \in BOOLEAN, NEW n \in Nat, NEW N \in Nat
    PROVE  /\ AnnouncedTimes(N) \in Seq(Events)
           /\ ReadAll(Reading(turn, FALSE, FALSE, {}, n), AnnouncedTimes(N))
                  = Reading(turn, FALSE, FALSE, {}, n)
<1>. DEFINE v == Reading(turn, FALSE, FALSE, {}, n)
            S == {k \in 0..N : ReadAll(v, AnnouncedTimes(k)) = v}
<1>1. v \in View
    BY ReadingTyped
<1>2. ReadAll(v, Announced) = v /\ Announced \in Seq(Events)
    BY ReadAnnounced
<1>. HIDE DEF v
<1>3. 0 \in S
  <2>1. AnnouncedTimes(0) = <<>>
      BY DEF AnnouncedTimes
  <2>. QED
      BY <1>1, <2>1, ReadNothing
<1>4. ASSUME NEW k \in 0..(N - 1), k \in S PROVE k + 1 \in S
  <2>1. /\ AnnouncedTimes(k) \in Seq(Events)
        /\ AnnouncedTimes(k + 1) = AnnouncedTimes(k) \o Announced
    <3>1. k \in Nat
        OBVIOUS
    <3>. QED
        BY <3>1, AnnouncedOnceMore
  <2>2. ReadAll(v, AnnouncedTimes(k + 1)) = ReadAll(ReadAll(v, AnnouncedTimes(k)), Announced)
      BY <1>1, <1>2, <2>1, ReadBoth
  <2>. QED
      BY <1>2, <1>4, <2>2
<1>. HIDE DEF S
<1>5. \A k \in 0..N : k \in S
    BY <1>3, <1>4, UpwardInduction
<1>6. N \in S
    BY <1>5
<1>. QED
    BY <1>6, AnnouncedOnceMore DEF S, v

\* What comes at last of the events is read at last.
LEMMA ReadThen ==
    ASSUME NEW v \in View, NEW s \in Seq(Events), NEW t \in Seq(Events),
           NEW w, NEW x, ReadAll(v, s) = w, ReadAll(w, t) = x
    PROVE  ReadAll(v, s \o t) = x /\ s \o t \in Seq(Events)
    BY ReadBoth

\* The end of a run, as EndRun announces it.
LEMMA ReadEnd ==
    ASSUME NEW n \in Nat, NEW v \in View, NEW events \in Seq(Events),
           Ending(ReadAll(v, events), n)
    PROVE  Over(ReadAll(v, events \o <<Event("AgentEnd")>>), n)
<1>. DEFINE e == Event("AgentEnd")
<1>1. e \in Events
    BY EventsTyped DEF Kinds
<1>. HIDE DEF e
<1>2. <<e>> \in Seq(Events)
    BY <1>1
<1>3. ReadAll(v, events \o <<e>>) = ReadAll(ReadAll(v, events), <<e>>)
    BY <1>2, ReadBoth
<1>. QED
    BY <1>3, ReadAgentEnd DEF e

\* The start of a run, with or without its seed.
LEMMA ReadStart ==
    /\ ReadAll(FreshView, <<Event("AgentStart")>> \o <<>>)
           = Reading(FALSE, FALSE, FALSE, {}, 0)
    /\ ReadAll(FreshView, <<Event("AgentStart")>> \o Announced)
           = Reading(FALSE, FALSE, FALSE, {}, 0)
<1>. DEFINE e == Event("AgentStart")
            w == Reading(FALSE, FALSE, FALSE, {}, 0)
<1>1. e \in Events /\ w \in View
  <2>1. e \in Events
      BY EventsTyped DEF Kinds
  <2>2. w \in View
      BY ReadingTyped
  <2>. QED
      BY <2>1, <2>2
<1>2. FreshView \in View /\ ReadAll(FreshView, <<e>>) = w
    BY ReadAgentStart
<1>3. ReadAll(w, <<>>) = w
    BY <1>1, ReadNothing
<1>4. ReadAll(w, Announced) = w /\ Announced \in Seq(Events)
    BY ReadAnnounced
<1>. HIDE DEF e, w
<1>5. <<e>> \in Seq(Events) /\ <<>> \in Seq(Events)
    BY <1>1
<1>6. ReadAll(FreshView, <<e>> \o <<>>) = w
    BY <1>2, <1>3, <1>5, ReadThen
<1>7. ReadAll(FreshView, <<e>> \o Announced) = w
  <2>1. ReadAll(FreshView, <<e>> \o Announced) = ReadAll(ReadAll(FreshView, <<e>>), Announced)
      BY <1>2, <1>4, <1>5, ReadBoth
  <2>. QED
      BY <1>2, <1>4, <2>1
<1>. QED
    BY <1>6, <1>7 DEF e, w

\* Two events of a run, read one after the other.
LEMMA ReadPair ==
    ASSUME NEW v \in View, NEW k \in Kinds, NEW l \in Kinds, NEW w,
           ReadAll(v, <<Event(k)>>) = w
    PROVE  /\ <<Event(k)>> \in Seq(Events)
           /\ <<Event(k), Event(l)>> \in Seq(Events)
           /\ ReadAll(v, <<Event(k), Event(l)>>) = ReadAll(w, <<Event(l)>>)
<1>. DEFINE d == Event(k)
            e == Event(l)
<1>1. d \in Events /\ e \in Events
    BY EventsTyped
<1>. HIDE DEF d, e
<1>2. ReadAll(v, <<d, e>>) = ReadAll(ReadAll(v, <<d>>), <<e>>)
    BY <1>1, ReadTwo
<1>3. <<d>> \in Seq(Events) /\ <<d, e>> \in Seq(Events)
    BY <1>1, ShortSequences
<1>. QED
    BY <1>2, <1>3 DEF d, e

\* The message of a turn is complete after Said.
LEMMA ReadSaid ==
    ASSUME NEW n \in Nat, started \in BOOLEAN
    PROVE  /\ Said \in Seq(Events)
           /\ ReadAll(Reading(TRUE, started, FALSE, {}, n), Said)
                  = Reading(TRUE, FALSE, FALSE, {}, n)
<1>1. CASE started
  <2>1. started = TRUE /\ Said = <<Event("MessageEnd")>>
      BY <1>1 DEF Said
  <2>2. Event("MessageEnd") \in Events
      BY EventsTyped DEF Kinds
  <2>3. ReadAll(Reading(TRUE, TRUE, FALSE, {}, n), <<Event("MessageEnd")>>)
            = Reading(TRUE, FALSE, FALSE, {}, n)
      BY ReadMessageEnd
  <2>4. <<Event("MessageEnd")>> \in Seq(Events)
      BY <2>2
  <2>. QED
      BY <2>1, <2>3, <2>4
<1>2. CASE ~started
  <2>1. started = FALSE /\ Said = Announced
      BY <1>2 DEF Said
  <2>. QED
      BY <2>1, ReadAnnounced
<1>. QED
    BY <1>1, <1>2

-----------------------------------------------------------------------------
(* The inductive invariant.                                                 *)

Batching == {"sequential", "running", "preflight", "parallel", "finalize", "batchEnd"}

\* The calls a consumer has seen start and not end.
Open == {i \in DOMAIN tool : tool[i] \in {"ready", "running"}}

\* The view v that goes with place p of the loop, s telling whether its message
\* has started.
Fits(v, p, s, calls) ==
    IF p = "idle"
       THEN v \in View /\ ~v.broken /\ v.agent # "started"
       ELSE /\ v = Reading(p \in Batching \cup {"turn", "streaming"},
                           p = "streaming" /\ s, p = "hook", calls, v.compactions)
            /\ v.compactions \in Nat

\* A consumer is where the loop is.
ViewInv == Fits(view, pc, started, Open)

\* How far the calls of a batch have come.
BatchInv ==
    /\ pc \in Batching => batch # <<>>
    /\ pc \notin Batching => batch = <<>> /\ idx = 0
    /\ pc \in Batching \ {"parallel", "batchEnd"} => idx \in DOMAIN batch
    /\ pc = "running" => tool[idx] = "running"
    /\ \A i \in DOMAIN batch :
        /\ pc \in {"sequential", "finalize", "batchEnd"} => tool[i] \notin {"ready", "running"}
        /\ pc = "running" /\ i # idx => tool[i] \notin {"ready", "running"}
        /\ pc = "preflight" =>
               tool[i] \in (IF i < idx THEN {"blocked", "ready"} ELSE {"waiting"})

\* The semaphore of a parallel batch.
SemaphoreInv ==
    MaxParallelTools > 0 /\ pc = "parallel" => Cardinality(Executing) <= MaxParallelTools

Retries == IF retried THEN 1 ELSE 0

\* Each step has made its request and the retry of the first one its own; only
\* the first step of a normal run compacts.
RequestsInv ==
    /\ requests <= MaxSteps + Retries
    /\ pc \in {"step", "weigh", "turn"} => requests <= step + Retries
    /\ pc # "idle" => requests <= step + 1 + Retries
    /\ pc = "hook" /\ reason = "threshold" => requests <= step
    /\ pc = "step" /\ step = 0 => ~retried
    /\ pc \in {"weigh", "hook"} => ~retried /\ step = 0

\* A turn is only entered before the context is cancelled.
LateInv ==
    /\ lateRequests \in {0, 1}
    /\ pc \in {"weigh", "turn"} => lateRequests = 0
    /\ pc # "idle" /\ ~ctxDone => lateRequests = 0

\* A normal run asks for one compaction before its first request and for one
\* more before it tries again.
CompactionsInv ==
    /\ view.compactions <= 2
    /\ kind = "continuation" \/ ~CompactHook => view.compactions = 0
    /\ pc \in {"weigh", "hook"} => kind = "normal"
    /\ pc = "hook" => CompactHook
    /\ pc = "weigh" \/ (pc = "step" /\ step = 0) => view.compactions = 0
    /\ pc # "idle" /\ ~retried /\ ~(pc = "hook" /\ reason = "overflow") =>
           view.compactions <= 1

IInv ==
    /\ TypeOK
    /\ ViewInv
    /\ BatchInv
    /\ SemaphoreInv
    /\ RequestsInv
    /\ LateInv
    /\ CompactionsInv

-----------------------------------------------------------------------------
(* Types.                                                                   *)

\* The messages of the loop are messages.
LEMMA MessagesTyped ==
    /\ \A i \in Nat : User(i) \in UserMessages /\ User(i) \in Messages
    /\ \A call \in ToolCalls : ResultFor(call) \in Messages
    /\ \A m \in Replies : m \in Messages /\ m.calls \in Seq(ToolCalls)
    /\ \A m \in Replies : m.calls # <<>> => m.calls \in Batches
<1>1. \A i \in Nat : User(i) \in UserMessages /\ User(i) \in Messages
    BY DEF User, UserMessages, Messages
<1>2. \A call \in ToolCalls : ResultFor(call) \in Messages
    BY DEF ResultFor, ToolResult, ToolCalls, ToolResultMessages, Messages
<1>3. ASSUME NEW stop \in Stops, NEW calls \in Seq(ToolCalls)
      PROVE  Assistant(stop, calls) \in Messages /\ Assistant(stop, calls).calls = calls
    BY <1>3 DEF Assistant, AssistantMessages, Messages
<1>4. <<>> \in Seq(ToolCalls)
    OBVIOUS
<1>5. StopsWithCalls \subseteq Stops
    BY DEF StopsWithCalls, Stops
<1>6. \A calls \in Batches : calls \in Seq(ToolCalls)
    BY BatchesAssumption
<1>7. ASSUME NEW m \in Replies
      PROVE  /\ m \in Messages /\ m.calls \in Seq(ToolCalls)
             /\ m.calls # <<>> => m.calls \in Batches
  <2>1. CASE m \in {Assistant(stop, <<>>) : stop \in Stops}
      BY <1>3, <1>4, <2>1
  <2>2. CASE m \in {Assistant(stop, calls) : stop \in StopsWithCalls, calls \in Batches}
      BY <1>3, <1>5, <1>6, <2>2
  <2>. QED
      BY <2>1, <2>2 DEF Replies
<1>. QED
    BY <1>1, <1>2, <1>7

\* What Storage keeps of some messages are messages.
LEMMA SomeTyped ==
    ASSUME NEW ms \in Seq(Messages), NEW kept \in SomeOf(ms)
    PROVE  kept \in Seq(Messages)
<1>1. PICK n \in 0..Len(ms) :
          \E at \in [1..n -> DOMAIN ms] : kept = [i \in 1..n |-> ms[at[i]]]
    BY DEF SomeOf
<1>2. kept \in [1..n -> Messages]
    BY <1>1
<1>3. n \in Nat
    OBVIOUS
<1>. QED
    BY <1>2, <1>3

\* Appending messages to transcript and session keeps their types.
LEMMA AppendTyped ==
    ASSUME NEW ms \in Seq(Messages), DroidOK, unstored \in BOOLEAN, AppendMessages(ms)
    PROVE  /\ transcript' \in Seq(Messages) /\ stored' \in Seq(Messages)
           /\ unstored' \in BOOLEAN
<1>1. PICK kept \in (IF StoreMayFail THEN SomeOf(ms) ELSE {ms}) :
          stored' = stored \o kept /\ unstored' = (unstored \/ kept # ms)
    BY DEF AppendMessages
<1>2. kept \in Seq(Messages)
    BY SomeTyped
<1>3. transcript' = transcript \o ms
    BY DEF AppendMessages
<1>. QED
    BY <1>1, <1>2, <1>3 DEF DroidOK

\* So do the appends of each step that makes some.
LEMMA StepAppends ==
    ASSUME DroidOK, BatchOK, BatchInv, unstored \in BOOLEAN
    PROVE  /\ DrainSteering => /\ transcript' \in Seq(Messages) /\ stored' \in Seq(Messages)
                               /\ steering' \in Seq(UserMessages) /\ unstored' \in BOOLEAN
           /\ \A m \in Replies : Hear(m) =>
                  /\ transcript' \in Seq(Messages) /\ stored' \in Seq(Messages)
                  /\ unstored' \in BOOLEAN
           /\ \A events : pc \in Batching \ {"parallel", "batchEnd"} /\ KeepResult(events) =>
                  /\ transcript' \in Seq(Messages) /\ stored' \in Seq(Messages)
                  /\ unstored' \in BOOLEAN
<1>1. steering \in Seq(Messages)
    BY DEF DroidOK, Messages
<1>2. ASSUME DrainSteering
      PROVE  /\ transcript' \in Seq(Messages) /\ stored' \in Seq(Messages)
             /\ steering' \in Seq(UserMessages) /\ unstored' \in BOOLEAN
  <2>1. CASE kind = "continuation"
      BY <1>2, <2>1 DEF DrainSteering, droid, DroidOK
  <2>2. CASE kind # "continuation"
    <3>1. AppendMessages(steering) /\ steering' = <<>>
        BY <1>2, <2>2 DEF DrainSteering
    <3>. QED
        BY <1>1, <3>1, AppendTyped
  <2>. QED
      BY <2>1, <2>2
<1>3. ASSUME NEW m \in Replies, Hear(m)
      PROVE  transcript' \in Seq(Messages) /\ stored' \in Seq(Messages) /\ unstored' \in BOOLEAN
  <2>1. CASE m.stop = "contextWindow"
      BY <1>3, <2>1 DEF Hear, DroidOK
  <2>2. CASE m.stop # "contextWindow"
    <3>1. <<m>> \in Seq(Messages)
        BY MessagesTyped
    <3>2. AppendMessages(<<m>>)
        BY <1>3, <2>2 DEF Hear
    <3>. QED
        BY <3>1, <3>2, AppendTyped
  <2>. QED
      BY <2>1, <2>2
<1>4. ASSUME NEW events, pc \in Batching \ {"parallel", "batchEnd"}, KeepResult(events)
      PROVE  transcript' \in Seq(Messages) /\ stored' \in Seq(Messages) /\ unstored' \in BOOLEAN
  <2>1. batch \in Seq(ToolCalls) /\ idx \in DOMAIN batch
      BY <1>4, BatchesAssumption DEF BatchOK, BatchInv
  <2>2. ResultFor(batch[idx]) \in Messages
      BY <2>1, MessagesTyped
  <2>3. <<ResultFor(batch[idx])>> \in Seq(Messages)
      BY <2>2
  <2>4. AppendMessages(<<ResultFor(batch[idx])>>)
      BY <1>4 DEF KeepResult
  <2>. QED
      BY <2>3, <2>4, AppendTyped
<1>. QED
    BY <1>2, <1>3, <1>4

\* Each step keeps the types of what a run leaves for the next.
LEMMA DroidStep ==
    DroidOK /\ BatchOK /\ HistoryOK /\ BatchInv /\ [Next]_vars => DroidOK'
<1>. SUFFICES ASSUME DroidOK, BatchOK, HistoryOK, BatchInv, [Next]_vars
             PROVE  DroidOK'
    OBVIOUS
<1>0. unstored \in BOOLEAN
    BY DEF HistoryOK
<1>. USE ContextsAssumption DEF DroidOK
<1>1. ASSUME NEW k \in {"normal", "continuation"}, StartRun(k) PROVE DroidOK'
  <2>1. steering' = steering
    BY <1>1 DEF StartRun
  <2>2. CASE k = "normal"
    <3>1. <<Seed>> \in Seq(Messages)
      BY MessagesTyped DEF Seed
    <3>2. AppendMessages(<<Seed>>)
      BY <1>1, <2>2 DEF StartRun
    <3>. QED
      BY <2>1, <3>1, <3>2, <1>0, AppendTyped DEF DroidOK
  <2>3. CASE k # "normal"
    BY <1>1, <2>1, <2>3 DEF StartRun, DroidOK
  <2>. QED
    BY <2>2, <2>3
<1>2. CASE StepFirst
  <2>1. DrainSteering
    BY <1>2 DEF StepFirst
  <2>. QED
    BY <2>1, <1>0, StepAppends DEF DroidOK
<1>3. CASE StepLater
  <2>1. DrainSteering
    BY <1>3 DEF StepLater
  <2>. QED
    BY <2>1, <1>0, StepAppends DEF DroidOK
<1>4. ASSUME NEW r \in Replacements, HookApplies(r) PROVE DroidOK'
  <2>1. transcript' \in Seq(Messages)
    BY <1>4 DEF HookApplies
  <2>. QED
    BY <1>4, <2>1 DEF HookApplies, DroidOK
<1>5. ASSUME NEW m \in Replies, RespondOverflow(m) PROVE DroidOK'
  <2>1. Hear(m) /\ steering' = steering
    BY <1>5 DEF RespondOverflow, Hear
  <2>. QED
    BY <2>1, <1>0, StepAppends DEF DroidOK
<1>6. ASSUME NEW m \in Replies, RespondFailing(m) PROVE DroidOK'
  <2>1. Hear(m) /\ steering' = steering
    BY <1>6 DEF RespondFailing, Hear
  <2>. QED
    BY <2>1, <1>0, StepAppends DEF DroidOK
<1>7. ASSUME NEW m \in Replies, RespondFinal(m) PROVE DroidOK'
  <2>1. Hear(m) /\ steering' = steering
    BY <1>7 DEF RespondFinal, Hear
  <2>. QED
    BY <2>1, <1>0, StepAppends DEF DroidOK
<1>8. ASSUME NEW m \in Replies, RespondCalling(m) PROVE DroidOK'
  <2>1. Hear(m) /\ steering' = steering
    BY <1>8 DEF RespondCalling, Hear
  <2>. QED
    BY <2>1, <1>0, StepAppends DEF DroidOK
<1>9. CASE SequentialBlocked
  <2>1. steering' = steering /\ \E events : KeepResult(events)
    BY <1>9 DEF SequentialBlocked
  <2>2. pc \in Batching \ {"parallel", "batchEnd"}
    BY <1>9 DEF SequentialBlocked, Batching
  <2>. QED
    BY <2>1, <2>2, <1>0, StepAppends DEF DroidOK
<1>10. CASE ToolReturns
  <2>1. steering' = steering /\ \E events : KeepResult(events)
    BY <1>10 DEF ToolReturns
  <2>2. pc \in Batching \ {"parallel", "batchEnd"}
    BY <1>10 DEF ToolReturns, Batching
  <2>. QED
    BY <2>1, <2>2, <1>0, StepAppends DEF DroidOK
<1>11. CASE Finalize
  <2>1. steering' = steering /\ \E events : KeepResult(events)
    BY <1>11 DEF Finalize
  <2>2. pc \in Batching \ {"parallel", "batchEnd"}
    BY <1>11 DEF Finalize, Batching
  <2>. QED
    BY <2>1, <2>2, <1>0, StepAppends DEF DroidOK
<1>12. CASE Steer
  <2>1. steers' \in Nat /\ steering' = Append(steering, User(steers'))
    BY <1>12, BoundsAssumption DEF Steer, HistoryOK
  <2>2. User(steers') \in UserMessages
    BY <2>1, MessagesTyped
  <2>3. UNCHANGED <<transcript, stored>>
    BY <1>12 DEF Steer
  <2>. QED
    BY <2>1, <2>2, <2>3 DEF DroidOK
<1>13. CASE Restart
    BY <1>13 DEF Restart, DroidOK
<1>14. CASE UNCHANGED <<transcript, stored, steering>>
    BY <1>14
<1>15. CASE RefuseContinuation \/ StepAborts \/ Weigh \/ HookFails \/
          HookDeclines \/ Request \/ StreamStarts \/ SequentialStart \/ Join \/
          BatchEnd \/ Cancel \/ UNCHANGED vars
    BY <1>14, <1>15 DEF RefuseContinuation, droid, tools, counts, traffic,
        StepAborts, EndRun, Emit, Weigh, Turning, HookFails, HookDeclines,
        Request, StreamStarts, SequentialStart, Mark, Join, BatchEnd, Cancel,
        vars
<1>16. ASSUME NEW blocked \in BOOLEAN, Preflight(blocked)
      PROVE  DroidOK'
    BY <1>14, <1>16 DEF Preflight, Emit, Mark, droid, tools, counts, traffic
<1>17. ASSUME NEW i \in DOMAIN tool, Acquire(i) \/ ToolEnds(i)
      PROVE  DroidOK'
    BY <1>14, <1>17 DEF Acquire, Mark, ParallelUnchanged, droid, tools, counts,
        traffic, ToolEnds, Emit
<1>. QED
    BY <1>1, <1>2, <1>3, <1>4, <1>5, <1>6, <1>7, <1>8, <1>9, <1>10, <1>11,
        <1>12, <1>13, <1>14, <1>15, <1>16, <1>17 DEF Next, LoopStep, Answer

\* Each step keeps the types of what is local to runPrompt.
LEMMA RunStep ==
    RunOK /\ [Next]_vars => RunOK'
<1>. SUFFICES ASSUME RunOK, [Next]_vars
             PROVE  RunOK'
    OBVIOUS
<1>. USE StepsAssumption DEF RunOK, PCs
<1>1. ASSUME NEW k \in {"normal", "continuation"}, StartRun(k) PROVE RunOK'
  <2>1. /\ pc' = "step" /\ kind' = k /\ ctxDone' = FALSE /\ step' = 0 /\ retried' = FALSE
        /\ UNCHANGED <<started, reason>>
    BY <1>1 DEF StartRun
  <2>2. 0 \in 0..(MaxSteps - 1)
    OBVIOUS
  <2>. QED
    BY <2>1, <2>2
<1>2. CASE StepAborts
    BY <1>2 DEF StepAborts, EndRun, droid, tools, counts, traffic
<1>3. CASE StepFirst
    BY <1>3 DEF StepFirst, Turning, DrainSteering, droid, tools, counts,
        traffic
<1>4. CASE StepLater
    BY <1>4 DEF StepLater, DrainSteering, droid, tools, counts, traffic
<1>5. CASE Weigh
    BY <1>5 DEF Weigh, Turning, droid, tools, counts, traffic
<1>6. CASE HookFails
    BY <1>6 DEF HookFails, EndRun, droid, tools, counts, traffic
<1>7. CASE HookDeclines
    BY <1>7 DEF HookDeclines, EndRun, Turning, droid, tools, counts, traffic
<1>8. ASSUME NEW r \in Replacements, HookApplies(r) PROVE RunOK'
    BY <1>8 DEF HookApplies, Turning, tools, droid, counts, traffic
<1>9. CASE Request
    BY <1>9 DEF Request, droid, tools, counts, traffic
<1>10. CASE StreamStarts
    BY <1>10 DEF StreamStarts, droid, tools, counts, traffic
<1>11. ASSUME NEW m \in Replies, RespondOverflow(m) PROVE RunOK'
    BY <1>11 DEF RespondOverflow, MayRetry, Hear, counts, droid, tools, traffic
<1>12. ASSUME NEW m \in Replies, RespondFailing(m) PROVE RunOK'
    BY <1>12 DEF RespondFailing, EndRun, MayRetry, Hear, counts, droid, tools,
        traffic
<1>13. ASSUME NEW m \in Replies, RespondFinal(m) PROVE RunOK'
    BY <1>13 DEF RespondFinal, EndRun, Hear, counts, droid, tools, traffic
<1>14. ASSUME NEW m \in Replies, RespondCalling(m) PROVE RunOK'
    BY <1>14 DEF RespondCalling, Hear, counts, droid, tools, traffic
<1>15. CASE SequentialBlocked
    BY <1>15 DEF SequentialBlocked, Mark, KeepResult, NextCall, counts, droid,
        tools, traffic
<1>16. CASE SequentialStart
    BY <1>16 DEF SequentialStart, Mark, droid, tools, counts, traffic
<1>17. CASE ToolReturns
    BY <1>17 DEF ToolReturns, Mark, KeepResult, NextCall, counts, droid, tools,
        traffic
<1>18. ASSUME NEW blocked \in BOOLEAN, Preflight(blocked) PROVE RunOK'
    BY <1>18 DEF Preflight, Mark, droid, tools, counts, traffic
<1>19. CASE Join
    BY <1>19 DEF Join, droid, tools, counts, traffic
<1>20. CASE Finalize
    BY <1>20 DEF Finalize, KeepResult, counts, droid, tools, traffic
<1>21. CASE BatchEnd
    BY <1>21 DEF BatchEnd, EndRun, droid, tools, counts, traffic
<1>22. CASE Cancel
    BY <1>22 DEF Cancel, droid, tools, counts, traffic
<1>23. CASE Restart
    BY <1>23 DEF Restart, traffic, droid, tools, counts
<1>24. CASE UNCHANGED <<pc, kind, ctxDone, step, started, reason, retried>>
    BY <1>24
<1>25. CASE RefuseContinuation \/ Steer \/ UNCHANGED vars
    BY <1>24, <1>25 DEF RefuseContinuation, droid, tools, counts, traffic,
        Steer, vars
<1>26. ASSUME NEW i \in DOMAIN tool, Acquire(i) \/ ToolEnds(i)
      PROVE  RunOK'
    BY <1>24, <1>26 DEF Acquire, Mark, ParallelUnchanged, droid, tools, counts,
        traffic, ToolEnds, Emit
<1>. QED
    BY <1>1, <1>2, <1>3, <1>4, <1>5, <1>6, <1>7, <1>8, <1>9, <1>10, <1>11,
        <1>12, <1>13, <1>14, <1>15, <1>16, <1>17, <1>18, <1>19, <1>20, <1>21,
        <1>22, <1>23, <1>24, <1>25, <1>26 DEF Next, LoopStep, Answer

\* Each step keeps the types of what is local to a batch.
LEMMA BatchTypes ==
    BatchOK /\ BatchInv /\ [Next]_vars => BatchOK'
<1>. SUFFICES ASSUME BatchOK, BatchInv, [Next]_vars
             PROVE  BatchOK'
    OBVIOUS
<1>. USE DEF BatchOK, BatchInv, Batching, ToolStates
<1>1. ASSUME NEW m \in Replies, RespondCalling(m) PROVE BatchOK'
  <2>1. m.calls \in Batches /\ m.calls \in Seq(ToolCalls) /\ m.calls # <<>>
    BY <1>1, MessagesTyped DEF RespondCalling
  <2>2. Len(m.calls) \in Nat /\ Len(m.calls) # 0
    BY <2>1
  <2>3. batch' = m.calls /\ idx' = 1 /\ tool' = [i \in DOMAIN m.calls |-> "waiting"]
    BY <1>1 DEF RespondCalling
  <2>. QED
    BY <2>1, <2>2, <2>3
<1>2. CASE SequentialBlocked
  <2>1. batch \in Seq(ToolCalls) /\ Len(batch) \in Nat /\ idx \in 1..Len(batch)
    <3>1. batch \in Seq(ToolCalls) /\ idx \in DOMAIN batch
      BY <1>2, BatchesAssumption DEF SequentialBlocked
    <3>. QED
      BY <3>1
  <2>2. batch' = batch /\ idx' = idx + 1
    BY <1>2 DEF SequentialBlocked, KeepResult
  <2>3. tool' \in [DOMAIN batch -> ToolStates]
    BY <1>2 DEF SequentialBlocked, Mark
  <2>. QED
    BY <2>1, <2>2, <2>3
<1>3. CASE SequentialStart
    BY <1>3 DEF SequentialStart, Mark, droid, tools, counts, traffic
<1>4. CASE ToolReturns
  <2>1. batch \in Seq(ToolCalls) /\ Len(batch) \in Nat /\ idx \in 1..Len(batch)
    <3>1. batch \in Seq(ToolCalls) /\ idx \in DOMAIN batch
      BY <1>4, BatchesAssumption DEF ToolReturns
    <3>. QED
      BY <3>1
  <2>2. batch' = batch /\ idx' = idx + 1
    BY <1>4 DEF ToolReturns, KeepResult
  <2>3. tool' \in [DOMAIN batch -> ToolStates]
    BY <1>4 DEF ToolReturns, Mark
  <2>. QED
    BY <2>1, <2>2, <2>3
<1>5. ASSUME NEW blocked \in BOOLEAN, Preflight(blocked) PROVE BatchOK'
  <2>1. batch \in Seq(ToolCalls) /\ Len(batch) \in Nat /\ idx \in 1..Len(batch)
    <3>1. batch \in Seq(ToolCalls) /\ idx \in DOMAIN batch
      BY <1>5, BatchesAssumption DEF Preflight
    <3>. QED
      BY <3>1
  <2>2. batch' = batch /\ idx' = idx + 1
    BY <1>5 DEF Preflight, KeepResult
  <2>3. tool' \in [DOMAIN batch -> ToolStates]
    BY <1>5 DEF Preflight, Mark
  <2>. QED
    BY <2>1, <2>2, <2>3
<1>6. ASSUME NEW i \in DOMAIN tool, Acquire(i) PROVE BatchOK'
    BY <1>6 DEF Acquire, Mark, ParallelUnchanged, droid, tools, counts, traffic
<1>7. ASSUME NEW i \in DOMAIN tool, ToolEnds(i) PROVE BatchOK'
    BY <1>7 DEF ToolEnds, Mark, ParallelUnchanged, droid, tools, counts,
        traffic
<1>8. CASE Join
    BY <1>8 DEF Join, droid, tools, counts, traffic
<1>9. CASE Finalize
    BY <1>9 DEF Finalize, KeepResult, counts, droid, tools, traffic
<1>10. CASE BatchEnd
    BY <1>10 DEF BatchEnd, EndRun, droid, tools, counts, traffic
<1>11. CASE Restart
    BY <1>11 DEF Restart, traffic, droid, tools, counts
<1>12. CASE UNCHANGED <<batch, idx, tool>>
    BY <1>12
<1>13. ASSUME NEW k \in {"normal", "continuation"}, StartRun(k)
      PROVE  BatchOK'
    BY <1>12, <1>13 DEF StartRun, AppendMessages, tools, droid, counts, traffic
<1>14. CASE RefuseContinuation \/ StepAborts \/ StepFirst \/ StepLater \/ Weigh
          \/ HookFails \/ HookDeclines \/ Request \/ StreamStarts \/ Cancel \/
          Steer \/ UNCHANGED vars
    BY <1>12, <1>14 DEF RefuseContinuation, droid, tools, counts, traffic,
        StepAborts, EndRun, Emit, StepFirst, Turning, DrainSteering,
        AppendMessages, StepLater, Weigh, HookFails, HookDeclines, Request,
        StreamStarts, Cancel, Steer, vars
<1>15. ASSUME NEW r \in Replacements, HookApplies(r)
      PROVE  BatchOK'
    BY <1>12, <1>15 DEF HookApplies, Turning, Emit, tools, droid, counts,
        traffic
<1>16. ASSUME NEW m \in Replies, RespondOverflow(m) \/ RespondFailing(m) \/
            RespondFinal(m)
      PROVE  BatchOK'
    BY <1>12, <1>16 DEF RespondOverflow, Emit, MayRetry, Hear, AppendMessages,
        counts, droid, tools, traffic, RespondFailing, EndRun, RespondFinal
<1>. QED
    BY <1>1, <1>2, <1>3, <1>4, <1>5, <1>6, <1>7, <1>8, <1>9, <1>10, <1>11,
        <1>12, <1>13, <1>14, <1>15, <1>16 DEF Next, LoopStep, Answer

\* Each step keeps the types of the counters and of the history.
LEMMA HistoryStep ==
    DroidOK /\ RunOK /\ BatchOK /\ HistoryOK /\ BatchInv /\ RequestsInv /\
    [Next]_vars => HistoryOK'
<1>. SUFFICES ASSUME DroidOK, RunOK, BatchOK, HistoryOK, BatchInv, RequestsInv,
                     [Next]_vars
             PROVE  HistoryOK'
    OBVIOUS
<1>. USE StepsAssumption, BoundsAssumption DEF HistoryOK, Outcomes, PCs
<1>1. ASSUME NEW k \in {"normal", "continuation"}, StartRun(k) PROVE HistoryOK'
  <2>1. unstored' \in BOOLEAN
    <3>1. CASE k = "normal"
      <4>1. <<Seed>> \in Seq(Messages)
        BY MessagesTyped DEF Seed
      <4>2. AppendMessages(<<Seed>>)
        BY <1>1, <3>1 DEF StartRun
      <4>. QED
        BY <4>1, <4>2, AppendTyped
    <3>2. CASE k # "normal"
      BY <1>1, <3>2 DEF StartRun
    <3>. QED
      BY <3>1, <3>2
  <2>2. /\ runs < MaxRuns /\ runs' = runs + 1 /\ outcome' = "none"
        /\ requests' = 0 /\ lateRequests' = 0 /\ landed' = "nowhere"
        /\ UNCHANGED <<steers, crashes, cut>>
    BY <1>1 DEF StartRun
  <2>. QED
    BY <2>1, <2>2
<1>2. CASE RefuseContinuation
    BY <1>2 DEF RefuseContinuation, droid, tools, counts, traffic
<1>3. CASE StepAborts
    BY <1>3 DEF StepAborts, EndRun, droid, tools, counts, traffic
<1>4. CASE StepFirst
  <2>1. unstored' \in BOOLEAN
    <3>1. DrainSteering
      BY <1>4 DEF StepFirst
    <3>. QED
      BY <3>1, StepAppends
  <2>. QED
    BY <1>4, <2>1 DEF StepFirst, Turning, droid, tools, counts, traffic
<1>5. CASE StepLater
  <2>1. unstored' \in BOOLEAN
    <3>1. DrainSteering
      BY <1>5 DEF StepLater
    <3>. QED
      BY <3>1, StepAppends
  <2>. QED
    BY <1>5, <2>1 DEF StepLater, droid, tools, counts, traffic
<1>6. CASE HookFails
    BY <1>6 DEF HookFails, EndRun, droid, tools, counts, traffic
<1>7. CASE HookDeclines
    BY <1>7 DEF HookDeclines, EndRun, Turning, droid, tools, counts, traffic
<1>8. CASE Request
  <2>1. requests <= step + Retries /\ step \in 0..(MaxSteps - 1)
    BY <1>8 DEF Request, RequestsInv, RunOK
  <2>2. requests + 1 \in 0..(MaxSteps + 1)
    BY <2>1 DEF Retries
  <2>3. /\ requests' = requests + 1
        /\ lateRequests' = lateRequests + (IF ctxDone THEN 1 ELSE 0)
        /\ UNCHANGED <<runs, steers, crashes, outcome, landed, cut, unstored>>
    BY <1>8 DEF Request, counts
  <2>4. lateRequests' \in Nat
    BY <2>3
  <2>. QED
    BY <2>2, <2>3, <2>4
<1>9. ASSUME NEW m \in Replies, RespondOverflow(m) PROVE HistoryOK'
  <2>1. unstored' \in BOOLEAN
    <3>1. Hear(m)
      BY <1>9 DEF RespondOverflow
    <3>. QED
      BY <3>1, StepAppends
  <2>. QED
    BY <1>9, <2>1 DEF RespondOverflow, MayRetry, counts, droid, tools, traffic, Hear
<1>10. ASSUME NEW m \in Replies, RespondFailing(m) PROVE HistoryOK'
  <2>1. unstored' \in BOOLEAN
    <3>1. Hear(m)
      BY <1>10 DEF RespondFailing
    <3>. QED
      BY <3>1, StepAppends
  <2>. QED
    BY <1>10, <2>1 DEF RespondFailing, EndRun, MayRetry, counts, droid, tools, traffic, Hear
<1>11. ASSUME NEW m \in Replies, RespondFinal(m) PROVE HistoryOK'
  <2>1. unstored' \in BOOLEAN
    <3>1. Hear(m)
      BY <1>11 DEF RespondFinal
    <3>. QED
      BY <3>1, StepAppends
  <2>. QED
    BY <1>11, <2>1 DEF RespondFinal, EndRun, counts, droid, tools, traffic, Hear
<1>12. ASSUME NEW m \in Replies, RespondCalling(m) PROVE HistoryOK'
  <2>1. unstored' \in BOOLEAN
    <3>1. Hear(m)
      BY <1>12 DEF RespondCalling
    <3>. QED
      BY <3>1, StepAppends
  <2>. QED
    BY <1>12, <2>1 DEF RespondCalling, counts, droid, tools, traffic, Hear
<1>13. CASE SequentialBlocked
  <2>1. unstored' \in BOOLEAN
    <3>1. \E events : KeepResult(events)
      BY <1>13 DEF SequentialBlocked
    <3>2. pc \in Batching \ {"parallel", "batchEnd"}
      BY <1>13 DEF SequentialBlocked, Batching
    <3>. QED
      BY <3>1, <3>2, StepAppends
  <2>. QED
    BY <1>13, <2>1 DEF SequentialBlocked, Mark, NextCall, counts, droid, tools, traffic
<1>14. CASE ToolReturns
  <2>1. unstored' \in BOOLEAN
    <3>1. \E events : KeepResult(events)
      BY <1>14 DEF ToolReturns
    <3>2. pc \in Batching \ {"parallel", "batchEnd"}
      BY <1>14 DEF ToolReturns, Batching
    <3>. QED
      BY <3>1, <3>2, StepAppends
  <2>. QED
    BY <1>14, <2>1 DEF ToolReturns, Mark, NextCall, counts, droid, tools, traffic
<1>15. CASE Finalize
  <2>1. unstored' \in BOOLEAN
    <3>1. \E events : KeepResult(events)
      BY <1>15 DEF Finalize
    <3>2. pc \in Batching \ {"parallel", "batchEnd"}
      BY <1>15 DEF Finalize, Batching
    <3>. QED
      BY <3>1, <3>2, StepAppends
  <2>. QED
    BY <1>15, <2>1 DEF Finalize, counts, droid, tools, traffic
<1>16. CASE BatchEnd
    BY <1>16 DEF BatchEnd, EndRun, droid, tools, counts, traffic
<1>17. CASE Cancel
  <2>1. landed' \in PCs
    BY <1>17 DEF Cancel, RunOK, PCs
  <2>. QED
    BY <1>17, <2>1 DEF Cancel, counts, traffic
<1>18. CASE Steer
    BY <1>18 DEF Steer, tools, droid, counts, traffic
<1>19. CASE Restart
    BY <1>19 DEF Restart, traffic, droid, tools, counts
<1>20. CASE UNCHANGED <<runs, steers, crashes, outcome, requests, lateRequests, landed, cut, unstored>>
    BY <1>20
<1>21. CASE Weigh \/ StreamStarts \/ SequentialStart \/ Join \/ UNCHANGED vars
    BY <1>20, <1>21 DEF Weigh, Emit, Turning, droid, tools, counts, traffic,
        StreamStarts, SequentialStart, Mark, Join, vars
<1>22. ASSUME NEW r \in Replacements, HookApplies(r)
      PROVE  HistoryOK'
    BY <1>20, <1>22 DEF HookApplies, Turning, Emit, tools, droid, counts,
        traffic
<1>23. ASSUME NEW blocked \in BOOLEAN, Preflight(blocked)
      PROVE  HistoryOK'
    BY <1>20, <1>23 DEF Preflight, Emit, Mark, droid, tools, counts, traffic
<1>24. ASSUME NEW i \in DOMAIN tool, Acquire(i) \/ ToolEnds(i)
      PROVE  HistoryOK'
    BY <1>20, <1>24 DEF Acquire, Mark, ParallelUnchanged, droid, tools, counts,
        traffic, ToolEnds, Emit
<1>. QED
    BY <1>1, <1>2, <1>3, <1>4, <1>5, <1>6, <1>7, <1>8, <1>9, <1>10, <1>11,
        <1>12, <1>13, <1>14, <1>15, <1>16, <1>17, <1>18, <1>19, <1>20, <1>21,
        <1>22, <1>23, <1>24 DEF Next, LoopStep, Answer

\* Each step takes the calls of a batch on in their order.
LEMMA BatchStep ==
    RunOK /\ BatchOK /\ BatchInv /\ [Next]_vars => BatchInv'
<1>. SUFFICES ASSUME RunOK, BatchOK, BatchInv, [Next]_vars
             PROVE  BatchInv'
    OBVIOUS
<1>. USE DEF RunOK, BatchOK, BatchInv, Batching, PCs, ToolStates
<1>1. ASSUME NEW k \in {"normal", "continuation"}, StartRun(k) PROVE BatchInv'
    BY <1>1 DEF StartRun, tools, droid, counts, traffic
<1>2. CASE StepAborts
    BY <1>2 DEF StepAborts, EndRun, droid, tools, counts, traffic
<1>3. CASE StepFirst
    BY <1>3 DEF StepFirst, Turning, DrainSteering, droid, tools, counts,
        traffic
<1>4. CASE StepLater
    BY <1>4 DEF StepLater, DrainSteering, droid, tools, counts, traffic
<1>5. CASE Weigh
    BY <1>5 DEF Weigh, Turning, droid, tools, counts, traffic
<1>6. CASE HookFails
    BY <1>6 DEF HookFails, EndRun, droid, tools, counts, traffic
<1>7. CASE HookDeclines
    BY <1>7 DEF HookDeclines, EndRun, Turning, droid, tools, counts, traffic
<1>8. ASSUME NEW r \in Replacements, HookApplies(r) PROVE BatchInv'
    BY <1>8 DEF HookApplies, Turning, tools, droid, counts, traffic
<1>9. CASE Request
    BY <1>9 DEF Request, droid, tools, counts, traffic
<1>10. ASSUME NEW m \in Replies, RespondOverflow(m) PROVE BatchInv'
    BY <1>10 DEF RespondOverflow, MayRetry, Hear, counts, droid, tools, traffic
<1>11. ASSUME NEW m \in Replies, RespondFailing(m) PROVE BatchInv'
    BY <1>11 DEF RespondFailing, EndRun, MayRetry, Hear, counts, droid, tools,
        traffic
<1>12. ASSUME NEW m \in Replies, RespondFinal(m) PROVE BatchInv'
    BY <1>12 DEF RespondFinal, EndRun, Hear, counts, droid, tools, traffic
<1>13. ASSUME NEW m \in Replies, RespondCalling(m) PROVE BatchInv'
  <2>1. m.calls \in Seq(ToolCalls) /\ m.calls # <<>>
    BY <1>13, MessagesTyped DEF RespondCalling
  <2>2. 1 \in DOMAIN m.calls
    BY <2>1
  <2>3. /\ batch' = m.calls /\ idx' = 1 /\ tool' = [i \in DOMAIN m.calls |-> "waiting"]
        /\ pc' \in {"sequential", "preflight"}
    BY <1>13 DEF RespondCalling
  <2>4. \A i \in DOMAIN m.calls : ~(i < 1)
    BY <2>1
  <2>. QED
    BY <2>1, <2>2, <2>3, <2>4
<1>14. CASE SequentialBlocked
    BY <1>14 DEF SequentialBlocked, Mark, KeepResult, NextCall, counts, droid,
        tools, traffic
<1>15. CASE SequentialStart
    BY <1>15 DEF SequentialStart, Mark, droid, tools, counts, traffic
<1>16. CASE ToolReturns
    BY <1>16 DEF ToolReturns, Mark, KeepResult, NextCall, counts, droid, tools,
        traffic
<1>17. ASSUME NEW blocked \in BOOLEAN, Preflight(blocked) PROVE BatchInv'
  <2>1. batch \in Seq(ToolCalls) /\ Len(batch) \in Nat /\ idx \in 1..Len(batch)
    <3>1. batch \in Seq(ToolCalls) /\ idx \in DOMAIN batch
      BY <1>17, BatchesAssumption DEF Preflight
    <3>. QED
      BY <3>1
  <2>2. DOMAIN batch = 1..Len(batch)
    BY <2>1
  <2>3. \A i \in DOMAIN batch : tool'[i] = IF i = idx THEN tool'[idx] ELSE tool[i]
    BY <1>17 DEF Preflight, Mark
  <2>4. tool'[idx] \in {"blocked", "ready"}
    BY <1>17, <2>1, <2>2 DEF Preflight, Mark
  <2>5. \A i \in DOMAIN batch : tool[i] \in (IF i < idx THEN {"blocked", "ready"} ELSE {"waiting"})
    BY <1>17 DEF Preflight
  <2>6. /\ batch' = batch /\ idx' = idx + 1
        /\ pc' = IF idx = Len(batch) THEN "parallel" ELSE "preflight"
    BY <1>17 DEF Preflight
  <2>7. \A i \in DOMAIN batch : i < idx + 1 <=> (i < idx \/ i = idx)
    BY <2>1, <2>2
  <2>8. \A i \in DOMAIN batch : tool'[i] \in (IF i < idx' THEN {"blocked", "ready"} ELSE {"waiting"})
    BY <2>3, <2>4, <2>5, <2>6, <2>7
  <2>9. pc' = "preflight" => idx' \in DOMAIN batch
    <3>1. pc' = "preflight" => idx # Len(batch)
      BY <2>6
    <3>2. idx # Len(batch) => idx + 1 \in 1..Len(batch)
      BY <2>1
    <3>. QED
      BY <2>2, <2>6, <3>1, <3>2
  <2>10. batch # <<>>
    BY <1>17 DEF Preflight
  <2>. QED
    BY <2>6, <2>8, <2>9, <2>10
<1>18. ASSUME NEW i \in DOMAIN tool, Acquire(i) PROVE BatchInv'
    BY <1>18 DEF Acquire, Mark, ParallelUnchanged, droid, tools, counts,
        traffic
<1>19. ASSUME NEW i \in DOMAIN tool, ToolEnds(i) PROVE BatchInv'
    BY <1>19 DEF ToolEnds, Mark, ParallelUnchanged, droid, tools, counts,
        traffic
<1>20. CASE Join
  <2>1. batch \in Seq(ToolCalls) /\ batch # <<>>
    BY <1>20, BatchesAssumption DEF Join
  <2>2. 1 \in DOMAIN batch
    BY <2>1
  <2>. QED
    BY <1>20, <2>1, <2>2 DEF Join
<1>21. CASE Finalize
    BY <1>21 DEF Finalize, KeepResult, counts, droid, tools, traffic
<1>22. CASE BatchEnd
    BY <1>22 DEF BatchEnd, EndRun, droid, tools, counts, traffic
<1>23. CASE Restart
    BY <1>23 DEF Restart, traffic, droid, tools, counts
<1>24. CASE UNCHANGED <<pc, batch, idx, tool>>
    BY <1>24
<1>25. CASE RefuseContinuation \/ StreamStarts \/ Cancel \/ Steer \/ UNCHANGED
          vars
    BY <1>24, <1>25 DEF RefuseContinuation, droid, tools, counts, traffic,
        StreamStarts, Emit, Cancel, Steer, vars
<1>. QED
    BY <1>1, <1>2, <1>3, <1>4, <1>5, <1>6, <1>7, <1>8, <1>9, <1>10, <1>11,
        <1>12, <1>13, <1>14, <1>15, <1>16, <1>17, <1>18, <1>19, <1>20, <1>21,
        <1>22, <1>23, <1>24, <1>25 DEF Next, LoopStep, Answer

\* Each step of the loop accounts for its requests.
LEMMA RequestsStep ==
    RunOK /\ HistoryOK /\ RequestsInv /\ [Next]_vars => RequestsInv'
<1>. SUFFICES ASSUME RunOK, HistoryOK, RequestsInv, [Next]_vars
             PROVE  RequestsInv'
    OBVIOUS
<1>. USE StepsAssumption DEF RunOK, HistoryOK, RequestsInv, Retries, PCs
<1>1. ASSUME NEW k \in {"normal", "continuation"}, StartRun(k) PROVE RequestsInv'
    BY <1>1 DEF StartRun, tools, droid, counts, traffic
<1>2. CASE StepAborts
    BY <1>2 DEF StepAborts, EndRun, droid, tools, counts, traffic
<1>3. CASE StepFirst
    BY <1>3 DEF StepFirst, Turning, DrainSteering, droid, tools, counts,
        traffic
<1>4. CASE StepLater
    BY <1>4 DEF StepLater, DrainSteering, droid, tools, counts, traffic
<1>5. CASE Weigh
    BY <1>5 DEF Weigh, Turning, droid, tools, counts, traffic
<1>6. CASE HookFails
    BY <1>6 DEF HookFails, EndRun, droid, tools, counts, traffic
<1>7. CASE HookDeclines
    BY <1>7 DEF HookDeclines, EndRun, Turning, droid, tools, counts, traffic
<1>8. ASSUME NEW r \in Replacements, HookApplies(r) PROVE RequestsInv'
  <2>1. /\ pc' = "turn" /\ retried' = (reason = "overflow")
        /\ UNCHANGED <<requests, step, reason>>
    BY <1>8 DEF HookApplies, Turning, traffic
  <2>2. ~retried /\ step = 0 /\ requests <= step + 1
    BY <1>8 DEF HookApplies
  <2>3. CASE reason = "overflow"
    <3>1. retried'
      BY <2>1, <2>3
    <3>2. requests \in Nat /\ requests <= 1 /\ step = 0 /\ MaxSteps >= 1
      BY <2>2
    <3>. QED
      BY <2>1, <3>1, <3>2
  <2>4. CASE reason = "threshold"
    <3>1. retried' = FALSE /\ requests <= step
      BY <1>8, <2>1, <2>4 DEF HookApplies
    <3>. QED
      BY <2>1, <2>2, <3>1
  <2>. QED
    BY <2>3, <2>4
<1>9. CASE Request
    BY <1>9 DEF Request, droid, tools, counts, traffic
<1>10. ASSUME NEW m \in Replies, RespondOverflow(m) PROVE RequestsInv'
    BY <1>10 DEF RespondOverflow, MayRetry, Hear, counts, droid, tools, traffic
<1>11. ASSUME NEW m \in Replies, RespondFailing(m) PROVE RequestsInv'
    BY <1>11 DEF RespondFailing, EndRun, MayRetry, Hear, counts, droid, tools,
        traffic
<1>12. ASSUME NEW m \in Replies, RespondFinal(m) PROVE RequestsInv'
    BY <1>12 DEF RespondFinal, EndRun, Hear, counts, droid, tools, traffic
<1>13. ASSUME NEW m \in Replies, RespondCalling(m) PROVE RequestsInv'
    BY <1>13 DEF RespondCalling, Hear, counts, droid, tools, traffic
<1>14. CASE SequentialBlocked
    BY <1>14 DEF SequentialBlocked, Mark, KeepResult, NextCall, counts, droid,
        tools, traffic
<1>15. CASE SequentialStart
    BY <1>15 DEF SequentialStart, Mark, droid, tools, counts, traffic
<1>16. CASE ToolReturns
    BY <1>16 DEF ToolReturns, Mark, KeepResult, NextCall, counts, droid, tools,
        traffic
<1>17. ASSUME NEW blocked \in BOOLEAN, Preflight(blocked) PROVE RequestsInv'
    BY <1>17 DEF Preflight, Mark, droid, tools, counts, traffic
<1>18. CASE Join
    BY <1>18 DEF Join, droid, tools, counts, traffic
<1>19. CASE Finalize
    BY <1>19 DEF Finalize, KeepResult, counts, droid, tools, traffic
<1>20. CASE BatchEnd
    BY <1>20 DEF BatchEnd, EndRun, droid, tools, counts, traffic
<1>21. CASE Restart
    BY <1>21 DEF Restart, traffic, droid, tools, counts
<1>22. CASE UNCHANGED <<requests, step, retried, pc, reason>>
    BY <1>22
<1>23. CASE RefuseContinuation \/ StreamStarts \/ Cancel \/ Steer \/ UNCHANGED
          vars
    BY <1>22, <1>23 DEF RefuseContinuation, droid, tools, counts, traffic,
        StreamStarts, Emit, Cancel, Steer, vars
<1>24. ASSUME NEW i \in DOMAIN tool, Acquire(i) \/ ToolEnds(i)
      PROVE  RequestsInv'
    BY <1>22, <1>24 DEF Acquire, Mark, ParallelUnchanged, droid, tools, counts,
        traffic, ToolEnds, Emit
<1>. QED
    BY <1>1, <1>2, <1>3, <1>4, <1>5, <1>6, <1>7, <1>8, <1>9, <1>10, <1>11,
        <1>12, <1>13, <1>14, <1>15, <1>16, <1>17, <1>18, <1>19, <1>20, <1>21,
        <1>22, <1>23, <1>24 DEF Next, LoopStep, Answer

\* Once the context is cancelled no turn is entered.
LEMMA LateStep ==
    RunOK /\ LateInv /\ [Next]_vars => LateInv'
<1>. SUFFICES ASSUME RunOK, LateInv, [Next]_vars
             PROVE  LateInv'
    OBVIOUS
<1>. USE DEF RunOK, LateInv, PCs
<1>1. ASSUME NEW k \in {"normal", "continuation"}, StartRun(k) PROVE LateInv'
    BY <1>1 DEF StartRun, tools, droid, counts, traffic
<1>2. CASE StepAborts
    BY <1>2 DEF StepAborts, EndRun, droid, tools, counts, traffic
<1>3. CASE StepFirst
    BY <1>3 DEF StepFirst, Turning, DrainSteering, droid, tools, counts,
        traffic
<1>4. CASE StepLater
    BY <1>4 DEF StepLater, DrainSteering, droid, tools, counts, traffic
<1>5. CASE Weigh
    BY <1>5 DEF Weigh, Turning, droid, tools, counts, traffic
<1>6. CASE HookFails
    BY <1>6 DEF HookFails, EndRun, droid, tools, counts, traffic
<1>7. CASE HookDeclines
    BY <1>7 DEF HookDeclines, EndRun, Turning, droid, tools, counts, traffic
<1>8. ASSUME NEW r \in Replacements, HookApplies(r) PROVE LateInv'
    BY <1>8 DEF HookApplies, Turning, tools, droid, counts, traffic
<1>9. CASE Request
    BY <1>9 DEF Request, droid, tools, counts, traffic
<1>10. ASSUME NEW m \in Replies, RespondOverflow(m) PROVE LateInv'
    BY <1>10 DEF RespondOverflow, MayRetry, Hear, counts, droid, tools, traffic
<1>11. ASSUME NEW m \in Replies, RespondFailing(m) PROVE LateInv'
    BY <1>11 DEF RespondFailing, EndRun, MayRetry, Hear, counts, droid, tools,
        traffic
<1>12. ASSUME NEW m \in Replies, RespondFinal(m) PROVE LateInv'
    BY <1>12 DEF RespondFinal, EndRun, Hear, counts, droid, tools, traffic
<1>13. ASSUME NEW m \in Replies, RespondCalling(m) PROVE LateInv'
    BY <1>13 DEF RespondCalling, Hear, counts, droid, tools, traffic
<1>14. CASE SequentialBlocked
    BY <1>14 DEF SequentialBlocked, Mark, KeepResult, NextCall, counts, droid,
        tools, traffic
<1>15. CASE SequentialStart
    BY <1>15 DEF SequentialStart, Mark, droid, tools, counts, traffic
<1>16. CASE ToolReturns
    BY <1>16 DEF ToolReturns, Mark, KeepResult, NextCall, counts, droid, tools,
        traffic
<1>17. ASSUME NEW blocked \in BOOLEAN, Preflight(blocked) PROVE LateInv'
    BY <1>17 DEF Preflight, Mark, droid, tools, counts, traffic
<1>18. CASE Join
    BY <1>18 DEF Join, droid, tools, counts, traffic
<1>19. CASE Finalize
    BY <1>19 DEF Finalize, KeepResult, counts, droid, tools, traffic
<1>20. CASE BatchEnd
    BY <1>20 DEF BatchEnd, EndRun, droid, tools, counts, traffic
<1>21. CASE Cancel
    BY <1>21 DEF Cancel, droid, tools, counts, traffic
<1>22. CASE Restart
    BY <1>22 DEF Restart, traffic, droid, tools, counts
<1>23. CASE UNCHANGED <<lateRequests, pc, ctxDone>>
    BY <1>23
<1>24. CASE RefuseContinuation \/ StreamStarts \/ Steer \/ UNCHANGED vars
    BY <1>23, <1>24 DEF RefuseContinuation, droid, tools, counts, traffic,
        StreamStarts, Emit, Steer, vars
<1>25. ASSUME NEW i \in DOMAIN tool, Acquire(i) \/ ToolEnds(i)
      PROVE  LateInv'
    BY <1>23, <1>25 DEF Acquire, Mark, ParallelUnchanged, droid, tools, counts,
        traffic, ToolEnds, Emit
<1>. QED
    BY <1>1, <1>2, <1>3, <1>4, <1>5, <1>6, <1>7, <1>8, <1>9, <1>10, <1>11,
        <1>12, <1>13, <1>14, <1>15, <1>16, <1>17, <1>18, <1>19, <1>20, <1>21,
        <1>22, <1>23, <1>24, <1>25 DEF Next, LoopStep, Answer

\* What of a batch is open to a consumer follows the state of its calls.
LEMMA MarkOpens ==
    ASSUME BatchOK, NEW i \in DOMAIN tool, NEW state \in ToolStates, Mark(i, state)
    PROVE  Open' = IF state \in {"ready", "running"} THEN Open \cup {i} ELSE Open \ {i}
<1>1. DOMAIN tool' = DOMAIN tool
    BY DEF Mark, BatchOK
<1>2. \A j \in DOMAIN tool : tool'[j] = IF j = i THEN state ELSE tool[j]
    BY DEF Mark, BatchOK
<1>. QED
    BY <1>1, <1>2 DEF Open

\* Where a consumer stands, by where the loop does.
LEMMA Stand ==
    ASSUME RunOK, BatchOK, BatchInv, ViewInv, NEW n, n = view.compactions
    PROVE  /\ pc # "idle" => n \in Nat
           /\ Open \subseteq Nat /\ (pc \notin {"running", "preflight", "parallel"} => Open = {})
           /\ pc \in {"step", "weigh"} => view = Reading(FALSE, FALSE, FALSE, {}, n)
           /\ pc = "hook" => view = Reading(FALSE, FALSE, TRUE, {}, n)
           /\ pc = "turn" => view = Reading(TRUE, FALSE, FALSE, {}, n)
           /\ pc \in Batching => view = Reading(TRUE, FALSE, FALSE, Open, n)
           /\ pc = "streaming" => view = Reading(TRUE, started, FALSE, {}, n)
<1>1. pc # "idle" => /\ n \in Nat
                     /\ view = Reading(pc \in Batching \cup {"turn", "streaming"},
                                       pc = "streaming" /\ started, pc = "hook", Open, n)
    BY DEF ViewInv, Fits
<1>2. Open \subseteq Nat
  <2>1. batch \in Seq(ToolCalls) /\ DOMAIN tool = DOMAIN batch
      BY BatchesAssumption DEF BatchOK
  <2>. QED
      BY <2>1 DEF Open
<1>3. pc \notin {"running", "preflight", "parallel"} => Open = {}
  <2>1. pc \in {"sequential", "finalize", "batchEnd"} => Open = {}
      BY DEF Open, BatchInv, BatchOK
  <2>2. pc \notin Batching => Open = {}
      BY DEF Open, BatchInv, BatchOK
  <2>. QED
      BY <2>1, <2>2 DEF Batching
<1>4. pc \in {"step", "weigh"} => view = Reading(FALSE, FALSE, FALSE, {}, n)
  <2>. SUFFICES ASSUME pc \in {"step", "weigh"}
                PROVE  view = Reading(FALSE, FALSE, FALSE, {}, n)
      OBVIOUS
  <2>1. /\ (pc \in Batching \cup {"turn", "streaming"}) = FALSE
        /\ (pc = "streaming" /\ started) = FALSE /\ (pc = "hook") = FALSE
      BY DEF Batching
  <2>. QED
      BY <1>1, <1>3, <2>1
<1>5. pc = "hook" => view = Reading(FALSE, FALSE, TRUE, {}, n)
  <2>. SUFFICES ASSUME pc = "hook" PROVE view = Reading(FALSE, FALSE, TRUE, {}, n)
      OBVIOUS
  <2>1. /\ (pc \in Batching \cup {"turn", "streaming"}) = FALSE
        /\ (pc = "streaming" /\ started) = FALSE /\ (pc = "hook") = TRUE
      BY DEF Batching
  <2>. QED
      BY <1>1, <1>3, <2>1
<1>6. pc \in Batching \cup {"turn"} => view = Reading(TRUE, FALSE, FALSE, Open, n)
  <2>. SUFFICES ASSUME pc \in Batching \cup {"turn"}
                PROVE  view = Reading(TRUE, FALSE, FALSE, Open, n)
      OBVIOUS
  <2>1. /\ (pc \in Batching \cup {"turn", "streaming"}) = TRUE
        /\ (pc = "streaming" /\ started) = FALSE /\ (pc = "hook") = FALSE
      BY DEF Batching
  <2>2. pc # "idle"
      BY DEF Batching
  <2>. QED
      BY <1>1, <2>1, <2>2
<1>7. pc = "streaming" => view = Reading(TRUE, started, FALSE, {}, n)
  <2>. SUFFICES ASSUME pc = "streaming" PROVE view = Reading(TRUE, started, FALSE, {}, n)
      OBVIOUS
  <2>1. /\ (pc \in Batching \cup {"turn", "streaming"}) = TRUE
        /\ (pc = "streaming" /\ started) = started /\ (pc = "hook") = FALSE
      BY DEF RunOK
  <2>. QED
      BY <1>1, <1>3, <2>1
<1>. QED
    BY <1>1, <1>2, <1>3, <1>4, <1>5, <1>6, <1>7

\* The same of where they have come to: between two turns,
LEMMA ArriveBetween ==
    ASSUME NEW n \in Nat, pc' \in {"step", "weigh"}, Open' = {},
           view' = Reading(FALSE, FALSE, FALSE, {}, n)
    PROVE  ViewInv' /\ view'.compactions = n
<1>1. view'.compactions = n
    BY DEF Reading
<1>2. /\ (pc' \in Batching \cup {"turn", "streaming"}) = FALSE
      /\ (pc' = "streaming" /\ started') = FALSE /\ (pc' = "hook") = FALSE
      /\ pc' # "idle"
    BY DEF Batching
<1>3. view' = Reading(pc' \in Batching \cup {"turn", "streaming"},
                      pc' = "streaming" /\ started', pc' = "hook", Open', n)
    BY <1>2
<1>. QED
    BY <1>1, <1>2, <1>3 DEF ViewInv, Fits

\* in a compaction,
LEMMA ArriveHook ==
    ASSUME NEW n \in Nat, pc' = "hook", Open' = {},
           view' = Reading(FALSE, FALSE, TRUE, {}, n)
    PROVE  ViewInv' /\ view'.compactions = n
<1>1. view'.compactions = n
    BY DEF Reading
<1>2. /\ (pc' \in Batching \cup {"turn", "streaming"}) = FALSE
      /\ (pc' = "streaming" /\ started') = FALSE /\ (pc' = "hook") = TRUE
      /\ pc' # "idle"
    BY DEF Batching
<1>3. view' = Reading(pc' \in Batching \cup {"turn", "streaming"},
                      pc' = "streaming" /\ started', pc' = "hook", Open', n)
    BY <1>2
<1>. QED
    BY <1>1, <1>2, <1>3 DEF ViewInv, Fits

\* in a turn,
LEMMA ArriveTurn ==
    ASSUME NEW n \in Nat, pc' \in Batching \cup {"turn"},
           view' = Reading(TRUE, FALSE, FALSE, Open', n)
    PROVE  ViewInv' /\ view'.compactions = n
<1>1. view'.compactions = n
    BY DEF Reading
<1>2. /\ (pc' \in Batching \cup {"turn", "streaming"}) = TRUE
      /\ (pc' = "streaming" /\ started') = FALSE /\ (pc' = "hook") = FALSE
      /\ pc' # "idle"
    BY DEF Batching
<1>3. view' = Reading(pc' \in Batching \cup {"turn", "streaming"},
                      pc' = "streaming" /\ started', pc' = "hook", Open', n)
    BY <1>2
<1>. QED
    BY <1>1, <1>2, <1>3 DEF ViewInv, Fits

\* in a message,
LEMMA ArriveStream ==
    ASSUME NEW n \in Nat, pc' = "streaming", started' \in BOOLEAN, Open' = {},
           view' = Reading(TRUE, started', FALSE, {}, n)
    PROVE  ViewInv' /\ view'.compactions = n
<1>1. view'.compactions = n
    BY DEF Reading
<1>2. /\ (pc' \in Batching \cup {"turn", "streaming"}) = TRUE
      /\ (pc' = "streaming" /\ started') = started' /\ (pc' = "hook") = FALSE
      /\ pc' # "idle"
    BY DEF Batching
<1>3. view' = Reading(pc' \in Batching \cup {"turn", "streaming"},
                      pc' = "streaming" /\ started', pc' = "hook", Open', n)
    BY <1>2
<1>. QED
    BY <1>1, <1>2, <1>3 DEF ViewInv, Fits

\* at the end of the run.
LEMMA ArriveIdle ==
    ASSUME NEW n \in Nat, pc' = "idle", Over(view', n)
    PROVE  ViewInv' /\ view'.compactions = n
    BY DEF ViewInv, Fits, Over

\* How the count of compactions moves.
Counted ==
    view'.compactions =
        IF (pc = "idle" /\ pc' # "idle") \/ crashes' # crashes THEN 0
        ELSE IF pc # "hook" /\ pc' = "hook" THEN view.compactions + 1
        ELSE view.compactions

\* The events of a step at once: into a turn,
LEMMA TurnsFrom ==
    ASSUME NEW n \in Nat
    PROVE  /\ ReadAll(Reading(FALSE, FALSE, FALSE, {}, n), <<>> \o <<Event("TurnStart")>>) = Reading(TRUE, FALSE, FALSE, {}, n)
           /\ ReadAll(Reading(FALSE, FALSE, TRUE, {}, n), <<Event("CompactionEnd")>> \o <<Event("TurnStart")>>) = Reading(TRUE, FALSE, FALSE, {}, n)
<1>. DEFINE u == Reading(FALSE, FALSE, FALSE, {}, n)
            v == Reading(FALSE, FALSE, TRUE, {}, n)
            w == Reading(TRUE, FALSE, FALSE, {}, n)
            d == Event("CompactionEnd")
            e == Event("TurnStart")
<1>1. d \in Events /\ e \in Events
    BY EventsTyped DEF Kinds
<1>2. u \in View /\ v \in View
    BY ReadingTyped
<1>3. ReadAll(u, <<e>>) = w /\ ReadAll(v, <<d>>) = u
    BY ReadTurnStart, ReadCompactionEnd
<1>. HIDE DEF u, v, w, d, e
<1>4. <<>> \in Seq(Events) /\ <<d>> \in Seq(Events) /\ <<e>> \in Seq(Events)
    BY <1>1, ShortSequences
<1>5. ReadAll(u, <<>>) = u
    BY <1>2, ReadNothing
<1>6. ReadAll(u, <<>> \o <<e>>) = w
    BY <1>2, <1>3, <1>4, <1>5, ReadThen
<1>7. ReadAll(v, <<d>> \o <<e>>) = w
  <2>1. ReadAll(v, <<d>> \o <<e>>) = ReadAll(ReadAll(v, <<d>>), <<e>>)
      BY <1>2, <1>4, ReadBoth
  <2>. QED
      BY <1>3, <2>1
<1>. QED
    BY <1>6, <1>7 DEF u, v, w, d, e

\* out of a compaction that failed,
LEMMA CompactionFails ==
    ASSUME NEW n \in Nat
    PROVE  Over(ReadAll(Reading(FALSE, FALSE, TRUE, {}, n),
                        <<Event("CompactionEnd"), Event("ErrorEvent")>> \o <<Event("AgentEnd")>>), n)
<1>. DEFINE v == Reading(FALSE, FALSE, TRUE, {}, n)
            w == Reading(FALSE, FALSE, FALSE, {}, n)
            events == <<Event("CompactionEnd"), Event("ErrorEvent")>>
<1>1. v \in View /\ ReadAll(v, <<Event("CompactionEnd")>>) = w
    BY ReadingTyped, ReadCompactionEnd
<1>. HIDE DEF v, w
<1>2. /\ events \in Seq(Events)
      /\ ReadAll(v, events) = ReadAll(w, <<Event("ErrorEvent")>>)
  <2>1. "CompactionEnd" \in Kinds /\ "ErrorEvent" \in Kinds
      BY DEF Kinds
  <2>. QED
      BY <1>1, <2>1, ReadPair
<1>3. Ending(ReadAll(v, events), n)
    BY <1>2, ReadFailure DEF w
<1>. HIDE DEF events
<1>4. Over(ReadAll(v, events \o <<Event("AgentEnd")>>), n)
    BY <1>1, <1>2, <1>3, ReadEnd
<1>. QED
    BY <1>4 DEF v, events

\* out of a turn: to another or to the end of the run,
LEMMA TurnEndsRun ==
    ASSUME NEW n \in Nat
    PROVE  Over(ReadAll(Reading(TRUE, FALSE, FALSE, {}, n), <<Event("TurnEnd")>> \o <<Event("AgentEnd")>>), n)
<1>. DEFINE v == Reading(TRUE, FALSE, FALSE, {}, n)
            events == <<Event("TurnEnd")>>
<1>1. v \in View
    BY ReadingTyped
<1>2. ReadAll(v, events) = Reading(FALSE, FALSE, FALSE, {}, n)
    BY ReadTurnEnd
<1>3. Ending(ReadAll(v, events), n)
    BY <1>2, ReadingEnds
<1>4. events \in Seq(Events)
    BY EventsTyped DEF Kinds
<1>. HIDE DEF v, events
<1>5. Over(ReadAll(v, events \o <<Event("AgentEnd")>>), n)
    BY <1>1, <1>3, <1>4, ReadEnd
<1>. QED
    BY <1>5 DEF v, events

\* from its message to the end of the turn and what follows,
LEMMA SaidThen ==
    ASSUME NEW n \in Nat, started \in BOOLEAN, NEW events \in Seq(Events), NEW w,
           ReadAll(Reading(TRUE, FALSE, FALSE, {}, n), events) = w
    PROVE  /\ Reading(TRUE, started, FALSE, {}, n) \in View
           /\ Said \o events \in Seq(Events)
           /\ ReadAll(Reading(TRUE, started, FALSE, {}, n), Said \o events) = w
<1>. DEFINE v == Reading(TRUE, started, FALSE, {}, n)
            u == Reading(TRUE, FALSE, FALSE, {}, n)
<1>1. v \in View
    BY ReadingTyped
<1>2. Said \in Seq(Events) /\ ReadAll(v, Said) = u
    BY ReadSaid
<1>. HIDE DEF v, u
<1>3. ReadAll(v, Said \o events) = w /\ Said \o events \in Seq(Events)
  <2>1. ReadAll(u, events) = w
      BY DEF u
  <2>2. ReadAll(v, Said \o events) = ReadAll(ReadAll(v, Said), events)
      BY <1>1, <1>2, ReadBoth
  <2>3. Said \o events \in Seq(Events)
      BY <1>2
  <2>. QED
      BY <1>2, <2>1, <2>2, <2>3
<1>. QED
    BY <1>1, <1>3 DEF v

\* into a compaction,
LEMMA TurnCompacts ==
    ASSUME NEW n \in Nat, started \in BOOLEAN
    PROVE  /\ ReadAll(Reading(TRUE, started, FALSE, {}, n), Said \o <<Event("TurnEnd"), Event("CompactionStart")>>)
                  = Reading(FALSE, FALSE, TRUE, {}, n + 1)
           /\ n + 1 \in Nat
<1>. DEFINE events == <<Event("TurnEnd"), Event("CompactionStart")>>
            v == Reading(TRUE, FALSE, FALSE, {}, n)
            w == Reading(FALSE, FALSE, FALSE, {}, n)
<1>1. v \in View /\ ReadAll(v, <<Event("TurnEnd")>>) = w
    BY ReadingTyped, ReadTurnEnd
<1>. HIDE DEF v, w
<1>2. /\ events \in Seq(Events)
      /\ ReadAll(v, events) = ReadAll(w, <<Event("CompactionStart")>>)
  <2>1. "TurnEnd" \in Kinds /\ "CompactionStart" \in Kinds
      BY DEF Kinds
  <2>. QED
      BY <1>1, <2>1, ReadPair
<1>3. ReadAll(w, <<Event("CompactionStart")>>) = Reading(FALSE, FALSE, TRUE, {}, n + 1)
    BY ReadCompactionStart DEF w
<1>. HIDE DEF events
<1>4. ReadAll(Reading(TRUE, FALSE, FALSE, {}, n), events) = Reading(FALSE, FALSE, TRUE, {}, n + 1)
    BY <1>2, <1>3 DEF v
<1>5. ReadAll(Reading(TRUE, started, FALSE, {}, n), Said \o events) = Reading(FALSE, FALSE, TRUE, {}, n + 1)
    BY <1>2, <1>4, SaidThen, ZenonT(60)
<1>6. n + 1 \in Nat
    OBVIOUS
<1>. QED
    BY <1>5, <1>6 DEF events

\* into the failure that ends the run,
LEMMA TurnFails ==
    ASSUME NEW n \in Nat, started \in BOOLEAN,
           NEW which \in {"ErrorEvent", "AbortedErrorEvent"}
    PROVE  Over(ReadAll(Reading(TRUE, started, FALSE, {}, n), (Said \o <<Event("TurnEnd"), Event(which)>>)
                             \o <<Event("AgentEnd")>>), n)
<1>. DEFINE events == <<Event("TurnEnd"), Event(which)>>
            v == Reading(TRUE, started, FALSE, {}, n)
            w == ReadAll(Reading(TRUE, FALSE, FALSE, {}, n), events)
<1>1. Reading(TRUE, FALSE, FALSE, {}, n) \in View /\ ReadAll(Reading(TRUE, FALSE, FALSE, {}, n), <<Event("TurnEnd")>>) = Reading(FALSE, FALSE, FALSE, {}, n)
    BY ReadingTyped, ReadTurnEnd
<1>2. events \in Seq(Events) /\ w = ReadAll(Reading(FALSE, FALSE, FALSE, {}, n), <<Event(which)>>)
  <2>. DEFINE x == Reading(TRUE, FALSE, FALSE, {}, n)
              y == Reading(FALSE, FALSE, FALSE, {}, n)
  <2>1. "TurnEnd" \in Kinds /\ which \in Kinds
      BY DEF Kinds
  <2>2. x \in View /\ ReadAll(x, <<Event("TurnEnd")>>) = y
      BY <1>1
  <2>. HIDE DEF x, y
  <2>3. /\ events \in Seq(Events)
        /\ ReadAll(x, events) = ReadAll(y, <<Event(which)>>)
      BY <2>1, <2>2, ReadPair
  <2>. QED
      BY <2>3 DEF x, y
<1>3. Ending(w, n)
    BY <1>2, ReadFailure
<1>. HIDE DEF events
<1>4. v \in View /\ Said \o events \in Seq(Events) /\ ReadAll(v, Said \o events) = w
    BY <1>2, SaidThen
<1>. HIDE DEF v, w
<1>5. Over(ReadAll(v, (Said \o events) \o <<Event("AgentEnd")>>), n)
    BY <1>3, <1>4, ReadEnd
<1>. QED
    BY <1>5 DEF v, events

\* or into the plain end of the run (agent.go).
LEMMA TurnFinishes ==
    ASSUME NEW n \in Nat, started \in BOOLEAN
    PROVE  Over(ReadAll(Reading(TRUE, started, FALSE, {}, n), (Said \o <<Event("TurnEnd")>>) \o <<Event("AgentEnd")>>), n)
<1>. DEFINE events == <<Event("TurnEnd")>>
            v == Reading(TRUE, started, FALSE, {}, n)
            w == ReadAll(Reading(TRUE, FALSE, FALSE, {}, n), events)
<1>1. events \in Seq(Events) /\ w = Reading(FALSE, FALSE, FALSE, {}, n)
  <2>1. events \in Seq(Events)
      BY EventsTyped DEF Kinds
  <2>2. w = Reading(FALSE, FALSE, FALSE, {}, n)
      BY ReadTurnEnd
  <2>. QED
      BY <2>1, <2>2
<1>2. Ending(w, n)
    BY <1>1, ReadingEnds
<1>. HIDE DEF events
<1>3. v \in View /\ Said \o events \in Seq(Events) /\ ReadAll(v, Said \o events) = w
    BY <1>1, SaidThen
<1>. HIDE DEF v, w
<1>4. Over(ReadAll(v, (Said \o events) \o <<Event("AgentEnd")>>), n)
    BY <1>2, <1>3, ReadEnd
<1>. QED
    BY <1>4 DEF v, events

\* and through its calls.
LEMMA AnnouncedAlone ==
    ASSUME NEW n \in Nat
    PROVE  ReadAll(Reading(TRUE, FALSE, FALSE, {}, n), <<>> \o Announced) = Reading(TRUE, FALSE, FALSE, {}, n)
<1>. DEFINE v == Reading(TRUE, FALSE, FALSE, {}, n)
<1>1. v \in View
    BY ReadingTyped
<1>2. ReadAll(v, Announced) = v /\ Announced \in Seq(Events)
    BY ReadAnnounced
<1>. HIDE DEF v
<1>3. ReadAll(v, <<>>) = v /\ <<>> \in Seq(Events)
    BY <1>1, ReadNothing
<1>4. ReadAll(v, <<>> \o Announced) = ReadAll(ReadAll(v, <<>>), Announced)
    BY <1>1, <1>2, <1>3, ReadBoth
<1>. QED
    BY <1>2, <1>3, <1>4 DEF v

\* When the last call underway ends, the results are announced and no call is
\* left underway.
LEMMA CallReturns ==
    ASSUME NEW n \in Nat, NEW calls \in SUBSET Nat, NEW i \in calls, calls \ {i} = {}
    PROVE  ReadAll(Reading(TRUE, FALSE, FALSE, calls, n),
                   <<CallEvent("ToolExecutionEnd", i)>> \o Announced)
               = Reading(TRUE, FALSE, FALSE, calls \ {i}, n)
<1>. DEFINE v == Reading(TRUE, FALSE, FALSE, calls, n)
            w == Reading(TRUE, FALSE, FALSE, {}, n)
            e == CallEvent("ToolExecutionEnd", i)
<1>1. e \in Events /\ v \in View
  <2>1. e \in Events
      BY EventsTyped DEF Kinds
  <2>2. v \in View
      BY ReadingTyped
  <2>. QED
      BY <2>1, <2>2
<1>2. ReadAll(v, <<e>>) = w
    BY ReadToolEnd, ZenonT(60)
<1>3. ReadAll(w, Announced) = w /\ Announced \in Seq(Events)
    BY ReadAnnounced
<1>. HIDE DEF v, w, e
<1>4. <<e>> \in Seq(Events)
    BY <1>1
<1>5. ReadAll(v, <<e>> \o Announced) = ReadAll(ReadAll(v, <<e>>), Announced)
    BY <1>1, <1>3, <1>4, ReadBoth
<1>. QED
    BY <1>2, <1>3, <1>5 DEF v, w, e

\* A call that starts is underway, one that ends at once leaves no trace, whether
\* or not the results of its batch are announced then.
LEMMA CallStartsAndEnds ==
    ASSUME NEW n \in Nat, NEW calls \in SUBSET Nat, NEW i \in Nat, i \notin calls
    PROVE  /\ ReadAll(Reading(TRUE, FALSE, FALSE, calls, n),
                      <<CallEvent("ToolExecutionStart", i)>> \o <<>>)
                  = Reading(TRUE, FALSE, FALSE, calls \cup {i}, n)
           /\ ReadAll(Reading(TRUE, FALSE, FALSE, calls, n),
                      <<CallEvent("ToolExecutionStart", i)>>
                      \o <<CallEvent("ToolExecutionEnd", i)>>)
                  = Reading(TRUE, FALSE, FALSE, calls, n)
           /\ ReadAll(Reading(TRUE, FALSE, FALSE, calls, n),
                      <<CallEvent("ToolExecutionStart", i), CallEvent("ToolExecutionEnd", i)>>)
                  = Reading(TRUE, FALSE, FALSE, calls, n)
<1>. DEFINE v == Reading(TRUE, FALSE, FALSE, calls, n)
            more == calls \cup {i}
            w == Reading(TRUE, FALSE, FALSE, more, n)
            d == CallEvent("ToolExecutionStart", i)
            e == CallEvent("ToolExecutionEnd", i)
<1>1. d \in Events /\ e \in Events
    BY EventsTyped DEF Kinds
<1>2. v \in View /\ w \in View
    BY ReadingTyped
<1>3. ReadAll(v, <<d>>) = w
  <2>1. i \in Nat \ calls
      OBVIOUS
  <2>. QED
      BY <2>1, ReadToolStart
<1>4. ReadAll(w, <<e>>) = v
  <2>1. more \in SUBSET Nat /\ i \in more /\ more \ {i} = calls
      OBVIOUS
  <2>. HIDE DEF more
  <2>2. ReadAll(w, <<e>>) = Reading(TRUE, FALSE, FALSE, more \ {i}, n)
      BY <2>1, ReadToolEnd
  <2>. QED
      BY <2>1, <2>2
<1>. HIDE DEF v, w, d, e
<1>5. <<>> \in Seq(Events) /\ <<d>> \in Seq(Events) /\ <<e>> \in Seq(Events)
    BY <1>1, ShortSequences
<1>6. ReadAll(w, <<>>) = w
    BY <1>2, ReadNothing
<1>7. ReadAll(v, <<d>> \o <<>>) = w
    BY <1>2, <1>3, <1>5, <1>6, ReadThen
<1>8. ReadAll(v, <<d>> \o <<e>>) = v
  <2>1. ReadAll(v, <<d>> \o <<e>>) = ReadAll(ReadAll(v, <<d>>), <<e>>)
      BY <1>2, <1>5, ReadBoth
  <2>. QED
      BY <1>3, <1>4, <2>1
<1>9. ReadAll(v, <<d, e>>) = v
    BY <1>1, <1>2, <1>3, <1>4, ReadTwo
<1>. QED
    BY <1>7, <1>8, <1>9 DEF v, w, d, e

\* A call that a hook blocks starts and ends before the results are announced.
LEMMA CallBlocked ==
    ASSUME NEW n \in Nat, NEW i \in Nat
    PROVE  ReadAll(Reading(TRUE, FALSE, FALSE, {}, n),
                   <<CallEvent("ToolExecutionStart", i), CallEvent("ToolExecutionEnd", i)>>
                   \o Announced)
               = Reading(TRUE, FALSE, FALSE, {}, n)
<1>. DEFINE v == Reading(TRUE, FALSE, FALSE, {}, n)
            d == CallEvent("ToolExecutionStart", i)
            e == CallEvent("ToolExecutionEnd", i)
<1>1. d \in Events /\ e \in Events
    BY EventsTyped DEF Kinds
<1>2. v \in View
    BY ReadingTyped
<1>3. ReadAll(v, <<d, e>>) = v
  <2>1. {} \in SUBSET Nat /\ i \notin {}
      OBVIOUS
  <2>. QED
      BY <2>1, CallStartsAndEnds
<1>4. ReadAll(v, Announced) = v /\ Announced \in Seq(Events)
    BY ReadAnnounced
<1>. HIDE DEF v, d, e
<1>5. <<d, e>> \in Seq(Events)
    BY <1>1, ShortSequences
<1>6. ReadAll(v, <<d, e>> \o Announced) = ReadAll(ReadAll(v, <<d, e>>), Announced)
    BY <1>2, <1>4, <1>5, ReadBoth
<1>. QED
    BY <1>3, <1>4, <1>6 DEF v, d, e

\* Each step announces what it does: the view goes where the loop goes.
LEMMA ViewStep ==
    ASSUME TypeOK, BatchInv, ViewInv, [Next]_vars
    PROVE  ViewInv' /\ Counted
<1>. USE DEF TypeOK
<1>. DEFINE n == view.compactions
<1>1. /\ pc # "idle" => n \in Nat
      /\ Open \subseteq Nat /\ (pc \notin {"running", "preflight", "parallel"} => Open = {})
      /\ pc \in {"step", "weigh"} => view = Reading(FALSE, FALSE, FALSE, {}, n)
      /\ pc = "hook" => view = Reading(FALSE, FALSE, TRUE, {}, n)
      /\ pc = "turn" => view = Reading(TRUE, FALSE, FALSE, {}, n)
      /\ pc \in Batching => view = Reading(TRUE, FALSE, FALSE, Open, n)
      /\ pc = "streaming" => view = Reading(TRUE, started, FALSE, {}, n)
    BY Stand
<1>2. n = view.compactions
    OBVIOUS
<1>. HIDE DEF n
<1>3. ASSUME NEW k \in {"normal", "continuation"}, StartRun(k) PROVE ViewInv' /\ Counted
  <2>1. /\ pc = "idle" /\ pc' = "step" /\ Open' = Open
        /\ view' = ReadAll(FreshView, <<Event("AgentStart")>>
                                       \o (IF k = "normal" THEN Announced ELSE <<>>))
    BY <1>3 DEF StartRun, Open, tools
  <2>2. Open = {}
    BY <1>1, <2>1
  <2>3. view' = Reading(FALSE, FALSE, FALSE, {}, 0)
    <3>1. CASE k = "normal"
      BY <2>1, <3>1, ReadStart
    <3>2. CASE k # "normal"
      BY <2>1, <3>2, ReadStart
    <3>. QED
      BY <3>1, <3>2
  <2>4. ViewInv' /\ view'.compactions = 0
    BY <2>1, <2>2, <2>3, ArriveBetween
  <2>. QED
    BY <2>1, <2>4 DEF Counted
<1>4. CASE StepAborts
  <2>1. /\ pc = "step" /\ pc' = "idle" /\ crashes' = crashes /\ started' = started
        /\ view' = ReadAll(view, <<Event("AbortedErrorEvent")>> \o <<Event("AgentEnd")>>) /\ Open' = Open
    BY <1>4 DEF StepAborts, EndRun, Emit, Open, tools, counts
  <2>2. n \in Nat /\ view = Reading(FALSE, FALSE, FALSE, {}, n) /\ Open = {}
    BY <1>1, <2>1 DEF Batching
  <2>3. Over(ReadAll(Reading(FALSE, FALSE, FALSE, {}, n), <<Event("AbortedErrorEvent")>> \o <<Event("AgentEnd")>>), n)
    <3>1. <<Event("AbortedErrorEvent")>> \in Seq(Events)
      BY EventsTyped DEF Kinds
    <3>2. Ending(ReadAll(Reading(FALSE, FALSE, FALSE, {}, n), <<Event("AbortedErrorEvent")>>), n)
      BY <2>2, ReadFailure
    <3>3. Reading(FALSE, FALSE, FALSE, {}, n) \in View
      BY <2>2, ReadingTyped
    <3>. QED
      BY <2>2, <3>1, <3>2, <3>3, ReadEnd
  <2>4. ViewInv' /\ view'.compactions = n
    BY <2>1, <2>2, <2>3, ArriveIdle
  <2>. QED
    BY <1>2, <2>1, <2>4 DEF Counted
<1>5. CASE StepFirst
  <2>1. /\ pc = "step" /\ crashes' = crashes /\ Open' = Open
    BY <1>5 DEF StepFirst, Open, tools, counts
  <2>2. n \in Nat /\ view = Reading(FALSE, FALSE, FALSE, {}, n) /\ Open = {}
    BY <1>1, <2>1
  <2>3. CASE kind = "normal"
    <3>1. pc' = "weigh" /\ view' = ReadAll(view, Drained)
      BY <1>5, <2>3 DEF StepFirst, Emit
    <3>2. Len(steering) \in Nat /\ Drained = AnnouncedTimes(Len(steering))
      BY <2>3 DEF Drained, DroidOK
    <3>3. view' = Reading(FALSE, FALSE, FALSE, {}, n)
      BY <2>2, <3>1, <3>2, ReadAnnouncedTimes
    <3>4. ViewInv' /\ view'.compactions = n
      BY <2>1, <2>2, <3>1, <3>3, ArriveBetween
    <3>. QED
      BY <1>2, <2>1, <3>1, <3>4 DEF Counted
  <2>4. CASE kind # "normal"
    <3>1. pc' = "turn" /\ view' = ReadAll(view, <<>> \o <<Event("TurnStart")>>)
      BY <1>5, <2>4 DEF StepFirst, Turning, Emit
    <3>2. view' = Reading(TRUE, FALSE, FALSE, {}, n)
      BY <2>2, <3>1, TurnsFrom
    <3>3. ViewInv' /\ view'.compactions = n
      BY <2>1, <2>2, <3>1, <3>2, ArriveTurn
    <3>. QED
      BY <1>2, <2>1, <3>1, <3>3 DEF Counted
  <2>. QED
    BY <2>3, <2>4
<1>6. CASE StepLater
  <2>1. /\ pc = "step" /\ pc' = "turn" /\ crashes' = crashes /\ started' = started
        /\ view' = ReadAll(view, <<Event("TurnStart")>> \o Drained) /\ Open' = Open
    BY <1>6 DEF StepLater, Emit, Open, tools, counts
  <2>2. n \in Nat /\ view = Reading(FALSE, FALSE, FALSE, {}, n) /\ Open = {}
    BY <1>1, <2>1 DEF Batching
  <2>3. ReadAll(Reading(FALSE, FALSE, FALSE, {}, n), <<Event("TurnStart")>> \o Drained) = Reading(TRUE, FALSE, FALSE, {}, n)
    <3>1. PICK k \in Nat : Drained = AnnouncedTimes(k)
      <4>1. AnnouncedTimes(0) = <<>>
        BY DEF AnnouncedTimes
      <4>2. Len(steering) \in Nat
        BY DEF DroidOK
      <4>. QED
        BY <4>1, <4>2 DEF Drained
    <3>2. Drained \in Seq(Events) /\ ReadAll(Reading(TRUE, FALSE, FALSE, {}, n), Drained) = Reading(TRUE, FALSE, FALSE, {}, n)
      BY <2>2, <3>1, ReadAnnouncedTimes
    <3>3. <<Event("TurnStart")>> \in Seq(Events)
      BY EventsTyped DEF Kinds
    <3>4. ReadAll(Reading(FALSE, FALSE, FALSE, {}, n), <<Event("TurnStart")>>) = Reading(TRUE, FALSE, FALSE, {}, n) /\ Reading(FALSE, FALSE, FALSE, {}, n) \in View
      BY <2>2, ReadTurnStart, ReadingTyped
    <3>5. ReadAll(Reading(FALSE, FALSE, FALSE, {}, n), <<Event("TurnStart")>> \o Drained)
              = ReadAll(ReadAll(Reading(FALSE, FALSE, FALSE, {}, n), <<Event("TurnStart")>>), Drained)
      BY <3>2, <3>3, <3>4, ReadBoth
    <3>. QED
      BY <3>2, <3>4, <3>5
  <2>4. ViewInv' /\ view'.compactions = n
    BY <2>1, <2>2, <2>3, ArriveTurn
  <2>. QED
    BY <1>2, <2>1, <2>4 DEF Counted
<1>7. CASE Weigh
  <2>1. /\ pc = "weigh" /\ crashes' = crashes /\ Open' = Open
    BY <1>7 DEF Weigh, Open, tools, counts
  <2>2. n \in Nat /\ view = Reading(FALSE, FALSE, FALSE, {}, n) /\ Open = {}
    BY <1>1, <2>1
  <2>3. CASE ShouldCompact(transcript)
    <3>1. pc' = "hook" /\ view' = ReadAll(view, <<Event("CompactionStart")>>)
      BY <1>7, <2>3 DEF Weigh, Emit
    <3>2. view' = Reading(FALSE, FALSE, TRUE, {}, n + 1) /\ n + 1 \in Nat
      <4>1. view' = Reading(FALSE, FALSE, TRUE, {}, n + 1)
        BY <2>2, <3>1, ReadCompactionStart
      <4>2. n + 1 \in Nat
        BY <2>2
      <4>. QED
        BY <4>1, <4>2
    <3>3. ViewInv' /\ view'.compactions = n + 1
      BY <2>1, <2>2, <3>1, <3>2, ArriveHook
    <3>. QED
      BY <1>2, <2>1, <3>1, <3>3 DEF Counted
  <2>4. CASE ~ShouldCompact(transcript)
    <3>1. pc' = "turn" /\ view' = ReadAll(view, <<>> \o <<Event("TurnStart")>>)
      BY <1>7, <2>4 DEF Weigh, Turning, Emit
    <3>2. view' = Reading(TRUE, FALSE, FALSE, {}, n)
      BY <2>2, <3>1, TurnsFrom
    <3>3. ViewInv' /\ view'.compactions = n
      BY <2>1, <2>2, <3>1, <3>2, ArriveTurn
    <3>. QED
      BY <1>2, <2>1, <3>1, <3>3 DEF Counted
  <2>. QED
    BY <2>3, <2>4
<1>8. CASE HookFails
  <2>1. /\ pc = "hook" /\ pc' = "idle" /\ crashes' = crashes /\ started' = started
        /\ view' = ReadAll(view, <<Event("CompactionEnd"), Event("ErrorEvent")>> \o <<Event("AgentEnd")>>) /\ Open' = Open
    BY <1>8 DEF HookFails, EndRun, Emit, Open, tools, counts
  <2>2. n \in Nat /\ view = Reading(FALSE, FALSE, TRUE, {}, n) /\ Open = {}
    BY <1>1, <2>1 DEF Batching
  <2>3. Over(ReadAll(Reading(FALSE, FALSE, TRUE, {}, n),
                     <<Event("CompactionEnd"), Event("ErrorEvent")>> \o <<Event("AgentEnd")>>), n)
    BY <2>2, CompactionFails
  <2>4. ViewInv' /\ view'.compactions = n
    BY <2>1, <2>2, <2>3, ArriveIdle
  <2>. QED
    BY <1>2, <2>1, <2>4 DEF Counted
<1>9. CASE HookDeclines
  <2>1. /\ pc = "hook" /\ crashes' = crashes /\ Open' = Open
    BY <1>9 DEF HookDeclines, Open, tools, counts
  <2>2. n \in Nat /\ view = Reading(FALSE, FALSE, TRUE, {}, n) /\ Open = {}
    BY <1>1, <2>1
  <2>3. CASE reason = "threshold"
    <3>1. /\ pc' = "turn"
          /\ view' = ReadAll(view, <<Event("CompactionEnd")>> \o <<Event("TurnStart")>>)
      BY <1>9, <2>3 DEF HookDeclines, Turning, Emit
    <3>2. view' = Reading(TRUE, FALSE, FALSE, {}, n)
      BY <2>2, <3>1, TurnsFrom
    <3>3. ViewInv' /\ view'.compactions = n
      BY <2>1, <2>2, <3>1, <3>2, ArriveTurn
    <3>. QED
      BY <1>2, <2>1, <3>1, <3>3 DEF Counted
  <2>4. CASE reason # "threshold"
    <3>1. /\ pc' = "idle"
          /\ view' = ReadAll(view, <<Event("CompactionEnd"), Event("ErrorEvent")>> \o <<Event("AgentEnd")>>)
      BY <1>9, <2>4 DEF HookDeclines, EndRun, Emit
    <3>2. Over(view', n)
      BY <2>2, <3>1, CompactionFails
    <3>3. ViewInv' /\ view'.compactions = n
      BY <2>2, <3>1, <3>2, ArriveIdle
    <3>. QED
      BY <1>2, <2>1, <3>1, <3>3 DEF Counted
  <2>. QED
    BY <2>3, <2>4
<1>10. ASSUME NEW r \in Replacements, HookApplies(r) PROVE ViewInv' /\ Counted
  <2>1. /\ pc = "hook" /\ pc' = "turn" /\ crashes' = crashes /\ started' = started
        /\ view' = ReadAll(view, <<Event("CompactionEnd")>> \o <<Event("TurnStart")>>) /\ Open' = Open
    BY <1>10 DEF HookApplies, Turning, Emit, Open, tools, counts
  <2>2. n \in Nat /\ view = Reading(FALSE, FALSE, TRUE, {}, n) /\ Open = {}
    BY <1>1, <2>1 DEF Batching
  <2>3. ReadAll(Reading(FALSE, FALSE, TRUE, {}, n), <<Event("CompactionEnd")>> \o <<Event("TurnStart")>>)
            = Reading(TRUE, FALSE, FALSE, {}, n)
    BY <2>2, TurnsFrom
  <2>4. ViewInv' /\ view'.compactions = n
    BY <2>1, <2>2, <2>3, ArriveTurn
  <2>. QED
    BY <1>2, <2>1, <2>4 DEF Counted
<1>11. CASE Request
  <2>1. /\ pc = "turn" /\ pc' = "streaming" /\ crashes' = crashes /\ started' = FALSE
        /\ view' = view /\ Open' = Open
    BY <1>11 DEF Request, Open, tools, counts
  <2>2. n \in Nat /\ view = Reading(TRUE, FALSE, FALSE, {}, n) /\ Open = {}
    BY <1>1, <2>1 DEF Batching
  <2>3. ViewInv' /\ view'.compactions = n
    BY <2>1, <2>2, ArriveStream
  <2>. QED
    BY <1>2, <2>1, <2>3 DEF Counted
<1>12. CASE StreamStarts
  <2>1. /\ pc = "streaming" /\ pc' = "streaming" /\ crashes' = crashes /\ ~started
        /\ started' = TRUE
        /\ view' = ReadAll(view, <<Event("MessageStart")>>) /\ Open' = Open
    BY <1>12 DEF StreamStarts, Emit, Open, tools, counts
  <2>2. n \in Nat /\ view = Reading(TRUE, FALSE, FALSE, {}, n) /\ Open = {}
    <3>1. started = FALSE
      BY <2>1 DEF RunOK
    <3>. QED
      BY <1>1, <2>1, <3>1
  <2>3. view' = Reading(TRUE, TRUE, FALSE, {}, n)
    BY <2>1, <2>2, ReadMessageStart
  <2>4. ViewInv' /\ view'.compactions = n
    BY <2>1, <2>2, <2>3, ArriveStream
  <2>. QED
    BY <1>2, <2>1, <2>4 DEF Counted
<1>13. ASSUME NEW m \in Replies, RespondOverflow(m) PROVE ViewInv' /\ Counted
  <2>1. /\ pc = "streaming" /\ crashes' = crashes /\ started \in BOOLEAN /\ Open' = Open
    BY <1>13 DEF RespondOverflow, Hear, Open, tools, counts, RunOK
  <2>2. n \in Nat /\ view = Reading(TRUE, started, FALSE, {}, n) /\ Open = {}
    BY <1>1, <2>1 DEF Batching
  <2>3. /\ pc' = "hook"
        /\ view' = ReadAll(view, Said \o <<Event("TurnEnd"), Event("CompactionStart")>>)
    BY <1>13 DEF RespondOverflow, Emit
  <2>4. view' = Reading(FALSE, FALSE, TRUE, {}, n + 1) /\ n + 1 \in Nat
    BY <2>1, <2>2, <2>3, TurnCompacts
  <2>5. ViewInv' /\ view'.compactions = n + 1
    BY <2>1, <2>2, <2>3, <2>4, ArriveHook
  <2>. QED
    BY <1>2, <2>1, <2>3, <2>5 DEF Counted
<1>14. ASSUME NEW m \in Replies, RespondFailing(m) PROVE ViewInv' /\ Counted
  <2>1. /\ pc = "streaming" /\ crashes' = crashes /\ started \in BOOLEAN /\ Open' = Open
    BY <1>14 DEF RespondFailing, Hear, Open, tools, counts, RunOK
  <2>2. n \in Nat /\ view = Reading(TRUE, started, FALSE, {}, n) /\ Open = {}
    BY <1>1, <2>1 DEF Batching
  <2>3. /\ pc' = "idle"
        /\ \E which \in {"ErrorEvent", "AbortedErrorEvent"} :
               view' = ReadAll(view, (Said \o <<Event("TurnEnd"), Event(which)>>)
                                     \o <<Event("AgentEnd")>>)
    BY <1>14 DEF RespondFailing, EndRun, Emit
  <2>4. Over(view', n)
    BY <2>1, <2>2, <2>3, TurnFails
  <2>5. ViewInv' /\ view'.compactions = n
    BY <2>2, <2>3, <2>4, ArriveIdle
  <2>. QED
    BY <1>2, <2>1, <2>3, <2>5 DEF Counted
<1>15. ASSUME NEW m \in Replies, RespondFinal(m) PROVE ViewInv' /\ Counted
  <2>1. /\ pc = "streaming" /\ crashes' = crashes /\ started \in BOOLEAN /\ Open' = Open
    BY <1>15 DEF RespondFinal, Hear, Open, tools, counts, RunOK
  <2>2. n \in Nat /\ view = Reading(TRUE, started, FALSE, {}, n) /\ Open = {}
    BY <1>1, <2>1 DEF Batching
  <2>3. /\ pc' = "idle"
        /\ view' = ReadAll(view, (Said \o <<Event("TurnEnd")>>) \o <<Event("AgentEnd")>>)
    BY <1>15 DEF RespondFinal, EndRun, Emit
  <2>4. Over(view', n)
    BY <2>1, <2>2, <2>3, TurnFinishes
  <2>5. ViewInv' /\ view'.compactions = n
    BY <2>2, <2>3, <2>4, ArriveIdle
  <2>. QED
    BY <1>2, <2>1, <2>3, <2>5 DEF Counted
<1>16. ASSUME NEW m \in Replies, RespondCalling(m) PROVE ViewInv' /\ Counted
  <2>1. /\ pc = "streaming" /\ crashes' = crashes /\ started \in BOOLEAN
    BY <1>16 DEF RespondCalling, Hear, Open, tools, counts, RunOK
  <2>2. n \in Nat /\ view = Reading(TRUE, started, FALSE, {}, n) /\ Open = {}
    BY <1>1, <2>1 DEF Batching
  <2>3. /\ pc' \in {"sequential", "preflight"} /\ view' = ReadAll(view, Said)
        /\ tool' = [i \in DOMAIN m.calls |-> "waiting"]
    BY <1>16 DEF RespondCalling, Emit
  <2>4. Open' = {}
    BY <2>3 DEF Open
  <2>5. view' = Reading(TRUE, FALSE, FALSE, {}, n)
    BY <2>1, <2>2, <2>3, ReadSaid
  <2>6. ViewInv' /\ view'.compactions = n
    <3>1. pc' \in Batching \cup {"turn"}
      BY <2>3 DEF Batching
    <3>. QED
      BY <2>2, <2>4, <2>5, <3>1, ArriveTurn
  <2>. QED
    BY <1>2, <2>1, <2>3, <2>6 DEF Counted
<1>17. CASE SequentialBlocked
  <2>1. /\ pc \in {"sequential"} /\ pc' \in Batching /\ crashes' = crashes
        /\ Mark(idx, "blocked") /\ view' = ReadAll(view, <<CallEvent("ToolExecutionStart", idx), CallEvent("ToolExecutionEnd", idx)>> \o Announced)
    BY <1>17 DEF SequentialBlocked, KeepResult, NextCall, Emit, ParallelUnchanged, counts, Batching
  <2>2. /\ n \in Nat /\ view = Reading(TRUE, FALSE, FALSE, Open, n) /\ Open \subseteq Nat
        /\ idx \in DOMAIN tool /\ idx \in Nat /\ pc # "idle" /\ pc # "hook" /\ pc' # "hook"
    <3>1. pc \in Batching /\ pc' # "hook" /\ pc # "hook" /\ pc # "idle"
      BY <2>1 DEF Batching
    <3>2. idx \in DOMAIN tool
      BY <2>1, <3>1 DEF BatchInv, BatchOK
    <3>3. idx \in Nat
      BY <3>2, BatchesAssumption DEF BatchOK
    <3>. QED
      BY <1>1, <3>1, <3>2, <3>3
  <2>3. Open = {} /\ Open' = {}
    <3>1. Open = {}
      BY <1>1, <2>1
    <3>2. Open' = Open \ {idx}
      BY <2>1, <2>2, MarkOpens DEF ToolStates
    <3>. QED
      BY <3>1, <3>2
  <2>4. view' = Reading(TRUE, FALSE, FALSE, Open', n)
    BY <2>1, <2>2, <2>3, CallBlocked
  <2>5. ViewInv' /\ view'.compactions = n
    <3>1. pc' \in Batching \cup {"turn"}
      BY <2>1
    <3>. QED
      BY <2>2, <2>4, <3>1, ArriveTurn
  <2>. QED
    BY <1>2, <2>1, <2>2, <2>5 DEF Counted
<1>18. CASE SequentialStart
  <2>1. /\ pc \in {"sequential"} /\ pc' \in Batching /\ crashes' = crashes
        /\ Mark(idx, "running") /\ view' = ReadAll(view, <<CallEvent("ToolExecutionStart", idx)>>)
    BY <1>18 DEF SequentialStart, Emit, ParallelUnchanged, counts, Batching
  <2>2. /\ n \in Nat /\ view = Reading(TRUE, FALSE, FALSE, Open, n) /\ Open \subseteq Nat
        /\ idx \in DOMAIN tool /\ idx \in Nat /\ pc # "idle" /\ pc # "hook" /\ pc' # "hook"
    <3>1. pc \in Batching /\ pc' # "hook" /\ pc # "hook" /\ pc # "idle"
      BY <2>1 DEF Batching
    <3>2. idx \in DOMAIN tool
      BY <2>1, <3>1 DEF BatchInv, BatchOK
    <3>3. idx \in Nat
      BY <3>2, BatchesAssumption DEF BatchOK
    <3>. QED
      BY <1>1, <3>1, <3>2, <3>3
  <2>3. Open = {} /\ Open' = Open \cup {idx}
    <3>1. Open = {}
      BY <1>1, <2>1
    <3>2. Open' = Open \cup {idx}
      BY <2>1, <2>2, MarkOpens DEF ToolStates
    <3>. QED
      BY <3>1, <3>2
  <2>4. view' = Reading(TRUE, FALSE, FALSE, Open', n)
    <3>1. idx \in Nat \ Open
      BY <2>2, <2>3
    <3>. QED
      BY <2>1, <2>2, <2>3, <3>1, ReadToolStart
  <2>5. ViewInv' /\ view'.compactions = n
    <3>1. pc' \in Batching \cup {"turn"}
      BY <2>1
    <3>. QED
      BY <2>2, <2>4, <3>1, ArriveTurn
  <2>. QED
    BY <1>2, <2>1, <2>2, <2>5 DEF Counted
<1>19. CASE ToolReturns
  <2>1. /\ pc \in {"running"} /\ pc' \in Batching /\ crashes' = crashes
        /\ Mark(idx, "done") /\ view' = ReadAll(view, <<CallEvent("ToolExecutionEnd", idx)>> \o Announced)
    BY <1>19 DEF ToolReturns, KeepResult, NextCall, Emit, ParallelUnchanged, counts, Batching
  <2>2. /\ n \in Nat /\ view = Reading(TRUE, FALSE, FALSE, Open, n) /\ Open \subseteq Nat
        /\ idx \in DOMAIN tool /\ idx \in Nat /\ pc # "idle" /\ pc # "hook" /\ pc' # "hook"
    <3>1. pc \in Batching /\ pc' # "hook" /\ pc # "hook" /\ pc # "idle"
      BY <2>1 DEF Batching
    <3>2. idx \in DOMAIN tool
      BY <2>1, <3>1 DEF BatchInv, BatchOK
    <3>3. idx \in Nat
      BY <3>2, BatchesAssumption DEF BatchOK
    <3>. QED
      BY <1>1, <3>1, <3>2, <3>3
  <2>3. idx \in Open /\ Open \ {idx} = {} /\ Open' = Open \ {idx}
    <3>1. idx \in Open /\ Open \ {idx} = {}
      BY <2>1, <2>2 DEF Open, BatchInv, BatchOK
    <3>2. Open' = Open \ {idx}
      BY <2>1, <2>2, MarkOpens DEF ToolStates
    <3>. QED
      BY <3>1, <3>2
  <2>4. view' = Reading(TRUE, FALSE, FALSE, Open', n)
    BY <2>1, <2>2, <2>3, CallReturns
  <2>5. ViewInv' /\ view'.compactions = n
    <3>1. pc' \in Batching \cup {"turn"}
      BY <2>1
    <3>. QED
      BY <2>2, <2>4, <3>1, ArriveTurn
  <2>. QED
    BY <1>2, <2>1, <2>2, <2>5 DEF Counted
<1>20. ASSUME NEW blocked \in BOOLEAN, Preflight(blocked) PROVE ViewInv' /\ Counted
  <2>1. /\ pc \in {"preflight"} /\ pc' \in Batching /\ crashes' = crashes
        /\ Mark(idx, IF blocked THEN "blocked" ELSE "ready") /\ view' = ReadAll(view, <<CallEvent("ToolExecutionStart", idx)>>
                                   \o (IF blocked THEN <<CallEvent("ToolExecutionEnd", idx)>>
                                                  ELSE <<>>))
    BY <1>20 DEF Preflight, Emit, ParallelUnchanged, counts, Batching
  <2>2. /\ n \in Nat /\ view = Reading(TRUE, FALSE, FALSE, Open, n) /\ Open \subseteq Nat
        /\ idx \in DOMAIN tool /\ idx \in Nat /\ pc # "idle" /\ pc # "hook" /\ pc' # "hook"
    <3>1. pc \in Batching /\ pc' # "hook" /\ pc # "hook" /\ pc # "idle"
      BY <2>1 DEF Batching
    <3>2. idx \in DOMAIN tool
      BY <2>1, <3>1 DEF BatchInv, BatchOK
    <3>3. idx \in Nat
      BY <3>2, BatchesAssumption DEF BatchOK
    <3>. QED
      BY <1>1, <3>1, <3>2, <3>3
  <2>3. idx \notin Open
    BY <2>1, <2>2 DEF Open, BatchInv, BatchOK
  <2>4. view' = Reading(TRUE, FALSE, FALSE, Open', n)
    <3>1. CASE blocked
      <4>1. Open' = Open
        <5>1. Open' = Open \ {idx}
          BY <2>1, <2>2, <3>1, MarkOpens DEF ToolStates
        <5>. QED
          BY <2>3, <5>1
      <4>. QED
        BY <2>1, <2>2, <2>3, <3>1, <4>1, CallStartsAndEnds
    <3>2. CASE ~blocked
      <4>1. Open' = Open \cup {idx}
        BY <2>1, <2>2, <3>2, MarkOpens DEF ToolStates
      <4>. QED
        BY <2>1, <2>2, <2>3, <3>2, <4>1, CallStartsAndEnds
    <3>. QED
      BY <3>1, <3>2
  <2>5. ViewInv' /\ view'.compactions = n
    <3>1. pc' \in Batching \cup {"turn"}
      BY <2>1
    <3>. QED
      BY <2>2, <2>4, <3>1, ArriveTurn
  <2>. QED
    BY <1>2, <2>1, <2>2, <2>5 DEF Counted
<1>21. ASSUME NEW i \in DOMAIN tool, Acquire(i) PROVE ViewInv' /\ Counted
  <2>1. /\ pc = "parallel" /\ pc' = pc /\ crashes' = crashes /\ view' = view
        /\ tool[i] = "ready" /\ Mark(i, "running")
    BY <1>21 DEF Acquire, ParallelUnchanged, counts
  <2>2. n \in Nat /\ view = Reading(TRUE, FALSE, FALSE, Open, n)
    BY <1>1, <2>1 DEF Batching
  <2>3. Open' = Open
    <3>1. Open' = Open \cup {i}
      BY <2>1, MarkOpens DEF ToolStates
    <3>2. i \in Open
      BY <2>1 DEF Open
    <3>. QED
      BY <3>1, <3>2
  <2>4. pc' \in Batching \cup {"turn"}
    BY <2>1 DEF Batching
  <2>5. ViewInv' /\ view'.compactions = n
    BY <2>1, <2>2, <2>3, <2>4, ArriveTurn
  <2>. QED
    BY <1>2, <2>1, <2>5 DEF Counted
<1>22. ASSUME NEW i \in DOMAIN tool, ToolEnds(i) PROVE ViewInv' /\ Counted
  <2>1. /\ pc = "parallel" /\ pc' = pc /\ crashes' = crashes
        /\ view' = ReadAll(view, <<CallEvent("ToolExecutionEnd", i)>>)
        /\ tool[i] = "running" /\ Mark(i, "done")
    BY <1>22 DEF ToolEnds, Emit, ParallelUnchanged, counts
  <2>2. n \in Nat /\ view = Reading(TRUE, FALSE, FALSE, Open, n) /\ Open \subseteq Nat
    BY <1>1, <2>1 DEF Batching
  <2>3. i \in Open /\ Open' = Open \ {i}
    <3>1. Open' = Open \ {i}
      BY <2>1, MarkOpens DEF ToolStates
    <3>2. i \in Open
      BY <2>1 DEF Open
    <3>. QED
      BY <3>1, <3>2
  <2>4. view' = Reading(TRUE, FALSE, FALSE, Open', n)
    BY <2>1, <2>2, <2>3, ReadToolEnd
  <2>5. pc' \in Batching \cup {"turn"}
    BY <2>1 DEF Batching
  <2>6. ViewInv' /\ view'.compactions = n
    BY <2>2, <2>4, <2>5, ArriveTurn
  <2>. QED
    BY <1>2, <2>1, <2>6 DEF Counted
<1>23. CASE Join
  <2>1. /\ pc = "parallel" /\ pc' = "finalize" /\ crashes' = crashes /\ view' = view
        /\ Open' = Open
    BY <1>23 DEF Join, Open, counts
  <2>2. n \in Nat /\ view = Reading(TRUE, FALSE, FALSE, Open, n)
    BY <1>1, <2>1 DEF Batching
  <2>3. pc' \in Batching \cup {"turn"}
    BY <2>1 DEF Batching
  <2>4. ViewInv' /\ view'.compactions = n
    BY <2>1, <2>2, <2>3, ArriveTurn
  <2>. QED
    BY <1>2, <2>1, <2>4 DEF Counted
<1>24. CASE Finalize
  <2>1. /\ pc = "finalize" /\ pc' \in {"finalize", "batchEnd"} /\ crashes' = crashes
        /\ view' = ReadAll(view, <<>> \o Announced) /\ Open' = Open
    BY <1>24 DEF Finalize, KeepResult, Emit, Open, counts
  <2>2. n \in Nat /\ view = Reading(TRUE, FALSE, FALSE, {}, n) /\ Open = {}
    BY <1>1, <2>1 DEF Batching
  <2>3. view' = Reading(TRUE, FALSE, FALSE, Open', n)
    BY <2>1, <2>2, AnnouncedAlone
  <2>4. pc' \in Batching \cup {"turn"}
    BY <2>1 DEF Batching
  <2>5. ViewInv' /\ view'.compactions = n
    BY <2>2, <2>3, <2>4, ArriveTurn
  <2>. QED
    BY <1>2, <2>1, <2>5 DEF Counted
<1>25. CASE BatchEnd
  <2>1. /\ pc = "batchEnd" /\ crashes' = crashes /\ tool' = <<>>
    BY <1>25 DEF BatchEnd, counts
  <2>2. n \in Nat /\ view = Reading(TRUE, FALSE, FALSE, {}, n)
    BY <1>1, <2>1 DEF Batching
  <2>3. Open' = {}
    BY <2>1 DEF Open
  <2>4. CASE step + 1 = MaxSteps
    <3>1. /\ pc' = "idle"
          /\ view' = ReadAll(view, <<Event("TurnEnd")>> \o <<Event("AgentEnd")>>)
      BY <1>25, <2>4 DEF BatchEnd, EndRun, Emit
    <3>2. Over(view', n)
      BY <2>2, <3>1, TurnEndsRun
    <3>3. ViewInv' /\ view'.compactions = n
      BY <2>2, <3>1, <3>2, ArriveIdle
    <3>. QED
      BY <1>2, <2>1, <3>1, <3>3 DEF Counted
  <2>5. CASE step + 1 # MaxSteps
    <3>1. pc' = "step" /\ view' = ReadAll(view, <<Event("TurnEnd")>>)
      BY <1>25, <2>5 DEF BatchEnd, Emit
    <3>2. view' = Reading(FALSE, FALSE, FALSE, {}, n)
      BY <2>2, <3>1, ReadTurnEnd
    <3>3. ViewInv' /\ view'.compactions = n
      BY <2>2, <2>3, <3>1, <3>2, ArriveBetween
    <3>. QED
      BY <1>2, <2>1, <3>1, <3>3 DEF Counted
  <2>. QED
    BY <2>4, <2>5
<1>26. CASE Restart
  <2>1. pc' = "idle" /\ view' = FreshView /\ crashes' = crashes + 1
    BY <1>26 DEF Restart
  <2>2. crashes' # crashes
    BY <2>1, BoundsAssumption DEF HistoryOK
  <2>3. ViewInv' /\ view'.compactions = 0
    BY <2>1, ReadAgentStart DEF ViewInv, Fits, FreshView
  <2>. QED
    BY <2>2, <2>3 DEF Counted
<1>27. CASE RefuseContinuation \/ Cancel \/ Steer \/ UNCHANGED vars
  <2>1. UNCHANGED <<view, pc, started, tool, crashes>>
    BY <1>27 DEF RefuseContinuation, Cancel, Steer, vars, tools, counts
  <2>. QED
    BY <2>1 DEF ViewInv, Open, Counted
<1>. QED
    BY <1>3, <1>4, <1>5, <1>6, <1>7, <1>8, <1>9, <1>10, <1>11, <1>12, <1>13,
        <1>14, <1>15, <1>16, <1>17, <1>18, <1>19, <1>20, <1>21, <1>22, <1>23,
        <1>24, <1>25, <1>26, <1>27 DEF Next, LoopStep, Answer

-----------------------------------------------------------------------------
(* The semaphore and the compactions.                                       *)

\* Each call takes a place of the semaphore that is free.
LEMMA SemaphoreStep ==
    RunOK /\ BatchOK /\ BatchInv /\ SemaphoreInv /\ [Next]_vars => SemaphoreInv'
<1>. SUFFICES ASSUME RunOK, BatchOK, BatchInv, SemaphoreInv, [Next]_vars
             PROVE  SemaphoreInv'
    OBVIOUS
<1>. USE DEF SemaphoreInv
<1>0. IsFiniteSet(Executing)
  <2>1. batch \in Seq(ToolCalls)
    BY BatchesAssumption DEF BatchOK
  <2>2. DOMAIN batch = 1..Len(batch) /\ Len(batch) \in Nat
    BY <2>1
  <2>3. IsFiniteSet(DOMAIN batch)
    BY <2>2, FS_Interval
  <2>4. Executing \subseteq DOMAIN batch
    BY DEF Executing, BatchOK
  <2>. QED
    BY <2>3, <2>4, FS_Subset
<1>1. ASSUME NEW k \in {"normal", "continuation"}, StartRun(k) PROVE SemaphoreInv'
    BY <1>1 DEF StartRun, tools, droid, counts, traffic
<1>2. CASE StepAborts
    BY <1>2 DEF StepAborts, EndRun, droid, tools, counts, traffic
<1>3. CASE StepFirst
    BY <1>3 DEF StepFirst, Turning, DrainSteering, droid, tools, counts,
        traffic
<1>4. CASE StepLater
    BY <1>4 DEF StepLater, DrainSteering, droid, tools, counts, traffic
<1>5. CASE Weigh
    BY <1>5 DEF Weigh, Turning, droid, tools, counts, traffic
<1>6. CASE HookFails
    BY <1>6 DEF HookFails, EndRun, droid, tools, counts, traffic
<1>7. CASE HookDeclines
    BY <1>7 DEF HookDeclines, EndRun, Turning, droid, tools, counts, traffic
<1>8. ASSUME NEW r \in Replacements, HookApplies(r) PROVE SemaphoreInv'
    BY <1>8 DEF HookApplies, Turning, tools, droid, counts, traffic
<1>9. CASE Request
    BY <1>9 DEF Request, droid, tools, counts, traffic
<1>10. ASSUME NEW m \in Replies, RespondOverflow(m) PROVE SemaphoreInv'
    BY <1>10 DEF RespondOverflow, MayRetry, Hear, counts, droid, tools, traffic
<1>11. ASSUME NEW m \in Replies, RespondFailing(m) PROVE SemaphoreInv'
    BY <1>11 DEF RespondFailing, EndRun, MayRetry, Hear, counts, droid, tools,
        traffic
<1>12. ASSUME NEW m \in Replies, RespondFinal(m) PROVE SemaphoreInv'
    BY <1>12 DEF RespondFinal, EndRun, Hear, counts, droid, tools, traffic
<1>13. ASSUME NEW m \in Replies, RespondCalling(m) PROVE SemaphoreInv'
    BY <1>13 DEF RespondCalling, Hear, counts, droid, tools, traffic
<1>14. CASE SequentialBlocked
    BY <1>14 DEF SequentialBlocked, Mark, KeepResult, NextCall, counts, droid,
        tools, traffic
<1>15. CASE SequentialStart
    BY <1>15 DEF SequentialStart, Mark, droid, tools, counts, traffic
<1>16. CASE ToolReturns
    BY <1>16 DEF ToolReturns, Mark, KeepResult, NextCall, counts, droid, tools,
        traffic
<1>17. ASSUME NEW blocked \in BOOLEAN, Preflight(blocked) PROVE SemaphoreInv'
  <2>1. \A j \in DOMAIN tool : tool[j] # "running"
    BY <1>17 DEF Preflight, BatchInv, BatchOK, Batching
  <2>2. Mark(idx, IF blocked THEN "blocked" ELSE "ready")
    BY <1>17 DEF Preflight
  <2>3. DOMAIN tool' = DOMAIN tool /\ \A j \in DOMAIN tool : tool'[j] # "running"
    BY <2>1, <2>2 DEF Mark, BatchOK
  <2>4. Executing' = {}
    BY <2>3 DEF Executing
  <2>. QED
    BY <2>4, FS_EmptySet, StepsAssumption
<1>18. ASSUME NEW i \in DOMAIN tool, Acquire(i) PROVE SemaphoreInv'
  <2>1. /\ DOMAIN tool' = DOMAIN tool
        /\ \A j \in DOMAIN tool : tool'[j] = IF j = i THEN "running" ELSE tool[j]
    BY <1>18 DEF Acquire, Mark, BatchOK
  <2>2. Executing' = Executing \cup {i}
    BY <2>1 DEF Executing
  <2>3. MaxParallelTools > 0 => Cardinality(Executing) < MaxParallelTools
    BY <1>18 DEF Acquire
  <2>4. Cardinality(Executing) \in Nat /\ Cardinality(Executing') \in Nat
    BY <1>0, <2>2, FS_AddElement, FS_CardinalityType
  <2>5. Cardinality(Executing') <= Cardinality(Executing) + 1
    <3>1. Cardinality(Executing') \in {Cardinality(Executing), Cardinality(Executing) + 1}
      BY <1>0, <2>2, FS_AddElement
    <3>. QED
      BY <2>4, <3>1
  <2>. QED
    BY <2>3, <2>4, <2>5, StepsAssumption
<1>19. ASSUME NEW i \in DOMAIN tool, ToolEnds(i) PROVE SemaphoreInv'
  <2>1. /\ DOMAIN tool' = DOMAIN tool /\ pc = "parallel"
        /\ \A j \in DOMAIN tool : tool'[j] = IF j = i THEN "done" ELSE tool[j]
    BY <1>19 DEF ToolEnds, Mark, BatchOK
  <2>2. Executing' = Executing \ {i}
    BY <2>1 DEF Executing
  <2>3. Cardinality(Executing') <= Cardinality(Executing)
    BY <1>0, <2>2, FS_Subset
  <2>4. Cardinality(Executing) \in Nat /\ Cardinality(Executing') \in Nat
    BY <1>0, <2>2, FS_RemoveElement, FS_CardinalityType
  <2>. QED
    BY <2>1, <2>3, <2>4, StepsAssumption
<1>20. CASE Join
    BY <1>20 DEF Join, droid, tools, counts, traffic
<1>21. CASE Finalize
    BY <1>21 DEF Finalize, KeepResult, counts, droid, tools, traffic
<1>22. CASE BatchEnd
    BY <1>22 DEF BatchEnd, EndRun, droid, tools, counts, traffic
<1>23. CASE Restart
    BY <1>23 DEF Restart, traffic, droid, tools, counts
<1>24. CASE UNCHANGED <<pc, tool>>
    BY <1>24
     DEF Executing
<1>25. CASE RefuseContinuation \/ StreamStarts \/ Cancel \/ Steer \/ UNCHANGED
          vars
    BY <1>24, <1>25 DEF RefuseContinuation, droid, tools, counts, traffic,
        StreamStarts, Emit, Cancel, Steer, vars
<1>. QED
    BY <1>1, <1>2, <1>3, <1>4, <1>5, <1>6, <1>7, <1>8, <1>9, <1>10, <1>11,
        <1>12, <1>13, <1>14, <1>15, <1>16, <1>17, <1>18, <1>19, <1>20, <1>21,
        <1>22, <1>23, <1>24, <1>25 DEF Next, LoopStep, Answer

\* Only the first step of a normal run compacts, once before its request and once
\* after it.
LEMMA CompactionsStep ==
    TypeOK /\ RequestsInv /\ CompactionsInv /\ Counted /\ [Next]_vars => CompactionsInv'
<1>. SUFFICES ASSUME TypeOK, RequestsInv, CompactionsInv, Counted, [Next]_vars
             PROVE  CompactionsInv'
    OBVIOUS
<1>0. /\ view.compactions \in Nat /\ RunOK
      /\ crashes \in Nat /\ step + 1 # 0
  BY BoundsAssumption, StepsAssumption DEF TypeOK, View, HistoryOK, RunOK
<1>. USE DEF RunOK, RequestsInv, CompactionsInv, Counted, PCs
<1>1. ASSUME NEW k \in {"normal", "continuation"}, StartRun(k) PROVE CompactionsInv'
    BY <1>0, <1>1 DEF StartRun, tools, droid, counts, traffic
<1>2. CASE StepAborts
    BY <1>0, <1>2 DEF StepAborts, EndRun, droid, tools, counts, traffic
<1>3. CASE StepFirst
    BY <1>0, <1>3 DEF StepFirst, Turning, DrainSteering, droid, tools, counts,
        traffic
<1>4. CASE StepLater
    BY <1>0, <1>4 DEF StepLater, DrainSteering, droid, tools, counts, traffic
<1>5. CASE Weigh
    BY <1>0, <1>5 DEF Weigh, Turning, ShouldCompact, droid, tools, counts, traffic
<1>6. CASE HookFails
    BY <1>0, <1>6 DEF HookFails, EndRun, droid, tools, counts, traffic
<1>7. CASE HookDeclines
    BY <1>0, <1>7 DEF HookDeclines, EndRun, Turning, droid, tools, counts, traffic
<1>8. ASSUME NEW r \in Replacements, HookApplies(r) PROVE CompactionsInv'
    BY <1>0, <1>8 DEF HookApplies, Turning, tools, droid, counts, traffic
<1>9. CASE Request
    BY <1>0, <1>9 DEF Request, droid, tools, counts, traffic
<1>10. ASSUME NEW m \in Replies, RespondOverflow(m) PROVE CompactionsInv'
    BY <1>0, <1>10 DEF RespondOverflow, MayRetry, Hear, counts, droid, tools, traffic
<1>11. ASSUME NEW m \in Replies, RespondFailing(m) PROVE CompactionsInv'
    BY <1>0, <1>11 DEF RespondFailing, EndRun, MayRetry, Hear, counts, droid, tools,
        traffic
<1>12. ASSUME NEW m \in Replies, RespondFinal(m) PROVE CompactionsInv'
    BY <1>0, <1>12 DEF RespondFinal, EndRun, Hear, counts, droid, tools, traffic
<1>13. ASSUME NEW m \in Replies, RespondCalling(m) PROVE CompactionsInv'
    BY <1>0, <1>13 DEF RespondCalling, Hear, counts, droid, tools, traffic
<1>14. CASE SequentialBlocked
    BY <1>0, <1>14 DEF SequentialBlocked, Mark, KeepResult, NextCall, counts, droid,
        tools, traffic
<1>15. CASE SequentialStart
    BY <1>0, <1>15 DEF SequentialStart, Mark, droid, tools, counts, traffic
<1>16. CASE ToolReturns
    BY <1>0, <1>16 DEF ToolReturns, Mark, KeepResult, NextCall, counts, droid, tools,
        traffic
<1>17. ASSUME NEW blocked \in BOOLEAN, Preflight(blocked) PROVE CompactionsInv'
    BY <1>0, <1>17 DEF Preflight, Mark, droid, tools, counts, traffic
<1>18. CASE Join
    BY <1>0, <1>18 DEF Join, droid, tools, counts, traffic
<1>19. CASE Finalize
    BY <1>0, <1>19 DEF Finalize, KeepResult, counts, droid, tools, traffic
<1>20. CASE BatchEnd
    BY <1>0, <1>20 DEF BatchEnd, EndRun, droid, tools, counts, traffic
<1>21. CASE Restart
    BY <1>0, <1>21 DEF Restart, traffic, droid, tools, counts
<1>22. CASE UNCHANGED <<pc, kind, step, retried, reason, crashes>>
    BY <1>0, <1>22
<1>23. CASE RefuseContinuation \/ StreamStarts \/ Cancel \/ Steer \/ UNCHANGED
          vars
    BY <1>0, <1>22, <1>23 DEF RefuseContinuation, droid, tools, counts, traffic,
        StreamStarts, Emit, Cancel, Steer, vars
<1>24. ASSUME NEW i \in DOMAIN tool, Acquire(i) \/ ToolEnds(i)
      PROVE  CompactionsInv'
    BY <1>0, <1>22, <1>24 DEF Acquire, Mark, ParallelUnchanged, droid, tools, counts,
        traffic, ToolEnds, Emit
<1>. QED
    BY <1>1, <1>2, <1>3, <1>4, <1>5, <1>6, <1>7, <1>8, <1>9, <1>10, <1>11,
        <1>12, <1>13, <1>14, <1>15, <1>16, <1>17, <1>18, <1>19, <1>20, <1>21,
        <1>22, <1>23, <1>24 DEF Next, LoopStep, Answer

-----------------------------------------------------------------------------
(* The theorems.                                                            *)

\* The view that goes with a place of the loop is a view.
LEMMA ViewTyped ==
    ASSUME NEW v, NEW p, NEW s \in BOOLEAN, NEW calls \in SUBSET Nat, Fits(v, p, s, calls)
    PROVE  v \in View
<1>1. CASE p = "idle"
    BY <1>1 DEF Fits
<1>2. CASE p # "idle"
  <2>. DEFINE turn == p \in Batching \cup {"turn", "streaming"}
              message == p = "streaming" /\ s
              compaction == p = "hook"
  <2>1. turn \in BOOLEAN /\ message \in BOOLEAN /\ compaction \in BOOLEAN
    OBVIOUS
  <2>2. v = Reading(turn, message, compaction, calls, v.compactions) /\ v.compactions \in Nat
    BY <1>2, Zenon DEF Fits
  <2>. HIDE DEF turn, message, compaction
  <2>3. Reading(turn, message, compaction, calls, v.compactions) \in View
    BY <2>1, <2>2, ReadingTyped
  <2>. QED
    BY <2>2, <2>3
<1>. QED
    BY <1>1, <1>2

\* The invariant holds of a Droid that New has just made.
LEMMA Initially == Init => IInv
<1>. SUFFICES ASSUME Init PROVE IInv
    OBVIOUS
<1>1. DroidOK
  <2>1. PICK h \in Histories : transcript = h /\ stored = h
    BY DEF Init
  <2>. QED
    BY <2>1, ContextsAssumption DEF Init, DroidOK
<1>2. RunOK
  <2>1. /\ pc = "idle" /\ kind = "normal" /\ ctxDone = FALSE /\ step = 0
        /\ started = FALSE /\ reason = "threshold" /\ retried = FALSE
    BY DEF Init
  <2>2. 0 \in 0..(MaxSteps - 1)
    BY StepsAssumption
  <2>. QED
    BY <2>1, <2>2 DEF RunOK, PCs
<1>3. BatchOK
    BY DEF Init, BatchOK
<1>4. HistoryOK
  <2>1. /\ runs = 0 /\ steers = 0 /\ crashes = 0 /\ outcome = "none" /\ requests = 0
        /\ lateRequests = 0 /\ landed = "nowhere" /\ cut = FALSE /\ unstored = FALSE
    BY DEF Init
  <2>2. /\ 0 \in 0..MaxRuns /\ 0 \in 0..MaxSteers /\ 0 \in 0..MaxCrashes
        /\ 0 \in 0..(MaxSteps + 1)
    BY StepsAssumption, BoundsAssumption
  <2>. QED
    BY <2>1, <2>2 DEF HistoryOK, Outcomes
<1>5. ViewInv
    BY ReadAgentStart DEF Init, ViewInv, Fits, FreshView
<1>6. BatchInv
    BY DEF Init, BatchInv, Batching
<1>7. SemaphoreInv
    BY DEF Init, SemaphoreInv
<1>8. RequestsInv
    BY StepsAssumption DEF Init, RequestsInv, Retries
<1>9. LateInv
    BY DEF Init, LateInv
<1>10. CompactionsInv
    BY DEF Init, CompactionsInv, FreshView
<1>11. view \in View
    BY ReadAgentStart DEF Init
<1>. QED
    BY <1>1, <1>2, <1>3, <1>4, <1>5, <1>6, <1>7, <1>8, <1>9, <1>10, <1>11 DEF IInv, TypeOK

\* Every step keeps the invariant.
LEMMA Inductive == IInv /\ [Next]_vars => IInv'
<1>. SUFFICES ASSUME IInv, [Next]_vars PROVE IInv'
    OBVIOUS
<1>1. /\ TypeOK /\ ViewInv /\ BatchInv /\ SemaphoreInv /\ RequestsInv /\ LateInv
      /\ CompactionsInv
      /\ DroidOK /\ RunOK /\ BatchOK /\ HistoryOK
    BY DEF IInv, TypeOK
<1>2. ViewInv' /\ Counted
    BY <1>1, ViewStep
<1>3. BatchOK' /\ BatchInv' /\ SemaphoreInv'
    BY <1>1, BatchTypes, BatchStep, SemaphoreStep
<1>4. RunOK' /\ LateInv' /\ RequestsInv'
    BY <1>1, RunStep, LateStep, RequestsStep
<1>5. DroidOK' /\ HistoryOK'
    BY <1>1, DroidStep, HistoryStep
<1>6. CompactionsInv'
    BY <1>1, <1>2, CompactionsStep
<1>7. view' \in View
  <2>1. batch' \in Seq(ToolCalls)
    BY <1>3, BatchesAssumption DEF BatchOK
  <2>2. Open' \in SUBSET Nat
    BY <1>3, <2>1 DEF BatchOK, Open
  <2>3. started' \in BOOLEAN
    BY <1>4 DEF RunOK
  <2>. QED
    BY <1>2, <2>2, <2>3, ViewTyped DEF ViewInv
<1>. QED
    BY <1>2, <1>3, <1>4, <1>5, <1>6, <1>7 DEF IInv, TypeOK

\* The invariant holds of every behaviour of the loop.
THEOREM Invariance == Spec => []IInv
<1>1. Init => IInv
    BY Initially
<1>2. IInv /\ [Next]_vars => IInv'
    BY Inductive
<1>. QED
    BY <1>1, <1>2, PTL DEF Spec

\* The variables stay in their types, whatever the provider, the tools and the
\* hooks answer and however large the bounds: transcript and Storage hold
\* messages only, the steps and the requests stay below their limits.
THEOREM TypeCorrect == Spec => []TypeOK
<1>1. IInv => TypeOK
    BY DEF IInv
<1>. QED
    BY <1>1, Invariance, PTL

\* The brackets of a run's events close, in the order of loop.go, for every
\* sequence of turns, batches, compactions, failures, cancellations and restarts:
\* no turn inside a compaction or the reverse, no message or tool execution open
\* when a turn, a compaction or the run ends, AgentEnd once and last.  Each place
\* of the loop has one view that goes with it, up to the count of compactions, and
\* each step's events lead from one to the other.
THEOREM EventsNested == Spec => []EventsWellFormed
<1>1. IInv => EventsWellFormed
  <2>. SUFFICES ASSUME IInv PROVE EventsWellFormed
    OBVIOUS
  <2>1. CASE pc = "idle"
    BY <2>1 DEF IInv, ViewInv, Fits, EventsWellFormed
  <2>2. CASE pc # "idle"
    BY <2>2 DEF IInv, ViewInv, Fits, Reading, EventsWellFormed
  <2>. QED
    BY <2>1, <2>2
<1>. QED
    BY <1>1, Invariance, PTL

\* No more than MaxParallelTools tools run at once whatever the size of the
\* batch, one in a sequential batch, and none once the batch is finalized.
THEOREM ToolsAreConfined == Spec => []ToolsConfined
<1>1. IInv => ToolsConfined
  <2>. SUFFICES ASSUME IInv PROVE ToolsConfined
    OBVIOUS
  <2>. USE DEF IInv, TypeOK, RunOK, BatchOK, BatchInv, Batching, PCs
  <2>1. DOMAIN tool = DOMAIN batch
    OBVIOUS
  <2>2. MaxParallelTools > 0 /\ pc = "parallel" => Cardinality(Executing) <= MaxParallelTools
    BY DEF SemaphoreInv
  <2>3. pc = "running" => Executing = {idx}
    BY <2>1 DEF Executing
  <2>4. pc \notin {"running", "parallel"} => Executing = {}
    <3>1. CASE pc \notin Batching
      <4>1. DOMAIN batch = {}
        BY <3>1
      <4>. QED
        BY <2>1, <4>1 DEF Executing
    <3>2. CASE pc \in {"sequential", "preflight", "finalize", "batchEnd"}
      BY <2>1, <3>2 DEF Executing
    <3>. QED
      BY <3>1, <3>2
  <2>. QED
    BY <2>2, <2>3, <2>4 DEF ToolsConfined
<1>. QED
    BY <1>1, Invariance, PTL

\* Whatever the provider answers, a run makes no more requests than MaxSteps and
\* one retry, at most one after its cancellation, and asks for at most one
\* compaction of each kind, none in a continuation.
THEOREM BudgetsHold == Spec => []BudgetRespected
<1>1. IInv => BudgetRespected
  <2>. SUFFICES ASSUME IInv PROVE BudgetRespected
    OBVIOUS
  <2>1. view.compactions <= (IF kind = "normal" /\ CompactHook THEN 2 ELSE 0)
    BY DEF IInv, TypeOK, RunOK, CompactionsInv
  <2>2. requests <= MaxSteps + (IF retried THEN 1 ELSE 0)
    BY DEF IInv, RequestsInv, Retries
  <2>3. lateRequests <= 1
    BY DEF IInv, LateInv
  <2>. QED
    BY <2>1, <2>2, <2>3 DEF BudgetRespected
<1>. QED
    BY <1>1, Invariance, PTL

\* What a step leaves of the steering queue in a continuation.
Kept ==
    pc # "idle" /\ kind = "continuation" /\ crashes' = crashes =>
        \E later \in {<<>>, <<User(steers')>>} : steering' = steering \o later

\* No step of a continuation takes from the steering queue.
THEOREM ContinuationsKeepSteering == Spec => ContinuationKeepsSteering
<1>1. IInv /\ [Next]_vars => [Kept]_vars
  <2>. SUFFICES ASSUME IInv, [Next]_vars, pc # "idle", kind = "continuation",
                       crashes' = crashes
                PROVE  \E later \in {<<>>, <<User(steers')>>} : steering' = steering \o later
    BY DEF Kept
  <2>1. steering \in Seq(UserMessages) /\ crashes \in Nat
    BY BoundsAssumption DEF IInv, TypeOK, DroidOK, HistoryOK
  <2>2. CASE steering' = steering
    <3>1. steering = steering \o <<>>
      BY <2>1
    <3>. QED
      BY <2>2, <3>1
  <2>3. CASE Steer
    BY <2>1, <2>3 DEF Steer
  <2>4. CASE Restart
    BY <2>1, <2>4 DEF Restart
  <2>5. CASE StepFirst \/ StepLater
    BY <2>2, <2>5 DEF StepFirst, StepLater, DrainSteering, droid
  <2>6. ASSUME NEW k \in {"normal", "continuation"}, StartRun(k)
         PROVE  steering' = steering
    BY <2>6 DEF StartRun, tools, droid, counts, traffic
  <2>7. CASE RefuseContinuation \/ StepAborts \/ Weigh \/ HookFails \/
          HookDeclines \/ Request \/ StreamStarts \/ SequentialBlocked \/
          SequentialStart \/ ToolReturns \/ Join \/ Finalize \/ BatchEnd \/
          Cancel \/ UNCHANGED vars
    BY <2>2, <2>7 DEF RefuseContinuation, droid, tools, counts, traffic,
        StepAborts, Weigh, HookFails, HookDeclines, Request, StreamStarts,
        SequentialBlocked, KeepResult, SequentialStart, ToolReturns, Join,
        Finalize, BatchEnd, Cancel, vars
  <2>8. ASSUME NEW r \in Replacements, HookApplies(r)
         PROVE  steering' = steering
    BY <2>8 DEF HookApplies, tools, droid, counts, traffic
  <2>9. ASSUME NEW m \in Replies, RespondOverflow(m) \/ RespondFailing(m) \/
            RespondFinal(m) \/ RespondCalling(m)
         PROVE  steering' = steering
    BY <2>9 DEF RespondOverflow, Hear, counts, droid, tools, traffic,
        RespondFailing, RespondFinal, RespondCalling
  <2>10. ASSUME NEW blocked \in BOOLEAN, Preflight(blocked)
         PROVE  steering' = steering
    BY <2>10 DEF Preflight, droid, tools, counts, traffic
  <2>11. ASSUME NEW i \in DOMAIN tool, Acquire(i) \/ ToolEnds(i)
         PROVE  steering' = steering
    BY <2>11 DEF Acquire, ParallelUnchanged, droid, tools, counts, traffic,
        ToolEnds
  <2>. QED
    BY <2>2, <2>3, <2>4, <2>5, <2>6, <2>7, <2>8, <2>9, <2>10, <2>11 DEF Next, LoopStep, Answer
<1>2. Spec => [][Kept]_vars
    BY <1>1, Invariance, PTL DEF Spec
<1>. QED
    BY <1>2 DEF ContinuationKeepsSteering, Kept

-----------------------------------------------------------------------------
(* Steering.                                                                *)

\* A session and a queue hold the first n steering messages between them: the
\* last ones are queued, those before are in the session, in their order.
Accounted(session, queue, n) ==
    /\ Len(queue) <= n
    /\ \A i \in DOMAIN queue : queue[i] = User(n - Len(queue) + i)
    /\ \A k \in DOMAIN session :
           IsSteered(session[k]) => session[k].id \in 1..(n - Len(queue))
    /\ \A id \in 1..(n - Len(queue)) :
           \E k \in DOMAIN session : IsSteered(session[k]) /\ session[k].id = id
    /\ \A j, k \in DOMAIN session :
           IsSteered(session[j]) /\ IsSteered(session[k]) /\ j < k
               => session[j].id < session[k].id

\* Every other message may join the session.
LEMMA AccountedWithOther ==
    ASSUME NEW session \in Seq(Messages), NEW queue \in Seq(UserMessages), NEW n \in Nat,
           NEW m, ~IsSteered(m), Accounted(session, queue, n)
    PROVE  Accounted(session \o <<m>>, queue, n)
<1>. DEFINE after == session \o <<m>>
<1>1. /\ Len(session) \in Nat /\ DOMAIN session = 1..Len(session)
      /\ DOMAIN after = 1..(Len(session) + 1)
      /\ \A k \in 1..Len(session) : after[k] = session[k]
      /\ after[Len(session) + 1] = m
    OBVIOUS
<1>. HIDE DEF after
<1>2. \A k \in DOMAIN after : IsSteered(after[k]) => k \in DOMAIN session /\ after[k] = session[k]
    BY <1>1
<1>3. \A k \in DOMAIN session : k \in DOMAIN after /\ after[k] = session[k]
    BY <1>1
<1>. QED
    BY <1>2, <1>3 DEF Accounted, after

\* The queue may join the session as it is.
LEMMA AccountedWithQueue ==
    ASSUME NEW session \in Seq(Messages), NEW queue \in Seq(UserMessages), NEW n \in Nat,
           Accounted(session, queue, n)
    PROVE  Accounted(session \o queue, <<>>, n)
<1>. DEFINE after == session \o queue
            s == Len(session)
            q == Len(queue)
<1>1. /\ s \in Nat /\ q \in Nat /\ DOMAIN session = 1..s /\ DOMAIN queue = 1..q
      /\ DOMAIN after = 1..(s + q)
      /\ \A k \in 1..s : after[k] = session[k]
      /\ \A k \in (s + 1)..(s + q) : after[k] = queue[k - s]
    OBVIOUS
<1>2. q <= n
    BY DEF Accounted
<1>. HIDE DEF after, s, q
<1>3. \A k \in (s + 1)..(s + q) :
          k - s \in 1..q /\ IsSteered(after[k]) /\ after[k].id = n - q + (k - s)
  <2>. SUFFICES ASSUME NEW k \in (s + 1)..(s + q)
                PROVE  k - s \in 1..q /\ IsSteered(after[k]) /\ after[k].id = n - q + (k - s)
      OBVIOUS
  <2>1. k - s \in 1..q
      BY <1>1
  <2>2. after[k] = User(n - q + (k - s))
      BY <1>1, <2>1 DEF Accounted, q
  <2>3. n - q + (k - s) \in Nat /\ n - q + (k - s) > 0
      BY <1>1, <1>2, <2>1
  <2>. QED
      BY <2>1, <2>2, <2>3 DEF IsSteered, User
<1>4. ASSUME NEW k \in DOMAIN after, IsSteered(after[k])
      PROVE  /\ after[k].id \in 1..n
             /\ k \in 1..s => after[k].id \in 1..(n - q)
             /\ k \notin 1..s => k \in (s + 1)..(s + q) /\ after[k].id = n - q + (k - s)
  <2>1. CASE k \in 1..s
    <3>1. after[k].id \in 1..(n - q)
        BY <1>1, <1>4, <2>1 DEF Accounted, q
    <3>. QED
        BY <1>1, <1>2, <2>1, <3>1
  <2>2. CASE k \notin 1..s
    <3>1. k \in (s + 1)..(s + q)
        BY <1>1, <2>2
    <3>2. k - s \in 1..q /\ after[k].id = n - q + (k - s)
        BY <1>3, <3>1
    <3>. QED
        BY <1>1, <1>2, <2>2, <3>1, <3>2
  <2>. QED
      BY <2>1, <2>2
<1>5. ASSUME NEW id \in 1..n
      PROVE  \E k \in DOMAIN after : IsSteered(after[k]) /\ after[k].id = id
  <2>1. CASE id <= n - q
    <3>1. PICK k \in DOMAIN session : IsSteered(session[k]) /\ session[k].id = id
      <4>1. id \in 1..(n - q)
          BY <1>1, <1>2, <2>1
      <4>. QED
          BY <4>1 DEF Accounted, q
    <3>. QED
        BY <1>1, <3>1
  <2>2. CASE ~(id <= n - q)
    <3>. DEFINE k == s + (id - (n - q))
    <3>1. k \in (s + 1)..(s + q) /\ n - q + (k - s) = id /\ k \in 1..(s + q)
        BY <1>1, <1>2, <2>2
    <3>. HIDE DEF k
    <3>. QED
        BY <1>1, <1>3, <3>1
  <2>. QED
      BY <2>1, <2>2
<1>6. ASSUME NEW j \in DOMAIN after, NEW k \in DOMAIN after,
             IsSteered(after[j]), IsSteered(after[k]), j < k
      PROVE  after[j].id < after[k].id
  <2>1. CASE k \in 1..s
    <3>1. j \in 1..s
        BY <1>1, <1>6, <2>1
    <3>2. j \in DOMAIN session /\ k \in DOMAIN session
          /\ after[j] = session[j] /\ after[k] = session[k]
        BY <1>1, <2>1, <3>1
    <3>. QED
        BY <1>6, <3>2 DEF Accounted
  <2>2. CASE k \notin 1..s /\ j \in 1..s
    <3>1. after[j].id \in 1..(n - q)
        BY <1>4, <1>6, <2>2
    <3>2. k \in (s + 1)..(s + q) /\ after[k].id = n - q + (k - s)
        BY <1>4, <1>6, <2>2
    <3>. QED
        BY <1>1, <1>2, <3>1, <3>2
  <2>3. CASE k \notin 1..s /\ j \notin 1..s
    <3>1. /\ k \in (s + 1)..(s + q) /\ after[k].id = n - q + (k - s)
          /\ j \in (s + 1)..(s + q) /\ after[j].id = n - q + (j - s)
        BY <1>4, <1>6, <2>3
    <3>. QED
        BY <1>1, <1>2, <1>6, <3>1
  <2>. QED
      BY <2>1, <2>2, <2>3
<1>7. Len(<<>>) = 0 /\ DOMAIN <<>> = {} /\ n - 0 = n
    OBVIOUS
<1>8. Accounted(after, <<>>, n)
    BY <1>4, <1>5, <1>6, <1>7 DEF Accounted
<1>. QED
    BY <1>8 DEF after

\* The next steering message may join the queue.
LEMMA AccountedWithNext ==
    ASSUME NEW session \in Seq(Messages), NEW queue \in Seq(UserMessages), NEW n \in Nat,
           Accounted(session, queue, n)
    PROVE  Accounted(session, Append(queue, User(n + 1)), n + 1)
<1>. DEFINE after == Append(queue, User(n + 1))
            q == Len(queue)
<1>1. /\ q \in Nat /\ DOMAIN queue = 1..q /\ Len(after) = q + 1 /\ DOMAIN after = 1..(q + 1)
      /\ \A i \in 1..q : after[i] = queue[i]
      /\ after[q + 1] = User(n + 1)
    OBVIOUS
<1>2. q <= n
    BY DEF Accounted
<1>. HIDE DEF after, q
<1>3. (n + 1) - (q + 1) = n - q /\ (n - q) + (q + 1) = n + 1
    BY <1>1
<1>4. \A i \in 1..(q + 1) : after[i] = User(n - q + i)
  <2>1. \A i \in 1..q : after[i] = User(n - q + i)
      BY <1>1 DEF Accounted, q
  <2>2. \A i \in 1..(q + 1) : i \in 1..q \/ i = q + 1
      BY <1>1
  <2>. QED
      BY <1>1, <1>3, <2>1, <2>2
<1>5. q + 1 <= n + 1
    BY <1>1, <1>2
<1>6. Accounted(session, after, n + 1)
    BY <1>1, <1>3, <1>4, <1>5 DEF Accounted, q
<1>. QED
    BY <1>6 DEF after

\* The steering messages so far.
Conserved == Accounted(stored, steering, steers)

\* A step that keeps one message of another kind.
LEMMA OtherConserved ==
    ASSUME ~StoreMayFail, DroidOK, HistoryOK, Conserved, NEW m, ~IsSteered(m),
           AppendMessages(<<m>>), UNCHANGED <<steering, steers>>
    PROVE  Conserved'
<1>1. stored' = stored \o <<m>>
    BY DEF AppendMessages
<1>2. steers \in Nat
    BY BoundsAssumption DEF HistoryOK
<1>. QED
    BY <1>1, <1>2, AccountedWithOther DEF Conserved, DroidOK

\* A step that drains the queue, as long as the run is not a continuation.
LEMMA DrainConserved ==
    ASSUME ~StoreMayFail, DroidOK, HistoryOK, Conserved, DrainSteering, steers' = steers
    PROVE  Conserved'
<1>1. steers \in Nat
    BY BoundsAssumption DEF HistoryOK
<1>2. CASE kind = "continuation"
    BY <1>2 DEF DrainSteering, droid, Conserved
<1>3. CASE kind # "continuation"
  <2>1. stored' = stored \o steering /\ steering' = <<>>
      BY <1>3 DEF DrainSteering, AppendMessages
  <2>. QED
      BY <1>1, <2>1, AccountedWithQueue DEF Conserved, DroidOK
<1>. QED
    BY <1>2, <1>3

\* A turn keeps its message.
LEMMA HearConserved ==
    ASSUME ~StoreMayFail, DroidOK, HistoryOK, Conserved, NEW m \in Replies, Hear(m)
    PROVE  Conserved'
<1>1. UNCHANGED <<steering, steers>>
    BY DEF Hear, counts
<1>2. CASE m.stop = "contextWindow"
    BY <1>1, <1>2 DEF Hear, Conserved
<1>3. CASE m.stop # "contextWindow"
  <2>1. AppendMessages(<<m>>)
      BY <1>3 DEF Hear
  <2>2. m.role # "user"
      BY DEF Replies, Assistant
  <2>. QED
      BY <1>1, <2>1, <2>2, OtherConserved DEF IsSteered
<1>. QED
    BY <1>2, <1>3

\* No step loses or repeats a steering message.
LEMMA ConservedStep ==
    ASSUME ~StoreMayFail, MaxCrashes = 0, DroidOK, HistoryOK, Conserved, [Next]_vars
    PROVE  Conserved'
<1>0. /\ ~StoreMayFail /\ MaxCrashes = 0
      /\ DroidOK /\ HistoryOK /\ Conserved
    OBVIOUS
<1>1. ASSUME NEW k \in {"normal", "continuation"}, StartRun(k) PROVE Conserved'
  <2>1. UNCHANGED <<steering, steers>>
      BY <1>1 DEF StartRun
  <2>2. CASE k = "normal"
    <3>1. AppendMessages(<<Seed>>)
        BY <1>1, <2>2 DEF StartRun
    <3>2. ~IsSteered(Seed)
        BY DEF Seed, User, IsSteered
    <3>. QED
        BY <1>0, <2>1, <3>1, <3>2, OtherConserved
  <2>3. CASE k # "normal"
    <3>1. stored' = stored
        BY <1>1, <2>3 DEF StartRun
    <3>. QED
        BY <2>1, <3>1 DEF Conserved
  <2>. QED
      BY <2>2, <2>3
<1>2. CASE StepFirst
  <2>1. DrainSteering /\ steers' = steers
      BY <1>2 DEF StepFirst, counts
  <2>. QED
      BY <1>0, <2>1, DrainConserved
<1>3. CASE StepLater
  <2>1. DrainSteering /\ steers' = steers
      BY <1>3 DEF StepLater, counts
  <2>. QED
      BY <1>0, <2>1, DrainConserved
<1>4. ASSUME NEW m \in Replies, RespondOverflow(m) PROVE Conserved'
    BY <1>0, <1>4, HearConserved DEF RespondOverflow
<1>5. ASSUME NEW m \in Replies, RespondFailing(m) PROVE Conserved'
    BY <1>0, <1>5, HearConserved DEF RespondFailing
<1>6. ASSUME NEW m \in Replies, RespondFinal(m) PROVE Conserved'
    BY <1>0, <1>6, HearConserved DEF RespondFinal
<1>7. ASSUME NEW m \in Replies, RespondCalling(m) PROVE Conserved'
    BY <1>0, <1>7, HearConserved DEF RespondCalling
<1>8. CASE SequentialBlocked
  <2>1. AppendMessages(<<ResultFor(batch[idx])>>) /\ UNCHANGED <<steering, steers>>
      BY <1>8 DEF SequentialBlocked, KeepResult, counts
  <2>2. ~IsSteered(ResultFor(batch[idx]))
      BY DEF ResultFor, ToolResult, IsSteered
  <2>. QED
      BY <1>0, <2>1, <2>2, OtherConserved
<1>9. CASE ToolReturns
  <2>1. AppendMessages(<<ResultFor(batch[idx])>>) /\ UNCHANGED <<steering, steers>>
      BY <1>9 DEF ToolReturns, KeepResult, counts
  <2>2. ~IsSteered(ResultFor(batch[idx]))
      BY DEF ResultFor, ToolResult, IsSteered
  <2>. QED
      BY <1>0, <2>1, <2>2, OtherConserved
<1>10. CASE Finalize
  <2>1. AppendMessages(<<ResultFor(batch[idx])>>) /\ UNCHANGED <<steering, steers>>
      BY <1>10 DEF Finalize, KeepResult, counts
  <2>2. ~IsSteered(ResultFor(batch[idx]))
      BY DEF ResultFor, ToolResult, IsSteered
  <2>. QED
      BY <1>0, <2>1, <2>2, OtherConserved
<1>11. CASE Steer
  <2>1. stored' = stored /\ steers' = steers + 1 /\ steering' = Append(steering, User(steers + 1))
      BY <1>11 DEF Steer
  <2>2. steers \in Nat
      BY <1>0, BoundsAssumption DEF HistoryOK
  <2>. QED
      BY <1>0, <2>1, <2>2, AccountedWithNext DEF Conserved, DroidOK
<1>12. CASE Restart
  <2>1. crashes \in Nat /\ crashes < 0
      BY <1>0, <1>12, BoundsAssumption DEF Restart, HistoryOK
  <2>. QED
      BY <2>1
<1>13. CASE UNCHANGED <<stored, steering, steers>>
    BY <1>13 DEF Conserved
<1>14. CASE RefuseContinuation \/ StepAborts \/ Weigh \/ HookFails \/
          HookDeclines \/ Request \/ StreamStarts \/ SequentialStart \/ Join \/
          BatchEnd \/ Cancel \/ UNCHANGED vars
    BY <1>13, <1>14 DEF RefuseContinuation, droid, tools, counts, traffic,
        StepAborts, EndRun, Emit, Weigh, Turning, HookFails, HookDeclines,
        Request, StreamStarts, SequentialStart, Mark, Join, BatchEnd, Cancel,
        vars
<1>15. ASSUME NEW r \in Replacements, HookApplies(r)
      PROVE  Conserved'
    BY <1>13, <1>15 DEF HookApplies, Turning, Emit, tools, droid, counts,
        traffic
<1>16. ASSUME NEW blocked \in BOOLEAN, Preflight(blocked)
      PROVE  Conserved'
    BY <1>13, <1>16 DEF Preflight, Emit, Mark, droid, tools, counts, traffic
<1>17. ASSUME NEW i \in DOMAIN tool, Acquire(i) \/ ToolEnds(i)
      PROVE  Conserved'
    BY <1>13, <1>17 DEF Acquire, Mark, ParallelUnchanged, droid, tools, counts,
        traffic, ToolEnds, Emit
<1>. QED
    BY <1>1, <1>2, <1>3, <1>4, <1>5, <1>6, <1>7, <1>8, <1>9, <1>10, <1>11,
        <1>12, <1>13, <1>14, <1>15, <1>16, <1>17 DEF Next, LoopStep, Answer

\* As long as Storage keeps what it is given and the process lives, every
\* steering message is either still queued or in the stored session, once and in
\* the order of the calls of Steer: whatever the runs do with the context, over
\* compactions, failures, cancellations and continuations.
THEOREM SteeringIsConserved ==
    ASSUME ~StoreMayFail, MaxCrashes = 0,
           \A h \in Histories : \A k \in DOMAIN h : ~IsSteered(h[k])
    PROVE  Spec => []SteeringConserved
<1>1. Init => Conserved
  <2>. SUFFICES ASSUME Init PROVE Conserved
      OBVIOUS
  <2>1. PICK h \in Histories : stored = h
      BY DEF Init
  <2>2. steers = 0 /\ steering = <<>> /\ Len(<<>>) = 0 /\ DOMAIN <<>> = {} /\ 1..(0 - 0) = {}
      BY DEF Init
  <2>. QED
      BY <2>1, <2>2 DEF Conserved, Accounted
<1>2. IInv /\ Conserved /\ [Next]_vars => Conserved'
    BY ConservedStep DEF IInv, TypeOK
<1>3. IInv /\ Conserved => SteeringConserved
  <2>. SUFFICES ASSUME IInv, Conserved PROVE SteeringConserved
      OBVIOUS
  <2>. DEFINE session == stored \o steering
              steered == {k \in DOMAIN session : IsSteered(session[k])}
  <2>1. steers \in Nat
      BY BoundsAssumption DEF IInv, TypeOK, HistoryOK
  <2>2. Accounted(session, <<>>, steers)
      BY <2>1, AccountedWithQueue DEF IInv, TypeOK, DroidOK, Conserved
  <2>3. Len(<<>>) = 0 /\ steers - 0 = steers
      BY <2>1
  <2>. HIDE DEF session
  <2>4. {session[k].id : k \in steered} = 1..steers
      BY <2>2, <2>3 DEF Accounted
  <2>5. \A j, k \in steered : j < k => session[j].id < session[k].id
      BY <2>2 DEF Accounted
  <2>. QED
      BY <2>4, <2>5 DEF SteeringConserved, session
<1>. QED
    BY <1>1, <1>2, <1>3, Invariance, PTL DEF Spec

-----------------------------------------------------------------------------
(* Continuations after the last step.                                       *)

\* The messages end with the one that asked for the calls and the results of the
\* first n of them.
Answering(ms, calls, n) ==
    LET k == Len(ms) - n IN
    /\ n \in 0..Len(calls) /\ k >= 1
    /\ ms[k] = Assistant("toolUse", calls)
    /\ \A j \in 1..n : ms[k + j] = ResultFor(calls[j])

\* How many calls of a batch have their results follows from the place of the
\* loop, until the batch is given up; what a run that used up its steps leaves
\* stays as it is.
TailInv ==
    /\ pc \in {"sequential", "running", "finalize"} => Answering(transcript, batch, idx - 1)
    /\ pc \in {"preflight", "parallel"} => Answering(transcript, batch, 0)
    /\ pc = "batchEnd" /\ ~cut => Answering(transcript, batch, Len(batch))
    /\ pc = "idle" /\ outcome = "maxSteps" /\ ~cut => ValidContinuation(transcript)

\* One result for each call, in their order, is what a continuation takes.
LEMMA AnsweredContinues ==
    ASSUME NEW ms \in Seq(Messages), NEW calls \in Seq(ToolCalls), calls # <<>>,
           Identified(calls), Answering(ms, calls, Len(calls))
    PROVE  ValidContinuation(ms)
<1>. DEFINE n == Len(calls)
            N == Len(ms)
            k == N - n
            others == {j \in DOMAIN ms : ~IsResult(ms[j])} \cup {0}
<1>1. /\ n \in Nat /\ n > 0 /\ N \in Nat /\ DOMAIN ms = 1..N /\ DOMAIN calls = 1..n
      /\ k >= 1 /\ k \in 1..N /\ k < N
      /\ ms[k] = Assistant("toolUse", calls)
      /\ \A j \in 1..n : ms[k + j] = ResultFor(calls[j])
    BY DEF Answering
<1>2. /\ ms[k].role = "assistant" /\ ms[k].calls = calls /\ ~IsResult(ms[k])
      /\ 0 < k /\ N - k = n
    BY <1>1 DEF Assistant, IsResult
<1>3. \A j \in 1..n : IsResult(ms[k + j]) /\ Answers(ms[k + j], calls[j])
  <2>1. \A call : IsResult(ResultFor(call)) /\ Answers(ResultFor(call), call)
    BY DEF ResultFor, ToolResult, Answers, IsResult
  <2>. QED
    BY <1>1, <2>1
<1>. HIDE DEF n, N, k
<1>4. \A j \in (k + 1)..N : IsResult(ms[j])
  <2>. SUFFICES ASSUME NEW j \in (k + 1)..N PROVE IsResult(ms[j])
    OBVIOUS
  <2>1. j - k \in 1..n /\ k + (j - k) = j
    BY <1>1, <1>2
  <2>. QED
    BY <1>3, <2>1
<1>5. k \in others /\ \A j \in others : j <= k
    BY <1>1, <1>2, <1>4
<1>6. \A i \in others : (\A j \in others : j <= i) => i = k
    BY <1>1, <1>5
<1>7. LastNonResult(ms) = k
    BY <1>5, <1>6 DEF LastNonResult
<1>. QED
    BY <1>1, <1>2, <1>3, <1>7 DEF ValidContinuation, n, N

\* One more result.
LEMMA AnswersOneMore ==
    ASSUME NEW ms \in Seq(Messages), NEW calls \in Seq(ToolCalls), NEW i \in DOMAIN calls,
           Answering(ms, calls, i - 1)
    PROVE  Answering(ms \o <<ResultFor(calls[i])>>, calls, i)
<1>. DEFINE N == Len(ms)
            k == N - (i - 1)
            r == ResultFor(calls[i])
            after == ms \o <<r>>
<1>1. /\ N \in Nat /\ DOMAIN ms = 1..N /\ i \in 1..Len(calls) /\ Len(calls) \in Nat
      /\ k >= 1 /\ ms[k] = Assistant("toolUse", calls)
      /\ \A j \in 1..(i - 1) : ms[k + j] = ResultFor(calls[j])
    BY DEF Answering
<1>2. /\ Len(after) = N + 1
      /\ \A j \in 1..N : after[j] = ms[j]
      /\ after[N + 1] = r
    OBVIOUS
<1>. HIDE DEF N, r, after
<1>3. Len(after) - i = k
    BY <1>1, <1>2
<1>4. k \in 1..N /\ \A j \in 1..(i - 1) : k + j \in 1..N
    BY <1>1
<1>5. k + i = N + 1 /\ i \in 0..Len(calls)
  <2>1. i \in Int /\ N \in Int
    BY <1>1
  <2>2. k + i = N + 1
    BY <2>1
  <2>. QED
    BY <1>1, <2>2
<1>6. \A j \in 1..i : after[k + j] = ResultFor(calls[j])
  <2>1. \A j \in 1..(i - 1) : after[k + j] = ResultFor(calls[j])
    BY <1>1, <1>2, <1>4
  <2>2. after[k + i] = ResultFor(calls[i])
    BY <1>2, <1>5 DEF r
  <2>3. \A j \in 1..i : j \in 1..(i - 1) \/ j = i
    BY <1>1
  <2>. QED
    BY <2>1, <2>2, <2>3
<1>7. after[k] = Assistant("toolUse", calls)
    BY <1>1, <1>2, <1>4
<1>. HIDE DEF k
<1>8. Answering(after, calls, i)
    BY <1>1, <1>3, <1>5, <1>6, <1>7 DEF Answering, k
<1>. QED
    BY <1>8 DEF after, r

\* A step adds the next result or leaves the tail of the transcript alone.
LEMMA TailStep ==
    ASSUME DroidOK, BatchOK, BatchInv, TailInv, [Next]_vars,
           \A calls \in Batches : Identified(calls)
    PROVE  TailInv'
<1>0. /\ DroidOK /\ BatchOK /\ BatchInv /\ TailInv
      /\ \A calls \in Batches : Identified(calls)
    OBVIOUS
<1>1. ASSUME NEW k \in {"normal", "continuation"}, StartRun(k) PROVE TailInv'
    BY <1>0, <1>1 DEF TailInv, StartRun, tools, droid, counts, traffic
<1>2. CASE RefuseContinuation
    BY <1>0, <1>2 DEF TailInv, RefuseContinuation, droid, tools, counts, traffic
<1>3. CASE StepAborts
    BY <1>0, <1>3 DEF TailInv, StepAborts, EndRun, droid, tools, counts, traffic
<1>4. CASE StepFirst
    BY <1>0, <1>4 DEF TailInv, StepFirst, Turning, DrainSteering, droid, tools, counts,
        traffic
<1>5. CASE StepLater
    BY <1>0, <1>5 DEF TailInv, StepLater, DrainSteering, droid, tools, counts, traffic
<1>6. CASE Weigh
    BY <1>0, <1>6 DEF TailInv, Weigh, Turning, droid, tools, counts, traffic
<1>7. CASE HookFails
    BY <1>0, <1>7 DEF TailInv, HookFails, EndRun, droid, tools, counts, traffic
<1>8. CASE HookDeclines
    BY <1>0, <1>8 DEF TailInv, HookDeclines, EndRun, Turning, droid, tools, counts, traffic
<1>9. ASSUME NEW r \in Replacements, HookApplies(r) PROVE TailInv'
    BY <1>0, <1>9 DEF TailInv, HookApplies, Turning, tools, droid, counts, traffic
<1>10. CASE Request
    BY <1>0, <1>10 DEF TailInv, Request, droid, tools, counts, traffic
<1>11. ASSUME NEW m \in Replies, RespondOverflow(m) PROVE TailInv'
    BY <1>0, <1>11 DEF TailInv, RespondOverflow, MayRetry, Hear, counts, droid, tools, traffic
<1>12. ASSUME NEW m \in Replies, RespondFailing(m) PROVE TailInv'
    BY <1>0, <1>12 DEF TailInv, RespondFailing, EndRun, MayRetry, Hear, counts, droid, tools,
        traffic
<1>13. ASSUME NEW m \in Replies, RespondFinal(m) PROVE TailInv'
    BY <1>0, <1>13 DEF TailInv, RespondFinal, EndRun, Hear, counts, droid, tools, traffic
<1>14. ASSUME NEW m \in Replies, RespondCalling(m) PROVE TailInv'
  <2>1. m.stop = "toolUse" /\ m.calls # <<>> /\ Hear(m)
    BY <1>0, <1>14 DEF TailInv, RespondCalling
  <2>2. /\ batch' = m.calls /\ idx' = 1 /\ pc' \in {"sequential", "preflight"}
        /\ transcript' = transcript \o <<m>>
    BY <1>0, <1>14 DEF TailInv, RespondCalling, Hear, AppendMessages
  <2>3. m = Assistant("toolUse", m.calls) /\ m.calls \in Seq(ToolCalls)
    BY <2>1, MessagesTyped DEF Replies, Assistant
  <2>4. /\ Len(transcript') - 0 = Len(transcript) + 1
        /\ Len(transcript) + 1 >= 1 /\ transcript'[Len(transcript) + 1] = m
    BY <1>0, <2>2 DEF DroidOK
  <2>5. 0 \in 0..Len(m.calls) /\ 1 - 1 = 0
    BY <2>3
  <2>6. \A j \in 1..0 : FALSE
    OBVIOUS
  <2>7. Answering(transcript', m.calls, 0)
    BY <2>2, <2>3, <2>4, <2>5, <2>6 DEF Answering
  <2>8. idx' - 1 = 0
    BY <2>2
  <2>. QED
    BY <2>2, <2>7, <2>8 DEF TailInv
<1>15. CASE SequentialBlocked
  <2>1. /\ batch' = batch /\ idx' = idx + 1 /\ pc = "sequential"
        /\ transcript' = transcript \o <<ResultFor(batch[idx])>>
        /\ \/ pc' = "batchEnd" /\ cut' = (cut \/ idx < Len(batch))
           \/ pc' = "sequential"
    BY <1>0, <1>15 DEF TailInv, SequentialBlocked, KeepResult, AppendMessages, NextCall
  <2>2. idx \in DOMAIN batch /\ batch \in Seq(ToolCalls) /\ transcript \in Seq(Messages)
    BY <1>0, <2>1, BatchesAssumption DEF BatchInv, BatchOK, DroidOK, Batching
  <2>3. Answering(transcript', batch, idx)
    BY <1>0, <2>1, <2>2, AnswersOneMore DEF TailInv
  <2>4. idx' - 1 = idx /\ (~(idx < Len(batch)) => idx = Len(batch))
    BY <2>1, <2>2
  <2>5. pc' = "sequential" => Answering(transcript', batch, idx' - 1)
    BY <2>3, <2>4
  <2>6. pc' = "batchEnd" /\ ~cut' => Answering(transcript', batch, Len(batch))
    BY <2>1, <2>3, <2>4
  <2>. QED
    BY <2>1, <2>5, <2>6 DEF TailInv
<1>16. CASE SequentialStart
  <2>1. /\ UNCHANGED <<transcript, batch, idx>> /\ pc = "sequential" /\ pc' = "running"
    BY <1>0, <1>16 DEF TailInv, SequentialStart, droid
  <2>2. Answering(transcript', batch, idx' - 1)
    BY <1>0, <2>1 DEF TailInv
  <2>. QED
    BY <2>1, <2>2 DEF TailInv
<1>17. CASE ToolReturns
  <2>1. /\ batch' = batch /\ idx' = idx + 1 /\ pc = "running"
        /\ transcript' = transcript \o <<ResultFor(batch[idx])>>
        /\ \/ pc' = "batchEnd" /\ cut' = (cut \/ idx < Len(batch))
           \/ pc' = "sequential"
    BY <1>0, <1>17 DEF TailInv, ToolReturns, KeepResult, AppendMessages, NextCall
  <2>2. idx \in DOMAIN batch /\ batch \in Seq(ToolCalls) /\ transcript \in Seq(Messages)
    BY <1>0, <2>1, BatchesAssumption DEF BatchInv, BatchOK, DroidOK, Batching
  <2>3. Answering(transcript', batch, idx)
    BY <1>0, <2>1, <2>2, AnswersOneMore DEF TailInv
  <2>4. idx' - 1 = idx /\ (~(idx < Len(batch)) => idx = Len(batch))
    BY <2>1, <2>2
  <2>5. pc' = "sequential" => Answering(transcript', batch, idx' - 1)
    BY <2>3, <2>4
  <2>6. pc' = "batchEnd" /\ ~cut' => Answering(transcript', batch, Len(batch))
    BY <2>1, <2>3, <2>4
  <2>. QED
    BY <2>1, <2>5, <2>6 DEF TailInv
<1>18. ASSUME NEW blocked \in BOOLEAN, Preflight(blocked) PROVE TailInv'
  <2>1. /\ UNCHANGED <<transcript, batch>> /\ pc = "preflight" /\ pc' \in {"parallel", "preflight"}
        /\ idx' = idx + 1
    BY <1>0, <1>18 DEF TailInv, Preflight, droid, tools
  <2>2. Answering(transcript, batch, 0) /\ 1 - 1 = 0
    BY <1>0, <2>1 DEF TailInv
  <2>. QED
    BY <2>1, <2>2 DEF TailInv
<1>19. CASE Join
  <2>1. /\ UNCHANGED <<transcript, batch>> /\ pc = "parallel" /\ pc' \in {"finalize"}
        /\ idx' = 1
    BY <1>0, <1>19 DEF TailInv, Join, droid, tools
  <2>2. Answering(transcript, batch, 0) /\ 1 - 1 = 0
    BY <1>0, <2>1 DEF TailInv
  <2>. QED
    BY <2>1, <2>2 DEF TailInv
<1>20. CASE Finalize
  <2>1. /\ batch' = batch /\ idx' = idx + 1 /\ pc = "finalize"
        /\ transcript' = transcript \o <<ResultFor(batch[idx])>>
        /\ pc' = IF idx = Len(batch) THEN "batchEnd" ELSE "finalize"
    BY <1>0, <1>20 DEF TailInv, Finalize, KeepResult, AppendMessages
  <2>2. idx \in DOMAIN batch /\ batch \in Seq(ToolCalls) /\ transcript \in Seq(Messages)
    BY <1>0, <2>1, BatchesAssumption DEF BatchInv, BatchOK, DroidOK, Batching
  <2>3. Answering(transcript', batch, idx)
    BY <1>0, <2>1, <2>2, AnswersOneMore DEF TailInv
  <2>4. idx' - 1 = idx
    BY <2>1, <2>2
  <2>5. pc' = "finalize" => Answering(transcript', batch, idx' - 1)
    BY <2>3, <2>4
  <2>6. pc' = "batchEnd" /\ ~cut' => Answering(transcript', batch, Len(batch))
    BY <2>1, <2>3, <2>4
  <2>. QED
    BY <2>1, <2>5, <2>6 DEF TailInv
<1>21. CASE BatchEnd
  <2>1. UNCHANGED <<transcript, cut>> /\ pc = "batchEnd" /\ pc' \in {"idle", "step"}
    BY <1>0, <1>21 DEF TailInv, BatchEnd, EndRun, droid
  <2>2. /\ transcript \in Seq(Messages) /\ batch \in Seq(ToolCalls) /\ batch # <<>>
        /\ Identified(batch)
    BY <1>0, <2>1, BatchesAssumption DEF BatchInv, BatchOK, DroidOK, Batching
  <2>3. ~cut => ValidContinuation(transcript)
    BY <1>0, <2>1, <2>2, AnsweredContinues DEF TailInv
  <2>. QED
    BY <2>1, <2>3 DEF TailInv
<1>22. CASE Restart
    BY <1>0, <1>22 DEF TailInv, Restart, traffic, droid, tools, counts
<1>23. CASE UNCHANGED <<pc, transcript, batch, idx, outcome, cut>>
    BY <1>23, <1>0 DEF TailInv
<1>24. CASE StreamStarts \/ Cancel \/ Steer \/ UNCHANGED vars
    BY <1>23, <1>24 DEF StreamStarts, Emit, droid, tools, counts, traffic,
        Cancel, Steer, vars
<1>25. ASSUME NEW i \in DOMAIN tool, Acquire(i) \/ ToolEnds(i)
      PROVE  TailInv'
    BY <1>23, <1>25 DEF Acquire, Mark, ParallelUnchanged, droid, tools, counts,
        traffic, ToolEnds, Emit
<1>. QED
    BY <1>1, <1>2, <1>3, <1>4, <1>5, <1>6, <1>7, <1>8, <1>9, <1>10, <1>11,
        <1>12, <1>13, <1>14, <1>15, <1>16, <1>17, <1>18, <1>19, <1>20, <1>21,
        <1>22, <1>23, <1>24, <1>25 DEF Next, LoopStep, Answer

\* A run that used up its steps can be continued, whatever batches its provider
\* asked for and in whatever way they were executed, as long as the calls of a
\* batch have names and ids of their own.
THEOREM ContinuableAtTheLimit ==
    ASSUME \A calls \in Batches : Identified(calls)
    PROVE  Spec => []ContinuableAfterMaxSteps
<1>1. Init => TailInv
    BY DEF Init, TailInv
<1>2. IInv /\ TailInv /\ [Next]_vars => TailInv'
    BY TailStep DEF IInv, TypeOK
<1>3. TailInv => ContinuableAfterMaxSteps
    BY DEF TailInv, ContinuableAfterMaxSteps
<1>. QED
    BY <1>1, <1>2, <1>3, Invariance, PTL DEF Spec

-----------------------------------------------------------------------------
(* Complete requests.                                                       *)

\* Every call of the messages has its output and every output its call, as the
\* OpenAI provider translates them.
Complete(ms) == Matched(Items("openai", ms))

\* The messages are complete but for a batch of which the first n calls have
\* their results.
Underway(ms, calls, n) ==
    /\ Answering(ms, calls, n)
    /\ Complete(SubSeq(ms, 1, Len(ms) - n - 1))

\* What the messages lack follows from the place of the loop.
StandingAt(ms, place, calls, i) ==
    /\ place \notin Batching => Complete(ms)
    /\ place \in {"sequential", "running", "finalize"} => Underway(ms, calls, i - 1)
    /\ place \in {"preflight", "parallel"} => Underway(ms, calls, 0)
    /\ place = "batchEnd" => Underway(ms, calls, Len(calls))

\* Neither the active context nor the session lacks more, as long as no batch was
\* cut short and no append was lost.
WholeInv ==
    ~cut /\ ~unstored =>
        StandingAt(transcript, pc, batch, idx) /\ StandingAt(stored, pc, batch, idx)

\* Lists of messages are conversations.
LEMMA MessagesConverse ==
    ASSUME NEW ms \in Seq(Messages)
    PROVE  Conversation(ms, Messages, ToolCalls)
<1>1. \A m \in Messages :
          /\ m.role \in {"user", "assistant", "toolResult"}
          /\ m.role = "assistant" => m.calls \in Seq(ToolCalls)
    BY DEF Messages, UserMessages, AssistantMessages, ToolResultMessages
<1>. QED
    BY <1>1 DEF Conversation

\* What is complete stays so when something complete follows.
LEMMA CompleteBoth ==
    ASSUME NEW ms \in Seq(Messages), NEW more \in Seq(Messages), Complete(ms), Complete(more)
    PROVE  Complete(ms \o more)
<1>1. Conversation(ms, Messages, ToolCalls) /\ Conversation(more, Messages, ToolCalls)
    BY MessagesConverse
<1>. QED
    BY <1>1, MatchedOn DEF Complete

\* User messages are complete.
LEMMA UsersComplete ==
    ASSUME NEW ms \in Seq(UserMessages)
    PROVE  ms \in Seq(Messages) /\ Complete(ms)
<1>1. ms \in Seq(Messages)
    BY DEF Messages
<1>2. \A k \in 1..Len(ms) : ms[k].role = "user"
  <2>1. \A m \in UserMessages : m.role = "user"
      BY DEF UserMessages
  <2>2. \A k \in 1..Len(ms) : ms[k] \in UserMessages
      OBVIOUS
  <2>. QED
      BY <2>1, <2>2
<1>. QED
    BY <1>1, <1>2, MessagesConverse, UsersMatched DEF Complete

\* So is an answer without calls, and one that stopped before its calls were
\* whole.
LEMMA AnswerComplete ==
    ASSUME NEW m \in Replies, m.stop = "toolUse" => m.calls = <<>>
    PROVE  <<m>> \in Seq(Messages) /\ Complete(<<m>>)
<1>1. m \in Messages /\ m.role = "assistant"
    BY MessagesTyped DEF Replies, Assistant
<1>. DEFINE ms == <<m>>
<1>2. ms \in Seq(Messages) /\ Len(ms) = 1 /\ ms[1] = m
    BY <1>1
<1>. HIDE DEF ms
<1>3. Complete(ms)
    BY <1>1, <1>2, MessagesConverse, SilentMatched DEF Complete
<1>. QED
    BY <1>2, <1>3 DEF ms

\* So is a batch with all its results.
LEMMA BatchCompletes ==
    ASSUME NEW ms \in Seq(Messages), NEW calls \in Seq(ToolCalls), Identified(calls),
           Underway(ms, calls, Len(calls))
    PROVE  Complete(ms)
<1>. DEFINE n == Len(calls)
            N == Len(ms)
            k == N - n
            base == SubSeq(ms, 1, k - 1)
            turn == SubSeq(ms, k, N)
<1>1. /\ n \in Nat /\ N \in Nat /\ k \in 1..N
      /\ ms[k] = Assistant("toolUse", calls)
      /\ \A j \in 1..n : ms[k + j] = ResultFor(calls[j])
      /\ Complete(base)
  <2>1. N - n - 1 = k - 1
      OBVIOUS
  <2>. QED
      BY <2>1 DEF Underway, Answering
<1>2. /\ base \in Seq(Messages) /\ turn \in Seq(Messages) /\ ms = base \o turn
      /\ Len(turn) = n + 1
  <2>. HIDE DEF n
  <2>1. /\ base \in Seq(Messages) /\ Len(base) = k - 1
        /\ \A j \in 1..(k - 1) : base[j] = ms[j]
      BY <1>1
  <2>2. /\ turn \in Seq(Messages) /\ Len(turn) = n + 1
        /\ \A j \in 1..(n + 1) : turn[j] = ms[k + j - 1]
      BY <1>1
  <2>3. ms \in Seq(Messages) /\ Len(ms) = N /\ N = (k - 1) + (n + 1)
      BY <1>1
  <2>. HIDE DEF base, turn, N
  <2>. DEFINE both == base \o turn
  <2>4. both \in Seq(Messages) /\ Len(both) = N
    <3>1. base \in Seq(Messages) /\ turn \in Seq(Messages)
        BY <2>1, <2>2
    <3>2. both \in Seq(Messages) /\ Len(both) = Len(base) + Len(turn)
        BY <3>1
    <3>. QED
        BY <2>1, <2>2, <2>3, <3>2
  <2>5. ASSUME NEW j \in 1..N PROVE both[j] = ms[j]
    <3>1. CASE j \in 1..(k - 1)
        BY <2>1, <2>2, <3>1
    <3>2. CASE j \notin 1..(k - 1)
      <4>1. /\ j \in 1..(Len(base) + Len(turn)) /\ j \notin 1..Len(base)
            /\ j - Len(base) \in 1..(n + 1) /\ k + (j - Len(base)) - 1 = j
          BY <1>1, <2>1, <2>2, <2>3, <3>2
      <4>2. both[j] = turn[j - Len(base)]
        <5>1. base \in Seq(Messages) /\ turn \in Seq(Messages)
            BY <2>1, <2>2
        <5>. QED
            BY <4>1, <5>1
      <4>. QED
          BY <2>2, <4>1, <4>2
    <3>. QED
        BY <3>1, <3>2
  <2>. HIDE DEF both
  <2>6. ms = both
      BY <2>3, <2>4, <2>5
  <2>. QED
      BY <2>1, <2>2, <2>6 DEF both
<1>3. turn[1] = ms[k] /\ \A j \in 1..n : turn[1 + j] = ms[k + j]
  <2>. HIDE DEF n
  <2>. QED
      BY <1>1
<1>. HIDE DEF base, turn, k, N
<1>4. turn[1].role = "assistant" /\ turn[1].stop = "toolUse" /\ turn[1].calls = calls
    BY <1>1, <1>3 DEF Assistant
<1>5. \A j \in 1..n : IsResult(turn[1 + j]) /\ turn[1 + j].id = calls[j].id
  <2>1. \A call : IsResult(ResultFor(call)) /\ ResultFor(call).id = call.id
      BY DEF IsResult, ResultFor, ToolResult
  <2>. QED
      BY <1>1, <1>3, <2>1
<1>6. Batch(turn)
    BY <1>2, <1>4, <1>5 DEF Batch
<1>7. Complete(turn)
    BY <1>2, <1>6, MessagesConverse, BatchMatched DEF Complete
<1>. QED
    BY <1>1, <1>2, <1>7, CompleteBoth

\* A batch begins.
LEMMA BatchBegins ==
    ASSUME NEW ms \in Seq(Messages), NEW calls \in Seq(ToolCalls), Complete(ms),
           Assistant("toolUse", calls) \in Messages
    PROVE  Underway(ms \o <<Assistant("toolUse", calls)>>, calls, 0)
<1>. DEFINE m == Assistant("toolUse", calls)
            after == ms \o <<m>>
<1>1. /\ Len(after) = Len(ms) + 1 /\ after[Len(ms) + 1] = m
      /\ SubSeq(after, 1, Len(ms)) = ms
      /\ Len(ms) \in Nat /\ Len(calls) \in Nat
  <2>. HIDE DEF m
  <2>. QED
      BY DEF m
<1>. HIDE DEF after, m
<1>2. /\ Len(after) - 0 = Len(ms) + 1 /\ Len(after) - 0 - 1 = Len(ms)
      /\ 0 \in 0..Len(calls) /\ \A j \in 1..0 : FALSE
    BY <1>1
<1>3. Answering(after, calls, 0)
    BY <1>1, <1>2 DEF Answering, m
<1>. QED
    BY <1>1, <1>2, <1>3 DEF Underway, after, m

\* A batch goes on.
LEMMA BatchGoesOn ==
    ASSUME NEW ms \in Seq(Messages), NEW calls \in Seq(ToolCalls), NEW i \in DOMAIN calls,
           Underway(ms, calls, i - 1)
    PROVE  Underway(ms \o <<ResultFor(calls[i])>>, calls, i)
<1>. DEFINE N == Len(ms)
            r == ResultFor(calls[i])
            after == ms \o <<r>>
            k == N - (i - 1)
<1>1. Answering(after, calls, i)
    BY AnswersOneMore DEF Underway
<1>2. N \in Nat /\ i \in Nat \ {0} /\ k >= 1 /\ Complete(SubSeq(ms, 1, N - (i - 1) - 1))
    BY DEF Underway, Answering
<1>3. r \in Messages
    BY MessagesTyped
<1>. HIDE DEF r, N
<1>4. Len(after) = N + 1
    BY <1>3 DEF N
<1>5. SubSeq(after, 1, k - 1) = SubSeq(ms, 1, k - 1)
    BY <1>2, <1>3 DEF N
<1>6. Len(after) - i - 1 = k - 1 /\ N - (i - 1) - 1 = k - 1
    BY <1>2, <1>4
<1>. HIDE DEF after, k
<1>7. Complete(SubSeq(after, 1, Len(after) - i - 1))
    BY <1>2, <1>5, <1>6
<1>. QED
    BY <1>1, <1>7 DEF Underway, after, r

\* An append that is not lost reaches transcript and session alike.
LEMMA AppendedAlike ==
    ASSUME NEW ms, AppendMessages(ms)
    PROVE  /\ transcript' = transcript \o ms
           /\ ~unstored' => ~unstored /\ stored' = stored \o ms
    BY DEF AppendMessages

\* Outside a batch, appending something complete leaves nothing to lack.
LEMMA WholeAfterAppend ==
    ASSUME DroidOK, WholeInv, NEW ms \in Seq(Messages), Complete(ms), AppendMessages(ms),
           pc \notin Batching, pc' \notin Batching, ~cut' => ~cut
    PROVE  WholeInv'
<1>. SUFFICES ASSUME ~cut', ~unstored'
              PROVE  Complete(transcript') /\ Complete(stored')
    BY DEF WholeInv, StandingAt, Batching
<1>1. ~cut /\ ~unstored /\ transcript' = transcript \o ms /\ stored' = stored \o ms
    BY AppendedAlike
<1>2. Complete(transcript) /\ Complete(stored)
    BY <1>1 DEF WholeInv, StandingAt
<1>. QED
    BY <1>1, <1>2, CompleteBoth DEF DroidOK

\* Outside a batch, leaving both alone does so as well.
LEMMA WholeAsBefore ==
    ASSUME WholeInv, UNCHANGED <<transcript, stored, unstored>>,
           pc \notin Batching, pc' \notin Batching, ~cut' => ~cut
    PROVE  WholeInv'
    BY DEF WholeInv, StandingAt, Batching

\* The next result of a batch.
LEMMA WholeAfterResult ==
    ASSUME DroidOK, BatchOK, BatchInv, WholeInv, NEW events, KeepResult(events),
           pc \in {"sequential", "running", "finalize"}, ~cut' => ~cut, batch' = batch,
           \/ pc' \in {"sequential", "finalize"}
           \/ pc' = "batchEnd" /\ (idx = Len(batch) \/ cut')
    PROVE  WholeInv'
<1>1. /\ idx \in DOMAIN batch /\ batch \in Seq(ToolCalls)
      /\ transcript \in Seq(Messages) /\ stored \in Seq(Messages)
    BY BatchesAssumption DEF BatchInv, BatchOK, DroidOK, Batching
<1>2. AppendMessages(<<ResultFor(batch[idx])>>) /\ idx' = idx + 1 /\ idx' - 1 = idx
    BY <1>1 DEF KeepResult
<1>. SUFFICES ASSUME ~cut', ~unstored'
              PROVE  StandingAt(transcript', pc', batch', idx')
                     /\ StandingAt(stored', pc', batch', idx')
    BY DEF WholeInv
<1>3. /\ ~cut /\ ~unstored
      /\ transcript' = transcript \o <<ResultFor(batch[idx])>>
      /\ stored' = stored \o <<ResultFor(batch[idx])>>
    BY <1>2, AppendedAlike
<1>4. Underway(transcript, batch, idx - 1) /\ Underway(stored, batch, idx - 1)
    BY <1>3 DEF WholeInv, StandingAt
<1>5. Underway(transcript', batch, idx) /\ Underway(stored', batch, idx)
    BY <1>1, <1>3, <1>4, BatchGoesOn
<1>6. CASE pc' \in {"sequential", "finalize"}
    BY <1>2, <1>5, <1>6 DEF StandingAt, Batching
<1>7. CASE pc' = "batchEnd" /\ idx = Len(batch)
    BY <1>2, <1>5, <1>7 DEF StandingAt, Batching
<1>. QED
    BY <1>6, <1>7

\* No step leaves the context or the session with more to lack than its place says.
LEMMA WholeStep ==
    ASSUME DroidOK, BatchOK, BatchInv, WholeInv, [Next]_vars,
           \A calls \in Batches : Identified(calls)
    PROVE  WholeInv'
<1>0. /\ DroidOK /\ BatchOK /\ BatchInv /\ WholeInv
      /\ \A calls \in Batches : Identified(calls)
    OBVIOUS
<1>1. ASSUME NEW k \in {"normal", "continuation"}, StartRun(k) PROVE WholeInv'
  <2>1. pc = "idle" /\ pc' = "step" /\ UNCHANGED cut
    BY <1>1 DEF StartRun
  <2>2. CASE k = "normal"
    <3>1. AppendMessages(<<Seed>>)
        BY <1>1, <2>2 DEF StartRun
    <3>2. <<Seed>> \in Seq(UserMessages)
        BY MessagesTyped DEF Seed
    <3>. QED
        BY <1>0, <2>1, <3>1, <3>2, UsersComplete, WholeAfterAppend DEF Batching
  <2>3. CASE k # "normal"
    <3>1. UNCHANGED <<transcript, stored, unstored>>
        BY <1>1, <2>3 DEF StartRun
    <3>. QED
        BY <1>0, <2>1, <3>1, WholeAsBefore DEF Batching
  <2>. QED
      BY <2>2, <2>3
<1>2. CASE StepAborts
  <2>1. /\ pc \notin Batching /\ pc' \notin Batching
        /\ UNCHANGED <<transcript, stored, unstored, cut>>
    BY <1>2 DEF StepAborts, EndRun, droid, Batching
  <2>. QED
      BY <1>0, <2>1, WholeAsBefore
<1>3. CASE StepFirst
  <2>1. /\ pc = "step" /\ pc' \in {"weigh", "turn"} /\ UNCHANGED cut
        /\ DrainSteering
    BY <1>3 DEF StepFirst, Turning
  <2>2. CASE kind = "continuation"
    <3>1. UNCHANGED <<transcript, stored, unstored>>
        BY <2>1, <2>2 DEF DrainSteering, droid
    <3>. QED
        BY <1>0, <2>1, <3>1, WholeAsBefore DEF Batching
  <2>3. CASE kind # "continuation"
    <3>1. AppendMessages(steering) /\ steering \in Seq(UserMessages)
        BY <1>0, <2>1, <2>3 DEF DrainSteering, DroidOK
    <3>. QED
        BY <1>0, <2>1, <3>1, UsersComplete, WholeAfterAppend DEF Batching
  <2>. QED
      BY <2>2, <2>3
<1>4. CASE StepLater
  <2>1. /\ pc = "step" /\ pc' \in {"weigh", "turn"} /\ UNCHANGED cut
        /\ DrainSteering
    BY <1>4 DEF StepLater, Turning
  <2>2. CASE kind = "continuation"
    <3>1. UNCHANGED <<transcript, stored, unstored>>
        BY <2>1, <2>2 DEF DrainSteering, droid
    <3>. QED
        BY <1>0, <2>1, <3>1, WholeAsBefore DEF Batching
  <2>3. CASE kind # "continuation"
    <3>1. AppendMessages(steering) /\ steering \in Seq(UserMessages)
        BY <1>0, <2>1, <2>3 DEF DrainSteering, DroidOK
    <3>. QED
        BY <1>0, <2>1, <3>1, UsersComplete, WholeAfterAppend DEF Batching
  <2>. QED
      BY <2>2, <2>3
<1>5. CASE Weigh
  <2>1. /\ pc \notin Batching /\ pc' \notin Batching
        /\ UNCHANGED <<transcript, stored, unstored, cut>>
    BY <1>5 DEF Weigh, Turning, droid, Batching
  <2>. QED
      BY <1>0, <2>1, WholeAsBefore
<1>6. CASE HookFails
  <2>1. /\ pc \notin Batching /\ pc' \notin Batching
        /\ UNCHANGED <<transcript, stored, unstored, cut>>
    BY <1>6 DEF HookFails, EndRun, droid, Batching
  <2>. QED
      BY <1>0, <2>1, WholeAsBefore
<1>7. CASE HookDeclines
  <2>1. /\ pc \notin Batching /\ pc' \notin Batching
        /\ UNCHANGED <<transcript, stored, unstored, cut>>
    BY <1>7 DEF HookDeclines, EndRun, Turning, droid, Batching
  <2>. QED
      BY <1>0, <2>1, WholeAsBefore
<1>8. ASSUME NEW r \in Replacements, HookApplies(r) PROVE WholeInv'
  <2>1. /\ pc = "hook" /\ pc' = "turn" /\ UNCHANGED <<stored, unstored, cut>>
        /\ transcript' = r /\ ValidSequence(r)
    BY <1>8 DEF HookApplies, Turning, Acceptable
  <2>2. r \in Seq(Messages)
      BY ContextsAssumption
  <2>3. Complete(r)
      BY <2>1, <2>2, MessagesConverse, ScannedIsMatched DEF Complete
  <2>. QED
      BY <1>0, <2>1, <2>3 DEF WholeInv, StandingAt, Batching
<1>9. CASE Request
  <2>1. /\ pc \notin Batching /\ pc' \notin Batching
        /\ UNCHANGED <<transcript, stored, unstored, cut>>
    BY <1>9 DEF Request, droid, Batching
  <2>. QED
      BY <1>0, <2>1, WholeAsBefore
<1>10. ASSUME NEW m \in Replies, RespondOverflow(m) PROVE WholeInv'
  <2>1. /\ pc \notin Batching /\ pc' \notin Batching
        /\ UNCHANGED <<transcript, stored, unstored, cut>>
    BY <1>10 DEF RespondOverflow, MayRetry, Hear, droid, Batching
  <2>. QED
      BY <1>0, <2>1, WholeAsBefore
<1>11. ASSUME NEW m \in Replies, RespondFailing(m) PROVE WholeInv'
  <2>1. /\ pc = "streaming" /\ pc' = "idle" /\ UNCHANGED cut /\ Hear(m)
    BY <1>11 DEF RespondFailing, Hear, EndRun
  <2>2. CASE m.stop = "contextWindow"
    <3>1. UNCHANGED <<transcript, stored, unstored>>
        BY <2>1, <2>2 DEF Hear
    <3>. QED
        BY <1>0, <2>1, <3>1, WholeAsBefore DEF Batching
  <2>3. CASE m.stop # "contextWindow"
    <3>1. AppendMessages(<<m>>)
        BY <2>1, <2>3 DEF Hear
    <3>2. m.stop = "toolUse" => m.calls = <<>>
        BY <1>11 DEF RespondFailing, Failing
    <3>3. <<m>> \in Seq(Messages) /\ Complete(<<m>>)
        BY <3>2, AnswerComplete
    <3>. QED
        BY <1>0, <2>1, <3>1, <3>3, WholeAfterAppend DEF Batching
  <2>. QED
      BY <2>2, <2>3
<1>12. ASSUME NEW m \in Replies, RespondFinal(m) PROVE WholeInv'
  <2>1. /\ pc = "streaming" /\ pc' = "idle" /\ UNCHANGED cut /\ Hear(m)
    BY <1>12 DEF RespondFinal, Hear, EndRun
  <2>2. CASE m.stop = "contextWindow"
    <3>1. UNCHANGED <<transcript, stored, unstored>>
        BY <2>1, <2>2 DEF Hear
    <3>. QED
        BY <1>0, <2>1, <3>1, WholeAsBefore DEF Batching
  <2>3. CASE m.stop # "contextWindow"
    <3>1. AppendMessages(<<m>>)
        BY <2>1, <2>3 DEF Hear
    <3>2. m.stop = "toolUse" => m.calls = <<>>
        BY <1>12 DEF RespondFinal, Failing
    <3>3. <<m>> \in Seq(Messages) /\ Complete(<<m>>)
        BY <3>2, AnswerComplete
    <3>. QED
        BY <1>0, <2>1, <3>1, <3>3, WholeAfterAppend DEF Batching
  <2>. QED
      BY <2>2, <2>3
<1>13. ASSUME NEW m \in Replies, RespondCalling(m) PROVE WholeInv'
  <2>1. /\ m.stop = "toolUse" /\ pc = "streaming" /\ pc' \in {"sequential", "preflight"}
        /\ batch' = m.calls /\ idx' = 1 /\ UNCHANGED cut /\ AppendMessages(<<m>>)
    BY <1>13 DEF RespondCalling, Hear
  <2>2. m = Assistant("toolUse", m.calls) /\ m \in Messages /\ m.calls \in Seq(ToolCalls)
    BY <2>1, MessagesTyped DEF Replies, Assistant
  <2>. SUFFICES ASSUME ~cut', ~unstored'
                PROVE  StandingAt(transcript', pc', batch', idx')
                       /\ StandingAt(stored', pc', batch', idx')
    BY DEF WholeInv
  <2>3. ~cut /\ ~unstored /\ transcript' = transcript \o <<m>> /\ stored' = stored \o <<m>>
    BY <2>1, AppendedAlike
  <2>4. Complete(transcript) /\ Complete(stored)
    BY <1>0, <2>1, <2>3 DEF WholeInv, StandingAt, Batching
  <2>5. Underway(transcript', m.calls, 0) /\ Underway(stored', m.calls, 0)
    BY <1>0, <2>2, <2>3, <2>4, BatchBegins DEF DroidOK
  <2>6. idx' - 1 = 0
    BY <2>1
  <2>. QED
    BY <2>1, <2>5, <2>6 DEF StandingAt, Batching
<1>14. CASE SequentialBlocked
  <2>1. /\ pc = "sequential" /\ batch' = batch /\ (~cut' => ~cut)
        /\ \/ pc' = "sequential"
           \/ pc' = "batchEnd" /\ (idx = Len(batch) \/ cut')
    <3>1. idx \in DOMAIN batch /\ batch \in Seq(ToolCalls)
        BY <1>14, <1>0, BatchesAssumption DEF SequentialBlocked, BatchInv, BatchOK, Batching
    <3>2. /\ pc = "sequential" /\ batch' = batch
          /\ \/ pc' = "sequential" /\ cut' = cut
             \/ pc' = "batchEnd" /\ cut' = (cut \/ idx < Len(batch))
        BY <1>14 DEF SequentialBlocked, NextCall
    <3>3. ~(idx < Len(batch)) => idx = Len(batch)
        BY <3>1
    <3>4. cut' = (cut \/ idx < Len(batch)) => (idx = Len(batch) \/ cut') /\ (~cut' => ~cut)
        BY <3>3, Zenon
    <3>. QED
        BY <3>2, <3>4, Zenon
  <2>2. PICK events : KeepResult(events)
    BY <1>14 DEF SequentialBlocked
  <2>. QED
    BY <1>0, <2>1, <2>2, WholeAfterResult
<1>15. CASE SequentialStart
  <2>1. /\ UNCHANGED <<transcript, stored, unstored, cut, batch, idx>>
        /\ pc = "sequential" /\ pc' = "running"
    BY <1>15 DEF SequentialStart, droid
  <2>. QED
    BY <1>0, <2>1 DEF WholeInv, StandingAt, Batching
<1>16. CASE ToolReturns
  <2>1. /\ pc = "running" /\ batch' = batch /\ (~cut' => ~cut)
        /\ \/ pc' = "sequential"
           \/ pc' = "batchEnd" /\ (idx = Len(batch) \/ cut')
    <3>1. idx \in DOMAIN batch /\ batch \in Seq(ToolCalls)
        BY <1>16, <1>0, BatchesAssumption DEF ToolReturns, BatchInv, BatchOK, Batching
    <3>2. /\ pc = "running" /\ batch' = batch
          /\ \/ pc' = "sequential" /\ cut' = cut
             \/ pc' = "batchEnd" /\ cut' = (cut \/ idx < Len(batch))
        BY <1>16 DEF ToolReturns, NextCall
    <3>3. ~(idx < Len(batch)) => idx = Len(batch)
        BY <3>1
    <3>4. cut' = (cut \/ idx < Len(batch)) => (idx = Len(batch) \/ cut') /\ (~cut' => ~cut)
        BY <3>3, Zenon
    <3>. QED
        BY <3>2, <3>4, Zenon
  <2>2. PICK events : KeepResult(events)
    BY <1>16 DEF ToolReturns
  <2>. QED
    BY <1>0, <2>1, <2>2, WholeAfterResult
<1>17. ASSUME NEW blocked \in BOOLEAN, Preflight(blocked) PROVE WholeInv'
  <2>1. /\ UNCHANGED <<transcript, stored, unstored, cut, batch>>
        /\ pc = "preflight" /\ pc' \in {"parallel", "preflight"} /\ idx' = idx + 1
    BY <1>17 DEF Preflight, droid, tools
  <2>2. 1 - 1 = 0
    OBVIOUS
  <2>. QED
    BY <1>0, <2>1, <2>2 DEF WholeInv, StandingAt, Batching
<1>18. CASE Join
  <2>1. /\ UNCHANGED <<transcript, stored, unstored, cut, batch>>
        /\ pc = "parallel" /\ pc' \in {"finalize"} /\ idx' = 1
    BY <1>18 DEF Join, droid, tools
  <2>2. 1 - 1 = 0
    OBVIOUS
  <2>. QED
    BY <1>0, <2>1, <2>2 DEF WholeInv, StandingAt, Batching
<1>19. CASE Finalize
  <2>1. /\ pc = "finalize" /\ batch' = batch /\ UNCHANGED cut /\ KeepResult(<<>>)
        /\ pc' = "finalize" \/ (pc' = "batchEnd" /\ idx = Len(batch))
    BY <1>19 DEF Finalize
  <2>. QED
    BY <1>0, <2>1, WholeAfterResult
<1>20. CASE BatchEnd
  <2>1. /\ UNCHANGED <<transcript, stored, unstored, cut>>
        /\ pc = "batchEnd" /\ pc' \in {"idle", "step"}
    BY <1>20 DEF BatchEnd, EndRun, droid
  <2>. SUFFICES ASSUME ~cut, ~unstored PROVE Complete(transcript) /\ Complete(stored)
    BY <2>1 DEF WholeInv, StandingAt, Batching
  <2>2. /\ transcript \in Seq(Messages) /\ stored \in Seq(Messages)
        /\ batch \in Seq(ToolCalls) /\ Identified(batch)
    BY <1>0, <2>1, BatchesAssumption DEF BatchInv, BatchOK, DroidOK, Batching
  <2>3. Underway(transcript, batch, Len(batch)) /\ Underway(stored, batch, Len(batch))
    BY <1>0, <2>1 DEF WholeInv, StandingAt
  <2>. QED
    BY <2>2, <2>3, BatchCompletes
<1>21. CASE Restart
  <2>1. /\ transcript' = stored /\ UNCHANGED <<stored, unstored>> /\ pc' = "idle"
        /\ ~cut' => ~cut /\ batch = <<>>
    BY <1>21 DEF Restart
  <2>2. batch = <<>> => pc \notin Batching
    BY <1>0 DEF BatchInv
  <2>. QED
    BY <1>0, <2>1, <2>2 DEF WholeInv, StandingAt, Batching
<1>22. CASE UNCHANGED <<pc, transcript, stored, batch, idx, unstored, cut>>
    BY <1>22, <1>0 DEF WholeInv
<1>23. CASE RefuseContinuation \/ StreamStarts \/ Cancel \/ Steer \/ UNCHANGED
          vars
    BY <1>22, <1>23 DEF RefuseContinuation, droid, tools, counts, traffic,
        StreamStarts, Emit, Cancel, Steer, vars
<1>24. ASSUME NEW i \in DOMAIN tool, Acquire(i) \/ ToolEnds(i)
      PROVE  WholeInv'
    BY <1>22, <1>24 DEF Acquire, Mark, ParallelUnchanged, droid, tools, counts,
        traffic, ToolEnds, Emit
<1>. QED
    BY <1>1, <1>2, <1>3, <1>4, <1>5, <1>6, <1>7, <1>8, <1>9, <1>10, <1>11,
        <1>12, <1>13, <1>14, <1>15, <1>16, <1>17, <1>18, <1>19, <1>20, <1>21,
        <1>22, <1>23, <1>24 DEF Next, LoopStep, Answer

\* With OpenAI as the provider, no request carries a tool call without its output
\* or an output without its call: over any number of runs, continuations,
\* compactions, messages that stopped short, cancellations and restarts, as long
\* as no batch was cut short and no append was lost, if the session was complete
\* when the Droid was made and the calls of a batch have ids of their own.
THEOREM RequestsAreComplete ==
    ASSUME Wire = "openai",
           \A calls \in Batches : Identified(calls),
           \A h \in Histories : Matched(Items(Wire, h))
    PROVE  Spec => []RequestComplete
<1>1. Init => WholeInv
  <2>. SUFFICES ASSUME Init PROVE WholeInv
      OBVIOUS
  <2>1. PICK h \in Histories : transcript = h /\ stored = h
      BY DEF Init
  <2>2. Complete(h) /\ pc \notin Batching
      BY DEF Init, Complete, Batching
  <2>. QED
      BY <2>1, <2>2 DEF WholeInv, StandingAt, Batching
<1>2. IInv /\ WholeInv /\ [Next]_vars => WholeInv'
    BY WholeStep DEF IInv, TypeOK
<1>3. WholeInv => RequestComplete
    BY DEF WholeInv, StandingAt, Complete, RequestComplete, Batching
<1>. QED
    BY <1>1, <1>2, <1>3, Invariance, PTL DEF Spec

-----------------------------------------------------------------------------
(* Sends that wait.                                                         *)

\* A loop whose sends wait for a reader takes no step of its own: each is one of
\* AgentLoop's or leaves its variables alone, so that all it guarantees, the
\* theorems above, holds however slowly the events are read.
THEOREM DeliveryKeepsTheLoop == DeliverySpec => Spec
<1>1. DeliveryInit => Init
    BY DEF DeliveryInit
<1>2. ASSUME [DeliveryNext]_deliveryVars PROVE [Next]_vars
  <2>1. CASE Silent \/ Announce
    <3>. LoopStep
      BY <2>1 DEF Silent, Announce, LoopStep
    <3>. QED
      BY DEF Next
  <2>2. CASE Starting \/ AnswerSent \/ (Sent /\ StreamStarts)
    BY <2>2 DEF Starting, AnswerSent, Next
  <2>3. CASE Others \/ Reborn
    BY <2>3 DEF Others, Reborn, Next
  <2>4. CASE ReadEvent \/ UNCHANGED deliveryVars
    BY <2>4 DEF ReadEvent, deliveryVars
  <2>. QED
    BY <1>2, <2>1, <2>2, <2>3, <2>4 DEF DeliveryNext
<1>. QED
    BY <1>1, <1>2, PTL DEF DeliverySpec, Spec

\* Whoever reads the events, promptly or not, sees their brackets close.
THEOREM EventsNestWhenSendsWait == DeliverySpec => []EventsWellFormed
    BY DeliveryKeepsTheLoop, EventsNested, PTL

=============================================================================
