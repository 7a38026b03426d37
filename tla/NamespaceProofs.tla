-------------------------- MODULE NamespaceProofs --------------------------
(***************************************************************************)
(* Proofs about Namespace, for any number of executions, sessions and      *)
(* changes of the server's list.                                           *)
(*                                                                         *)
(* None of the safety properties is inductive.  IInv adds who holds the    *)
(* two mutexes (MutexInv), how far close has come (CloseInv), which        *)
(* session an execution has in its hands (HoldInv, WonInv), and that a     *)
(* listing whose generation still counts was made on the session in use    *)
(* and misses no change that is not yet notified (ListingInv).             *)
(***************************************************************************)
EXTENDS Namespace, TLAPS

-----------------------------------------------------------------------------
(* The inductive invariant.                                                 *)

\* connectMu is held through a handshake and by close, listMu through a listing.
MutexInv ==
    /\ \A o \in Ops : pc[o] \in {"handshake", "install"} <=> connectMu = o
    /\ \A o \in Ops : pc[o] \in {"listing", "store"} => listMu = o
    /\ connectMu = Closer <=> closing = "ending"

\* Once close has taken the session, no handshake is left that could bring one.
CloseInv ==
    /\ closed <=> closing # "idle"
    /\ closing \in {"ending", "done"} =>
           session = 0 /\ tools = None /\ connectMu \in {None, Closer}

\* Sessions in use were opened, and who is past connect holds one.
HoldInv ==
    /\ session <= opened
    /\ tools # None => tools.from <= opened
    /\ \A o \in Ops : got[o] <= opened
    /\ \A o \in Ops :
        pc[o] \in {"install", "list", "listing", "store", "calling"} => got[o] # 0

\* A session that was won and is not installed yet is new to everybody else, and
\* no other is installed meanwhile.
WonInv ==
    \A o \in Ops :
        /\ pc[o] \in {"handshake", "install"} => session = 0
        /\ pc[o] = "install" =>
            /\ tools # None => tools.from # got[o]
            /\ \A p \in Ops \ {o} : got[p] # got[o]

\* What a list of session s says is the server's list, or the note that it has
\* changed is still under way.
UpToDate(v, s) == s \in alive => v = version \/ notes[s] > 0

\* An answer whose generation still counts came from the session in use.
ListingInv ==
    \A o \in Ops :
        pc[o] = "store" /\ generation[o] = toolGeneration /\ ~closed =>
            session = got[o] /\ UpToDate(fetched[o], got[o])

\* So does a list that is served.
ServedInv == CacheValid => tools.from = session /\ UpToDate(tools.version, session)

IInv ==
    /\ TypeOK
    /\ MutexInv
    /\ CloseInv
    /\ HoldInv
    /\ WonInv
    /\ ListingInv
    /\ ServedInv
    /\ NoLeak

-----------------------------------------------------------------------------
(* One lemma per part of the invariant, one step per action.                *)

\* What invalidateSession may do: nothing, or forget the session and its list.
Moved ==
    \/ UNCHANGED <<session, tools, toolGeneration, cacheGeneration>>
    \/ /\ session' = 0
       /\ tools' = None
       /\ toolGeneration' = toolGeneration + 1
       /\ UNCHANGED cacheGeneration

\* invalidateSession does no more than that.
LEMMA InvalidateMoves == \A s : Invalidate(s) => Moved
    BY DEF Invalidate, Moved, cache

\* Each step keeps the types of the mutexes and of close.
LEMMA LocksStep ==
    LocksOK /\ CacheOK /\ [Next]_vars => LocksOK'
<1>. SUFFICES ASSUME LocksOK, CacheOK, [Next]_vars
             PROVE  LocksOK'
    OBVIOUS
<1>. USE OpsAssumption, BoundsAssumption DEF Sessions, Versions, LocksOK,
         CacheOK
<1>1. ASSUME NEW o \in Ops, ConnectEnter(o) PROVE LocksOK'
    BY <1>1 DEF ConnectEnter, Goes, Connected, cache, locks, locals, ending,
        server
<1>2. ASSUME NEW o \in Ops, HandshakeFails(o) PROVE LocksOK'
    BY <1>2 DEF HandshakeFails, Goes, cache, locks, locals, ending, server
<1>3. ASSUME NEW o \in Ops, Install(o) PROVE LocksOK'
    BY <1>3 DEF Install, Goes, Connected, cache, locks, locals, ending, server
<1>4. ASSUME NEW o \in Ops, ListEnter(o) PROVE LocksOK'
    BY <1>4 DEF ListEnter, Goes, Loaded, cache, locks, locals, ending, server
<1>5. ASSUME NEW o \in Ops, ListFails(o) PROVE LocksOK'
    BY <1>5 DEF ListFails, Goes, Invalidate, cache, locks, locals, ending,
        server
<1>6. ASSUME NEW o \in Ops, Store(o) PROVE LocksOK'
    BY <1>6 DEF Store, Goes, Loaded, ending, locks, cache, locals, server
<1>7. CASE CloseMark
    BY <1>7 DEF CloseMark, locks, cache, locals, ending, server
<1>8. CASE CloseTake
    BY <1>8 DEF CloseTake, locals, locks, cache, ending, server
<1>9. CASE CloseEnd
    BY <1>9 DEF CloseEnd, cache, locks, locals, ending, server
<1>10. CASE UNCHANGED <<connectMu, listMu, closed, closing, victim>>
    BY <1>10
<1>11. ASSUME NEW o \in Ops, Begin(o) \/ HandshakeDone(o) \/ ListAnswers(o) \/
            CallReturns(o) \/ CallFails(o) \/ CallerCancels(o)
      PROVE  LocksOK'
    BY <1>10, <1>11 DEF Begin, Goes, locks, cache, locals, ending, server,
        HandshakeDone, ListAnswers, CallReturns, CallFails, Invalidate,
        CallerCancels
<1>12. ASSUME NEW s \in Sessions, SessionEnds(s) \/ WaitReturns(s) \/
            ToolListChanged(s)
      PROVE  LocksOK'
    BY <1>10, <1>12 DEF SessionEnds, locks, cache, locals, ending, server,
        WaitReturns, Invalidate, ToolListChanged
<1>13. CASE ToolsChange \/ UNCHANGED vars
    BY <1>10, <1>13 DEF ToolsChange, locks, cache, locals, ending, server, vars
<1>. QED
    BY <1>1, <1>2, <1>3, <1>4, <1>5, <1>6, <1>7, <1>8, <1>9, <1>10, <1>11,
        <1>12, <1>13 DEF Next, OpStep, Answer

\* Each step keeps the types of the session and of the cache.
LEMMA CacheStep ==
    CacheOK /\ OpsOK /\ ServerOK /\ HoldInv /\ [Next]_vars => CacheOK'
<1>. SUFFICES ASSUME CacheOK, OpsOK, ServerOK, HoldInv, [Next]_vars
             PROVE  CacheOK'
    OBVIOUS
<1>. USE OpsAssumption, BoundsAssumption DEF Sessions, Versions, CacheOK,
         OpsOK, ServerOK, ToolList, HoldInv
<1>1. ASSUME NEW o \in Ops, Install(o) PROVE CacheOK'
    BY <1>1 DEF Install, Goes, Connected, cache, locks, locals, ending, server
<1>2. ASSUME NEW o \in Ops, ListFails(o) PROVE CacheOK'
  <2>1. Moved
    BY <1>2, InvalidateMoves DEF ListFails, Moved, cache
  <2>. QED
    BY <2>1, SMTT(60) DEF Moved
<1>3. ASSUME NEW o \in Ops, Store(o) PROVE CacheOK'
    BY <1>3, SMTT(60) DEF Store, Goes, Loaded, ending, locks, cache, locals, server
<1>4. ASSUME NEW o \in Ops, CallFails(o) PROVE CacheOK'
  <2>1. Moved
    BY <1>4, InvalidateMoves DEF CallFails, Moved, cache
  <2>. QED
    BY <2>1, SMTT(60) DEF Moved
<1>5. CASE CloseTake
    BY <1>5 DEF CloseTake, locals, locks, cache, ending, server
<1>6. ASSUME NEW s \in Sessions, WaitReturns(s) PROVE CacheOK'
  <2>1. Moved
    BY <1>6, InvalidateMoves DEF WaitReturns, Moved, cache
  <2>. QED
    BY <2>1 DEF Moved
<1>7. ASSUME NEW s \in Sessions, ToolListChanged(s) PROVE CacheOK'
    BY <1>7 DEF ToolListChanged, locks, cache, locals, ending, server
<1>8. CASE UNCHANGED <<session, tools, toolGeneration, cacheGeneration>>
    BY <1>8
<1>9. ASSUME NEW o \in Ops, Begin(o) \/ ConnectEnter(o) \/ HandshakeFails(o) \/
            HandshakeDone(o) \/ ListEnter(o) \/ ListAnswers(o) \/
            CallReturns(o) \/ CallerCancels(o)
      PROVE  CacheOK'
    BY <1>8, <1>9 DEF Begin, Goes, locks, cache, locals, ending, server,
        ConnectEnter, Connected, HandshakeFails, HandshakeDone, ListEnter,
        Loaded, ListAnswers, CallReturns, CallerCancels
<1>10. CASE CloseMark \/ CloseEnd \/ ToolsChange \/ UNCHANGED vars
    BY <1>8, <1>10 DEF CloseMark, locks, cache, locals, ending, server,
        CloseEnd, ToolsChange, vars
<1>11. ASSUME NEW s \in Sessions, SessionEnds(s)
      PROVE  CacheOK'
    BY <1>8, <1>11 DEF SessionEnds, locks, cache, locals, ending, server
<1>. QED
    BY <1>1, <1>2, <1>3, <1>4, <1>5, <1>6, <1>7, <1>8, <1>9, <1>10, <1>11 DEF
        Next, OpStep, Answer

\* Each step keeps the types of the executions.
LEMMA OpsStep ==
    CacheOK /\ OpsOK /\ ServerOK /\ [Next]_vars => OpsOK'
<1>. SUFFICES ASSUME CacheOK, OpsOK, ServerOK, [Next]_vars
             PROVE  OpsOK'
    OBVIOUS
<1>. USE OpsAssumption, BoundsAssumption DEF Sessions, Versions, CacheOK,
         OpsOK, ServerOK, OpStates
<1>1. ASSUME NEW o \in Ops, Begin(o) PROVE OpsOK'
    BY <1>1 DEF Begin, Goes, locks, cache, locals, ending, server
<1>2. ASSUME NEW o \in Ops, ConnectEnter(o) PROVE OpsOK'
    BY <1>2 DEF ConnectEnter, Goes, Connected, cache, locks, locals, ending,
        server
<1>3. ASSUME NEW o \in Ops, HandshakeFails(o) PROVE OpsOK'
    BY <1>3 DEF HandshakeFails, Goes, cache, locks, locals, ending, server
<1>4. ASSUME NEW o \in Ops, HandshakeDone(o) PROVE OpsOK'
    BY <1>4 DEF HandshakeDone, Goes, locks, cache, locals, ending, server
<1>5. ASSUME NEW o \in Ops, Install(o) PROVE OpsOK'
    BY <1>5 DEF Install, Goes, Connected, cache, locks, locals, ending, server
<1>6. ASSUME NEW o \in Ops, ListEnter(o) PROVE OpsOK'
  <2>1. generation' \in [Ops -> Nat] /\ \A p \in Ops : generation'[p] <= toolGeneration
    <3>1. \/ UNCHANGED generation
          \/ generation' = [generation EXCEPT ![o] = toolGeneration]
      BY <1>6 DEF ListEnter
    <3>2. toolGeneration \in Nat
      OBVIOUS
    <3>3. CASE generation' = [generation EXCEPT ![o] = toolGeneration]
      <4>1. generation' \in [Ops -> Nat]
        BY <3>2, <3>3
      <4>2. \A p \in Ops : generation'[p] = generation[p] \/ generation'[p] = toolGeneration
        BY <3>3
      <4>3. \A p \in Ops : generation[p] <= toolGeneration
        OBVIOUS
      <4>4. toolGeneration <= toolGeneration
        BY <3>2
      <4>. QED
        BY ONLY <4>1, <4>2, <4>3, <4>4
    <3>. QED
      BY <3>1, <3>3
  <2>2. pc' \in [Ops -> OpStates]
    BY <1>6 DEF ListEnter, Goes, Loaded
  <2>3. listed' \subseteq Ops
    BY <1>6 DEF ListEnter, Loaded
  <2>4. UNCHANGED <<got, fetched, ctxDone, toolGeneration>>
    BY <1>6 DEF ListEnter, cache
  <2>. QED
    BY <2>1, <2>2, <2>3, <2>4
<1>7. ASSUME NEW o \in Ops, ListAnswers(o) PROVE OpsOK'
    BY <1>7 DEF ListAnswers, Goes, locks, cache, locals, ending, server
<1>8. ASSUME NEW o \in Ops, ListFails(o) PROVE OpsOK'
    BY <1>8 DEF ListFails, Goes, Invalidate, cache, locks, locals, ending,
        server
<1>9. ASSUME NEW o \in Ops, Store(o) PROVE OpsOK'
    BY <1>9 DEF Store, Goes, Loaded, ending, locks, cache, locals, server
<1>10. ASSUME NEW o \in Ops, CallReturns(o) PROVE OpsOK'
    BY <1>10 DEF CallReturns, Goes, locks, cache, locals, ending, server
<1>11. ASSUME NEW o \in Ops, CallFails(o) PROVE OpsOK'
    BY <1>11 DEF CallFails, Goes, Invalidate, cache, locks, locals, ending,
        server
<1>12. ASSUME NEW o \in Ops, CallerCancels(o) PROVE OpsOK'
    BY <1>12 DEF CallerCancels, locks, cache, locals, ending, server
<1>13. ASSUME NEW s \in Sessions, WaitReturns(s) PROVE OpsOK'
    BY <1>13, SMTT(60) DEF WaitReturns, Invalidate, cache, locks, locals, ending, server
<1>14. ASSUME NEW s \in Sessions, ToolListChanged(s) PROVE OpsOK'
    BY <1>14 DEF ToolListChanged, locks, cache, locals, ending, server
<1>15. CASE UNCHANGED <<pc, listed, got, generation, fetched, ctxDone, toolGeneration>>
    BY <1>15
<1>16. CASE CloseMark \/ CloseTake \/ CloseEnd \/ ToolsChange \/ UNCHANGED vars
    BY <1>15, <1>16 DEF CloseMark, locks, cache, locals, ending, server,
        CloseTake, CloseEnd, ToolsChange, vars
<1>17. ASSUME NEW s \in Sessions, SessionEnds(s)
      PROVE  OpsOK'
    BY <1>15, <1>17 DEF SessionEnds, locks, cache, locals, ending, server
<1>. QED
    BY <1>1, <1>2, <1>3, <1>4, <1>5, <1>6, <1>7, <1>8, <1>9, <1>10, <1>11,
        <1>12, <1>13, <1>14, <1>15, <1>16, <1>17 DEF Next, OpStep, Answer

\* Each step keeps the types of the server, which notes no change it did not
\* make.
LEMMA ServerStep ==
    OpsOK /\ ServerOK /\ HoldInv /\ [Next]_vars => ServerOK'
<1>. SUFFICES ASSUME OpsOK, ServerOK, HoldInv, [Next]_vars
             PROVE  ServerOK'
    OBVIOUS
<1>. USE OpsAssumption, BoundsAssumption DEF Sessions, Versions, OpsOK,
         ServerOK
<1>1. ASSUME NEW o \in Ops, HandshakeDone(o) PROVE ServerOK'
    BY <1>1 DEF HandshakeDone, Goes, locks, cache, locals, ending, server
<1>2. ASSUME NEW o \in Ops, Install(o) PROVE ServerOK'
  <2>1. got[o] \in 1..opened
    BY <1>2 DEF Install, HoldInv, Sessions
  <2>2. alive' \subseteq 1..opened /\ watching' \subseteq 1..opened
    BY <1>2, <2>1 DEF Install
  <2>3. UNCHANGED <<opened, version, notes>>
    BY <1>2 DEF Install
  <2>. QED
    BY <2>2, <2>3
<1>3. CASE CloseEnd
    BY <1>3 DEF CloseEnd, cache, locks, locals, ending, server
<1>4. ASSUME NEW s \in Sessions, SessionEnds(s) PROVE ServerOK'
    BY <1>4 DEF SessionEnds, locks, cache, locals, ending, server
<1>5. ASSUME NEW s \in Sessions, WaitReturns(s) PROVE ServerOK'
    BY <1>5 DEF WaitReturns, Invalidate, cache, locks, locals, ending, server
<1>6. ASSUME NEW s \in Sessions, ToolListChanged(s) PROVE ServerOK'
    BY <1>6 DEF ToolListChanged, locks, cache, locals, ending, server
<1>7. CASE ToolsChange
    BY <1>7 DEF ToolsChange, locks, cache, locals, ending, server
<1>8. CASE UNCHANGED <<opened, alive, watching, version, notes>>
    BY <1>8
<1>9. ASSUME NEW o \in Ops, Begin(o) \/ ConnectEnter(o) \/ HandshakeFails(o) \/
            ListEnter(o) \/ ListAnswers(o) \/ ListFails(o) \/ Store(o) \/
            CallReturns(o) \/ CallFails(o) \/ CallerCancels(o)
      PROVE  ServerOK'
    BY <1>8, <1>9 DEF Begin, Goes, locks, cache, locals, ending, server,
        ConnectEnter, Connected, HandshakeFails, ListEnter, Loaded,
        ListAnswers, ListFails, Invalidate, Store, CallReturns, CallFails,
        CallerCancels
<1>10. CASE CloseMark \/ CloseTake \/ UNCHANGED vars
    BY <1>8, <1>10 DEF CloseMark, locks, cache, locals, ending, server,
        CloseTake, vars
<1>. QED
    BY <1>1, <1>2, <1>3, <1>4, <1>5, <1>6, <1>7, <1>8, <1>9, <1>10 DEF Next,
        OpStep, Answer

\* Nobody enters a handshake or a listing while another owns its mutex.
LEMMA MutexStep ==
    LocksOK /\ OpsOK /\ MutexInv /\ CloseInv /\ [Next]_vars => MutexInv'
<1>. SUFFICES ASSUME LocksOK, OpsOK, MutexInv, CloseInv, [Next]_vars
             PROVE  MutexInv'
    OBVIOUS
<1>. USE OpsAssumption, BoundsAssumption DEF LocksOK, OpsOK, OpStates,
         MutexInv, CloseInv
<1>1. ASSUME NEW o \in Ops, Begin(o) PROVE MutexInv'
    BY <1>1 DEF Begin, Goes, locks, cache, locals, ending, server
<1>2. ASSUME NEW o \in Ops, ConnectEnter(o) PROVE MutexInv'
    BY <1>2 DEF ConnectEnter, Goes, Connected, cache, locks, locals, ending,
        server
<1>3. ASSUME NEW o \in Ops, HandshakeFails(o) PROVE MutexInv'
    BY <1>3 DEF HandshakeFails, Goes, cache, locks, locals, ending, server
<1>4. ASSUME NEW o \in Ops, HandshakeDone(o) PROVE MutexInv'
    BY <1>4 DEF HandshakeDone, Goes, locks, cache, locals, ending, server
<1>5. ASSUME NEW o \in Ops, Install(o) PROVE MutexInv'
    BY <1>5 DEF Install, Goes, Connected, cache, locks, locals, ending, server
<1>6. ASSUME NEW o \in Ops, ListEnter(o) PROVE MutexInv'
    BY <1>6 DEF ListEnter, Goes, Loaded, cache, locks, locals, ending, server
<1>7. ASSUME NEW o \in Ops, ListAnswers(o) PROVE MutexInv'
    BY <1>7 DEF ListAnswers, Goes, locks, cache, locals, ending, server
<1>8. ASSUME NEW o \in Ops, ListFails(o) PROVE MutexInv'
    BY <1>8 DEF ListFails, Goes, Invalidate, cache, locks, locals, ending,
        server
<1>9. ASSUME NEW o \in Ops, Store(o) PROVE MutexInv'
    BY <1>9 DEF Store, Goes, Loaded, ending, locks, cache, locals, server
<1>10. ASSUME NEW o \in Ops, CallReturns(o) PROVE MutexInv'
    BY <1>10 DEF CallReturns, Goes, locks, cache, locals, ending, server
<1>11. ASSUME NEW o \in Ops, CallFails(o) PROVE MutexInv'
    BY <1>11 DEF CallFails, Goes, Invalidate, cache, locks, locals, ending,
        server
<1>12. CASE CloseMark
    BY <1>12 DEF CloseMark, locks, cache, locals, ending, server
<1>13. CASE CloseTake
    BY <1>13 DEF CloseTake, locals, locks, cache, ending, server
<1>14. CASE CloseEnd
    BY <1>14 DEF CloseEnd, cache, locks, locals, ending, server
<1>15. CASE UNCHANGED <<connectMu, listMu, pc, closing>>
    BY <1>15
<1>16. ASSUME NEW o \in Ops, CallerCancels(o)
      PROVE  MutexInv'
    BY <1>15, <1>16 DEF CallerCancels, locks, cache, locals, ending, server
<1>17. ASSUME NEW s \in Sessions, SessionEnds(s) \/ WaitReturns(s) \/
            ToolListChanged(s)
      PROVE  MutexInv'
    BY <1>15, <1>17 DEF SessionEnds, locks, cache, locals, ending, server,
        WaitReturns, Invalidate, ToolListChanged
<1>18. CASE ToolsChange \/ UNCHANGED vars
    BY <1>15, <1>18 DEF ToolsChange, locks, cache, locals, ending, server, vars
<1>. QED
    BY <1>1, <1>2, <1>3, <1>4, <1>5, <1>6, <1>7, <1>8, <1>9, <1>10, <1>11,
        <1>12, <1>13, <1>14, <1>15, <1>16, <1>17, <1>18 DEF Next, OpStep,
        Answer

\* Nothing is installed or cached after close has taken the session.
LEMMA CloseStep ==
    LocksOK /\ OpsOK /\ MutexInv /\ CloseInv /\ [Next]_vars => CloseInv'
<1>. SUFFICES ASSUME LocksOK, OpsOK, MutexInv, CloseInv, [Next]_vars
             PROVE  CloseInv'
    OBVIOUS
<1>. USE OpsAssumption, BoundsAssumption DEF LocksOK, OpsOK, OpStates,
         MutexInv, CloseInv
<1>1. ASSUME NEW o \in Ops, ConnectEnter(o) PROVE CloseInv'
    BY <1>1 DEF ConnectEnter, Goes, Connected, cache, locks, locals, ending,
        server
<1>2. ASSUME NEW o \in Ops, HandshakeFails(o) PROVE CloseInv'
    BY <1>2 DEF HandshakeFails, Goes, cache, locks, locals, ending, server
<1>3. ASSUME NEW o \in Ops, Install(o) PROVE CloseInv'
    BY <1>3 DEF Install, Goes, Connected, cache, locks, locals, ending, server
<1>4. ASSUME NEW o \in Ops, ListFails(o) PROVE CloseInv'
    BY <1>4 DEF ListFails, Goes, Invalidate, cache, locks, locals, ending,
        server
<1>5. ASSUME NEW o \in Ops, Store(o) PROVE CloseInv'
    BY <1>5 DEF Store, Goes, Loaded, ending, locks, cache, locals, server
<1>6. ASSUME NEW o \in Ops, CallFails(o) PROVE CloseInv'
    BY <1>6 DEF CallFails, Goes, Invalidate, cache, locks, locals, ending,
        server
<1>7. CASE CloseMark
    BY <1>7 DEF CloseMark, locks, cache, locals, ending, server
<1>8. CASE CloseTake
    BY <1>8 DEF CloseTake, locals, locks, cache, ending, server
<1>9. CASE CloseEnd
    BY <1>9 DEF CloseEnd, cache, locks, locals, ending, server
<1>10. ASSUME NEW s \in Sessions, WaitReturns(s) PROVE CloseInv'
    BY <1>10 DEF WaitReturns, Invalidate, cache, locks, locals, ending, server
<1>11. CASE UNCHANGED <<connectMu, closed, closing, session, tools>>
    BY <1>11
<1>12. ASSUME NEW o \in Ops, Begin(o) \/ HandshakeDone(o) \/ ListEnter(o) \/
            ListAnswers(o) \/ CallReturns(o) \/ CallerCancels(o)
      PROVE  CloseInv'
    BY <1>11, <1>12 DEF Begin, Goes, locks, cache, locals, ending, server,
        HandshakeDone, ListEnter, Loaded, ListAnswers, CallReturns,
        CallerCancels
<1>13. ASSUME NEW s \in Sessions, SessionEnds(s) \/ ToolListChanged(s)
      PROVE  CloseInv'
    BY <1>11, <1>13 DEF SessionEnds, locks, cache, locals, ending, server,
        ToolListChanged
<1>14. CASE ToolsChange \/ UNCHANGED vars
    BY <1>11, <1>14 DEF ToolsChange, locks, cache, locals, ending, server, vars
<1>. QED
    BY <1>1, <1>2, <1>3, <1>4, <1>5, <1>6, <1>7, <1>8, <1>9, <1>10, <1>11,
        <1>12, <1>13, <1>14 DEF Next, OpStep, Answer

\* Only opened sessions are handed out.
LEMMA HoldStep ==
    CacheOK /\ OpsOK /\ ServerOK /\ HoldInv /\ [Next]_vars => HoldInv'
<1>. SUFFICES ASSUME CacheOK, OpsOK, ServerOK, HoldInv, [Next]_vars
             PROVE  HoldInv'
    OBVIOUS
<1>. USE OpsAssumption, BoundsAssumption DEF CacheOK, OpsOK, ServerOK,
         OpStates, Sessions, ToolList, HoldInv
<1>1. ASSUME NEW o \in Ops, Begin(o) PROVE HoldInv'
    BY <1>1 DEF Begin, Goes, locks, cache, locals, ending, server
<1>2. ASSUME NEW o \in Ops, ConnectEnter(o) PROVE HoldInv'
    BY <1>2 DEF ConnectEnter, Goes, Connected, cache, locks, locals, ending,
        server
<1>3. ASSUME NEW o \in Ops, HandshakeFails(o) PROVE HoldInv'
    BY <1>3 DEF HandshakeFails, Goes, cache, locks, locals, ending, server
<1>4. ASSUME NEW o \in Ops, HandshakeDone(o) PROVE HoldInv'
    BY <1>4, SMTT(60) DEF HandshakeDone, Goes, locks, cache, locals, ending, server
<1>5. ASSUME NEW o \in Ops, Install(o) PROVE HoldInv'
    BY <1>5 DEF Install, Goes, Connected, cache, locks, locals, ending, server
<1>6. ASSUME NEW o \in Ops, ListEnter(o) PROVE HoldInv'
    BY <1>6 DEF ListEnter, Goes, Loaded, cache, locks, locals, ending, server
<1>7. ASSUME NEW o \in Ops, ListAnswers(o) PROVE HoldInv'
    BY <1>7 DEF ListAnswers, Goes, locks, cache, locals, ending, server
<1>8. ASSUME NEW o \in Ops, ListFails(o) PROVE HoldInv'
    BY <1>8 DEF ListFails, Goes, Invalidate, cache, locks, locals, ending,
        server
<1>9. ASSUME NEW o \in Ops, Store(o) PROVE HoldInv'
    BY <1>9 DEF Store, Goes, Loaded, ending, locks, cache, locals, server
<1>10. ASSUME NEW o \in Ops, CallReturns(o) PROVE HoldInv'
    BY <1>10 DEF CallReturns, Goes, locks, cache, locals, ending, server
<1>11. ASSUME NEW o \in Ops, CallFails(o) PROVE HoldInv'
    BY <1>11 DEF CallFails, Goes, Invalidate, cache, locks, locals, ending,
        server
<1>12. CASE CloseTake
    BY <1>12 DEF CloseTake, locals, locks, cache, ending, server
<1>13. ASSUME NEW s \in Sessions, WaitReturns(s) PROVE HoldInv'
    BY <1>13 DEF WaitReturns, Invalidate, cache, locks, locals, ending, server
<1>14. CASE UNCHANGED <<session, tools, got, opened, pc>>
    BY <1>14
<1>15. ASSUME NEW o \in Ops, CallerCancels(o)
      PROVE  HoldInv'
    BY <1>14, <1>15 DEF CallerCancels, locks, cache, locals, ending, server
<1>16. CASE CloseMark \/ CloseEnd \/ ToolsChange \/ UNCHANGED vars
    BY <1>14, <1>16 DEF CloseMark, locks, cache, locals, ending, server,
        CloseEnd, ToolsChange, vars
<1>17. ASSUME NEW s \in Sessions, SessionEnds(s) \/ ToolListChanged(s)
      PROVE  HoldInv'
    BY <1>14, <1>17 DEF SessionEnds, locks, cache, locals, ending, server,
        ToolListChanged
<1>. QED
    BY <1>1, <1>2, <1>3, <1>4, <1>5, <1>6, <1>7, <1>8, <1>9, <1>10, <1>11,
        <1>12, <1>13, <1>14, <1>15, <1>16, <1>17 DEF Next, OpStep, Answer

\* A handshake ends with a session nobody else has.
LEMMA WonStep ==
    CacheOK /\ OpsOK /\ ServerOK /\ MutexInv /\ CloseInv /\ HoldInv /\ WonInv
    /\ [Next]_vars => WonInv'
<1>. SUFFICES ASSUME CacheOK, OpsOK, ServerOK, MutexInv, CloseInv, HoldInv,
                     WonInv, [Next]_vars
             PROVE  WonInv'
    OBVIOUS
<1>. USE OpsAssumption, BoundsAssumption DEF OpsOK, CacheOK, ServerOK,
         Sessions, OpStates, MutexInv, CloseInv, HoldInv, WonInv
<1>1. ASSUME NEW o \in Ops, Begin(o) PROVE WonInv'
    BY <1>1 DEF Begin, Goes, locks, cache, locals, ending, server
<1>2. ASSUME NEW o \in Ops, ConnectEnter(o) PROVE WonInv'
    BY <1>2 DEF ConnectEnter, Goes, Connected, cache, locks, locals, ending,
        server
<1>3. ASSUME NEW o \in Ops, HandshakeFails(o) PROVE WonInv'
    BY <1>3 DEF HandshakeFails, Goes, cache, locks, locals, ending, server
<1>4. ASSUME NEW o \in Ops, HandshakeDone(o) PROVE WonInv'
    BY <1>4 DEF HandshakeDone, Goes, locks, cache, locals, ending, server
<1>5. ASSUME NEW o \in Ops, Install(o) PROVE WonInv'
    BY <1>5 DEF Install, Goes, Connected, cache, locks, locals, ending, server
<1>6. ASSUME NEW o \in Ops, ListEnter(o) PROVE WonInv'
    BY <1>6 DEF ListEnter, Goes, Loaded, cache, locks, locals, ending, server
<1>7. ASSUME NEW o \in Ops, ListAnswers(o) PROVE WonInv'
    BY <1>7 DEF ListAnswers, Goes, locks, cache, locals, ending, server
<1>8. ASSUME NEW o \in Ops, ListFails(o) PROVE WonInv'
    BY <1>8 DEF ListFails, Goes, Invalidate, cache, locks, locals, ending,
        server
<1>9. ASSUME NEW o \in Ops, Store(o) PROVE WonInv'
    BY <1>9 DEF Store, Goes, Loaded, ending, locks, cache, locals, server
<1>10. ASSUME NEW o \in Ops, CallReturns(o) PROVE WonInv'
    BY <1>10 DEF CallReturns, Goes, locks, cache, locals, ending, server
<1>11. ASSUME NEW o \in Ops, CallFails(o) PROVE WonInv'
    BY <1>11 DEF CallFails, Goes, Invalidate, cache, locks, locals, ending,
        server
<1>12. CASE CloseTake
    BY <1>12 DEF CloseTake, locals, locks, cache, ending, server
<1>13. ASSUME NEW s \in Sessions, WaitReturns(s) PROVE WonInv'
    BY <1>13 DEF WaitReturns, Invalidate, cache, locks, locals, ending, server
<1>14. CASE UNCHANGED <<session, tools, got, pc>>
    BY <1>14
<1>15. ASSUME NEW o \in Ops, CallerCancels(o)
      PROVE  WonInv'
    BY <1>14, <1>15 DEF CallerCancels, locks, cache, locals, ending, server
<1>16. CASE CloseMark \/ CloseEnd \/ ToolsChange \/ UNCHANGED vars
    BY <1>14, <1>16 DEF CloseMark, locks, cache, locals, ending, server,
        CloseEnd, ToolsChange, vars
<1>17. ASSUME NEW s \in Sessions, SessionEnds(s) \/ ToolListChanged(s)
      PROVE  WonInv'
    BY <1>14, <1>17 DEF SessionEnds, locks, cache, locals, ending, server,
        ToolListChanged
<1>. QED
    BY <1>1, <1>2, <1>3, <1>4, <1>5, <1>6, <1>7, <1>8, <1>9, <1>10, <1>11,
        <1>12, <1>13, <1>14, <1>15, <1>16, <1>17 DEF Next, OpStep, Answer

\* A session comes to life in a handshake and is let go only when it has ended
\* or close ends it.
LEMMA LeakStep ==
    LocksOK /\ OpsOK /\ ServerOK /\ MutexInv /\ CloseInv /\ HoldInv /\ WonInv
    /\ NoLeak /\ [Next]_vars => NoLeak'
<1>. SUFFICES ASSUME LocksOK, OpsOK, ServerOK, MutexInv, CloseInv, HoldInv,
                     WonInv, NoLeak, [Next]_vars
             PROVE  NoLeak'
    OBVIOUS
<1>. USE OpsAssumption, BoundsAssumption DEF LocksOK, OpsOK, ServerOK,
         OpStates, MutexInv, CloseInv, HoldInv, WonInv, NoLeak
<1>1. ASSUME NEW o \in Ops, Begin(o) PROVE NoLeak'
    BY <1>1 DEF Begin, Goes, locks, cache, locals, ending, server
<1>2. ASSUME NEW o \in Ops, ConnectEnter(o) PROVE NoLeak'
    BY <1>2 DEF ConnectEnter, Goes, Connected, cache, locks, locals, ending,
        server
<1>3. ASSUME NEW o \in Ops, HandshakeFails(o) PROVE NoLeak'
    BY <1>3 DEF HandshakeFails, Goes, cache, locks, locals, ending, server
<1>4. ASSUME NEW o \in Ops, HandshakeDone(o) PROVE NoLeak'
    BY <1>4 DEF HandshakeDone, Goes, locks, cache, locals, ending, server
<1>5. ASSUME NEW o \in Ops, Install(o) PROVE NoLeak'
  <2>1. \A s \in alive : s = got[o]
    <3>1. session = 0 /\ 0 \notin alive
      BY <1>5 DEF Install
    <3>2. \A p \in Ops : pc[p] = "install" => p = o
      BY <1>5 DEF Install
    <3>3. closing # "ending"
      BY <1>5 DEF Install
    <3>. QED
      BY <3>1, <3>2, <3>3
  <2>2. CASE closed
    <3>1. alive' = {}
      BY <1>5, <2>1, <2>2 DEF Install
    <3>. QED
      BY <3>1
  <2>3. CASE ~closed
    BY <1>5, <2>1, <2>3 DEF Install
  <2>. QED
    BY <2>2, <2>3
<1>6. ASSUME NEW o \in Ops, ListEnter(o) PROVE NoLeak'
    BY <1>6 DEF ListEnter, Goes, Loaded, cache, locks, locals, ending, server
<1>7. ASSUME NEW o \in Ops, ListAnswers(o) PROVE NoLeak'
    BY <1>7 DEF ListAnswers, Goes, locks, cache, locals, ending, server
<1>8. ASSUME NEW o \in Ops, ListFails(o) PROVE NoLeak'
    BY <1>8 DEF ListFails, Goes, Invalidate, cache, locks, locals, ending,
        server
<1>9. ASSUME NEW o \in Ops, Store(o) PROVE NoLeak'
    BY <1>9 DEF Store, Goes, Loaded, ending, locks, cache, locals, server
<1>10. ASSUME NEW o \in Ops, CallReturns(o) PROVE NoLeak'
    BY <1>10 DEF CallReturns, Goes, locks, cache, locals, ending, server
<1>11. ASSUME NEW o \in Ops, CallFails(o) PROVE NoLeak'
    BY <1>11 DEF CallFails, Goes, Invalidate, cache, locks, locals, ending,
        server
<1>12. CASE CloseMark
    BY <1>12 DEF CloseMark, locks, cache, locals, ending, server
<1>13. CASE CloseTake
    BY <1>13 DEF CloseTake, locals, locks, cache, ending, server
<1>14. CASE CloseEnd
    BY <1>14 DEF CloseEnd, cache, locks, locals, ending, server
<1>15. ASSUME NEW s \in Sessions, SessionEnds(s) PROVE NoLeak'
    BY <1>15 DEF SessionEnds, locks, cache, locals, ending, server
<1>16. ASSUME NEW s \in Sessions, WaitReturns(s) PROVE NoLeak'
    BY <1>16 DEF WaitReturns, Invalidate, cache, locks, locals, ending, server
<1>17. CASE UNCHANGED <<alive, session, pc, got, closing, victim>>
    BY <1>17
<1>18. ASSUME NEW o \in Ops, CallerCancels(o)
      PROVE  NoLeak'
    BY <1>17, <1>18 DEF CallerCancels, locks, cache, locals, ending, server
<1>19. ASSUME NEW s \in Sessions, ToolListChanged(s)
      PROVE  NoLeak'
    BY <1>17, <1>19 DEF ToolListChanged, locks, cache, locals, ending, server
<1>20. CASE ToolsChange \/ UNCHANGED vars
    BY <1>17, <1>20 DEF ToolsChange, locks, cache, locals, ending, server, vars
<1>. QED
    BY <1>1, <1>2, <1>3, <1>4, <1>5, <1>6, <1>7, <1>8, <1>9, <1>10, <1>11,
        <1>12, <1>13, <1>14, <1>15, <1>16, <1>17, <1>18, <1>19, <1>20 DEF Next,
        OpStep, Answer

\* A listing is overtaken by no change of session and by no notification
\* without its generation ceasing to count.
LEMMA ListingStep ==
    CacheOK /\ OpsOK /\ ServerOK /\ MutexInv /\ CloseInv /\ HoldInv /\ WonInv
    /\ NoLeak /\ ListingInv /\ [Next]_vars => ListingInv'
<1>. SUFFICES ASSUME CacheOK, OpsOK, ServerOK, MutexInv, CloseInv, HoldInv,
                     WonInv, NoLeak, ListingInv, [Next]_vars
             PROVE  ListingInv'
    OBVIOUS
<1>. USE OpsAssumption, BoundsAssumption DEF CacheOK, OpsOK, ServerOK,
         OpStates, Sessions, MutexInv, CloseInv, HoldInv, WonInv, NoLeak,
         ListingInv, UpToDate
<1>1. ASSUME NEW o \in Ops, Begin(o) PROVE ListingInv'
    BY <1>1 DEF Begin, Goes, locks, cache, locals, ending, server
<1>2. ASSUME NEW o \in Ops, ConnectEnter(o) PROVE ListingInv'
    BY <1>2 DEF ConnectEnter, Goes, Connected, cache, locks, locals, ending,
        server
<1>3. ASSUME NEW o \in Ops, HandshakeFails(o) PROVE ListingInv'
    BY <1>3 DEF HandshakeFails, Goes, cache, locks, locals, ending, server
<1>4. ASSUME NEW o \in Ops, HandshakeDone(o) PROVE ListingInv'
    BY <1>4 DEF HandshakeDone, Goes, locks, cache, locals, ending, server
<1>5. ASSUME NEW o \in Ops, Install(o) PROVE ListingInv'
    BY <1>5 DEF Install, Goes, Connected, cache, locks, locals, ending, server
<1>6. ASSUME NEW o \in Ops, ListEnter(o) PROVE ListingInv'
    BY <1>6 DEF ListEnter, Goes, Loaded, cache, locks, locals, ending, server
<1>7. ASSUME NEW o \in Ops, ListAnswers(o) PROVE ListingInv'
    BY <1>7 DEF ListAnswers, Goes, locks, cache, locals, ending, server
<1>8. ASSUME NEW o \in Ops, ListFails(o) PROVE ListingInv'
    BY <1>8 DEF ListFails, Goes, Invalidate, cache, locks, locals, ending,
        server
<1>9. ASSUME NEW o \in Ops, Store(o) PROVE ListingInv'
    BY <1>9 DEF Store, Goes, Loaded, ending, locks, cache, locals, server
<1>10. ASSUME NEW o \in Ops, CallReturns(o) PROVE ListingInv'
    BY <1>10 DEF CallReturns, Goes, locks, cache, locals, ending, server
<1>11. ASSUME NEW o \in Ops, CallFails(o) PROVE ListingInv'
    BY <1>11 DEF CallFails, Goes, Invalidate, cache, locks, locals, ending,
        server
<1>12. CASE CloseMark
    BY <1>12 DEF CloseMark, locks, cache, locals, ending, server
<1>13. CASE CloseTake
    BY <1>13 DEF CloseTake, locals, locks, cache, ending, server
<1>14. CASE CloseEnd
    BY <1>14 DEF CloseEnd, cache, locks, locals, ending, server
<1>15. ASSUME NEW s \in Sessions, SessionEnds(s) PROVE ListingInv'
    BY <1>15 DEF SessionEnds, locks, cache, locals, ending, server
<1>16. ASSUME NEW s \in Sessions, WaitReturns(s) PROVE ListingInv'
    BY <1>16 DEF WaitReturns, Invalidate, cache, locks, locals, ending, server
<1>17. ASSUME NEW s \in Sessions, ToolListChanged(s) PROVE ListingInv'
    BY <1>17 DEF ToolListChanged, locks, cache, locals, ending, server
<1>18. CASE ToolsChange
    BY <1>18 DEF ToolsChange, locks, cache, locals, ending, server
<1>19. CASE UNCHANGED <<pc, generation, toolGeneration, closed, session, got, fetched, alive, version, notes>>
    BY <1>19
<1>20. ASSUME NEW o \in Ops, CallerCancels(o)
      PROVE  ListingInv'
    BY <1>19, <1>20 DEF CallerCancels, locks, cache, locals, ending, server
<1>21. CASE UNCHANGED vars
    BY <1>19, <1>21 DEF vars, locks, cache, locals, ending, server
<1>. QED
    BY <1>1, <1>2, <1>3, <1>4, <1>5, <1>6, <1>7, <1>8, <1>9, <1>10, <1>11,
        <1>12, <1>13, <1>14, <1>15, <1>16, <1>17, <1>18, <1>19, <1>20, <1>21
        DEF Next, OpStep, Answer

\* What is cached stays what the session in use would list.
LEMMA ServedStep ==
    CacheOK /\ OpsOK /\ ServerOK /\ CloseInv /\ HoldInv /\ WonInv /\ ListingInv
    /\ ServedInv /\ [Next]_vars => ServedInv'
<1>. SUFFICES ASSUME CacheOK, OpsOK, ServerOK, CloseInv, HoldInv, WonInv,
                     ListingInv, ServedInv, [Next]_vars
             PROVE  ServedInv'
    OBVIOUS
<1>. USE OpsAssumption, BoundsAssumption DEF CacheOK, OpsOK, ServerOK,
         Sessions, ToolList, CloseInv, HoldInv, WonInv, ListingInv, ServedInv,
         UpToDate, CacheValid
<1>1. ASSUME NEW o \in Ops, HandshakeDone(o) PROVE ServedInv'
    BY <1>1 DEF HandshakeDone, Goes, locks, cache, locals, ending, server
<1>2. ASSUME NEW o \in Ops, Install(o) PROVE ServedInv'
    BY <1>2 DEF Install, Goes, Connected, cache, locks, locals, ending, server
<1>3. ASSUME NEW o \in Ops, ListFails(o) PROVE ServedInv'
    BY <1>3 DEF ListFails, Goes, Invalidate, cache, locks, locals, ending,
        server
<1>4. ASSUME NEW o \in Ops, Store(o) PROVE ServedInv'
    BY <1>4 DEF Store, Goes, Loaded, ending, locks, cache, locals, server
<1>5. ASSUME NEW o \in Ops, CallFails(o) PROVE ServedInv'
    BY <1>5 DEF CallFails, Goes, Invalidate, cache, locks, locals, ending,
        server
<1>6. CASE CloseTake
    BY <1>6 DEF CloseTake, locals, locks, cache, ending, server
<1>7. CASE CloseEnd
    BY <1>7 DEF CloseEnd, cache, locks, locals, ending, server
<1>8. ASSUME NEW s \in Sessions, SessionEnds(s) PROVE ServedInv'
    BY <1>8 DEF SessionEnds, locks, cache, locals, ending, server
<1>9. ASSUME NEW s \in Sessions, WaitReturns(s) PROVE ServedInv'
    BY <1>9 DEF WaitReturns, Invalidate, cache, locks, locals, ending, server
<1>10. ASSUME NEW s \in Sessions, ToolListChanged(s) PROVE ServedInv'
    BY <1>10 DEF ToolListChanged, locks, cache, locals, ending, server
<1>11. CASE ToolsChange
    BY <1>11 DEF ToolsChange, locks, cache, locals, ending, server
<1>12. CASE UNCHANGED <<tools, toolGeneration, cacheGeneration, session, alive, version, notes>>
    BY <1>12
<1>13. ASSUME NEW o \in Ops, Begin(o) \/ ConnectEnter(o) \/ HandshakeFails(o)
            \/ ListEnter(o) \/ ListAnswers(o) \/ CallReturns(o) \/
            CallerCancels(o)
      PROVE  ServedInv'
    BY <1>12, <1>13 DEF Begin, Goes, locks, cache, locals, ending, server,
        ConnectEnter, Connected, HandshakeFails, ListEnter, Loaded,
        ListAnswers, CallReturns, CallerCancels
<1>14. CASE CloseMark \/ UNCHANGED vars
    BY <1>12, <1>14 DEF CloseMark, locks, cache, locals, ending, server, vars
<1>. QED
    BY <1>1, <1>2, <1>3, <1>4, <1>5, <1>6, <1>7, <1>8, <1>9, <1>10, <1>11,
        <1>12, <1>13, <1>14 DEF Next, OpStep, Answer

-----------------------------------------------------------------------------
(* The invariant and the properties it carries.                             *)

\* A new namespace satisfies the invariant.
LEMMA Initially == Init => IInv
<1>. SUFFICES ASSUME Init PROVE IInv
    OBVIOUS
<1>. USE OpsAssumption, BoundsAssumption DEF Init
<1>1. TypeOK
  <2>1. LocksOK
    BY DEF LocksOK, Sessions
  <2>4. CacheOK
    BY DEF CacheOK
  <2>2. OpsOK
    BY DEF OpsOK, OpStates, Sessions, Versions
  <2>3. ServerOK
    BY DEF ServerOK, Sessions, Versions
  <2>. QED
    BY <2>1, <2>2, <2>3, <2>4 DEF TypeOK
<1>2. MutexInv /\ CloseInv /\ HoldInv /\ WonInv
    BY DEF MutexInv, CloseInv, HoldInv, WonInv
<1>3. ListingInv /\ ServedInv /\ NoLeak
    BY DEF ListingInv, ServedInv, NoLeak, CacheValid
<1>. QED
    BY <1>1, <1>2, <1>3 DEF IInv

\* Every step keeps it.
LEMMA Inductive == IInv /\ [Next]_vars => IInv'
<1>. SUFFICES ASSUME IInv, [Next]_vars PROVE IInv'
    OBVIOUS
<1>1. TypeOK' /\ MutexInv' /\ CloseInv' /\ HoldInv'
    BY LocksStep, CacheStep, OpsStep, ServerStep, MutexStep, CloseStep, HoldStep
       DEF IInv, TypeOK
<1>2. WonInv' /\ NoLeak' /\ ListingInv' /\ ServedInv'
    BY WonStep, LeakStep, ListingStep, ServedStep DEF IInv, TypeOK
<1>. QED
    BY <1>1, <1>2 DEF IInv

\* Every reachable state of a namespace satisfies the inductive invariant.
THEOREM Invariance == Spec => []IInv
    BY Initially, Inductive, PTL DEF Spec

\* The namespace, its executions and the server keep their types.
THEOREM TypeCorrect == Spec => []TypeOK
<1>1. IInv => TypeOK
    BY DEF IInv
<1>. QED
    BY <1>1, Invariance, PTL

\* However calls of loadTools, notifications and reconnections interleave, a
\* list that is served is the current one of the session in use, unless the
\* note of a change is still under way or that session is no longer alive.
THEOREM CacheIsFresh == Spec => []CacheFresh
<1>1. IInv => CacheFresh
  <2>. SUFFICES ASSUME IInv, CacheValid, session \in alive, notes[session] = 0
                PROVE  tools = [version |-> version, from |-> session]
      BY DEF CacheFresh
  <2>1. tools \in ToolList
      BY DEF IInv, TypeOK, CacheOK, CacheValid
  <2>2. tools.from = session /\ tools.version = version
      BY DEF IInv, ServedInv, UpToDate
  <2>. QED
      BY <2>1, <2>2 DEF ToolList
<1>. QED
    BY <1>1, Invariance, PTL

\* Every live session is the one in use, one just won or the one close is
\* ending.
THEOREM NothingLeaks == Spec => []NoLeak
<1>1. IInv => NoLeak
    BY DEF IInv
<1>. QED
    BY <1>1, Invariance, PTL

\* After close no session lives, none is installed and nothing is cached.
THEOREM CloseIsFinal == Spec => []ClosedIsFinal
<1>1. IInv => ClosedIsFinal
  <2>. SUFFICES ASSUME IInv, closing = "done"
                PROVE  session = 0 /\ alive = {} /\ tools = None
      BY DEF ClosedIsFinal
  <2>1. session = 0 /\ tools = None /\ connectMu \in {None, Closer}
      BY DEF IInv, CloseInv
  <2>2. \A o \in Ops : pc[o] # "install"
      BY <2>1, OpsAssumption DEF IInv, MutexInv
  <2>3. \A s \in alive : s # 0
      BY DEF IInv, TypeOK, ServerOK, LocksOK, CacheOK, Sessions
  <2>. QED
      BY <2>1, <2>2, <2>3 DEF IInv, NoLeak
<1>. QED
    BY <1>1, Invariance, PTL

\* What HealthySessionKept says of one step.
SessionKept == (session \in alive /\ session' # session) => closed

\* A step parts with a live session only once close has begun.
LEMMA KeptStep == IInv /\ [Next]_vars => SessionKept
<1>. SUFFICES ASSUME IInv, [Next]_vars, session \in alive, session' # session
              PROVE  closed
    BY DEF SessionKept
<1>1. session # 0
    BY DEF IInv, TypeOK, ServerOK, LocksOK, CacheOK, Sessions
<1>2. ASSUME NEW o \in Ops, Install(o) PROVE closed
    BY <1>1, <1>2 DEF Install, IInv, WonInv
<1>3. ASSUME NEW o \in Ops, ListFails(o) \/ CallFails(o) PROVE closed
    BY <1>3 DEF ListFails, CallFails, Invalidate
<1>4. ASSUME NEW s \in Sessions, WaitReturns(s) PROVE closed
    BY <1>4 DEF WaitReturns, Invalidate
<1>5. CASE CloseTake
    BY <1>5 DEF CloseTake, IInv, CloseInv
<1>6. CASE UNCHANGED session
    BY <1>6
<1>7. ASSUME NEW o \in Ops,
             Begin(o) \/ ConnectEnter(o) \/ HandshakeFails(o) \/ HandshakeDone(o)
             \/ ListEnter(o) \/ ListAnswers(o) \/ Store(o) \/ CallReturns(o)
             \/ CallerCancels(o)
      PROVE  closed
    BY <1>6, <1>7 DEF Begin, ConnectEnter, HandshakeFails, HandshakeDone, ListEnter,
        ListAnswers, Store, CallReturns, CallerCancels
<1>8. ASSUME NEW s \in Sessions, SessionEnds(s) \/ ToolListChanged(s) PROVE closed
    BY <1>6, <1>8 DEF SessionEnds, ToolListChanged
<1>9. CASE CloseMark \/ CloseEnd \/ ToolsChange \/ UNCHANGED vars
    BY <1>6, <1>9 DEF CloseMark, CloseEnd, ToolsChange, vars
<1>. QED
    BY <1>2, <1>3, <1>4, <1>5, <1>6, <1>7, <1>8, <1>9 DEF Next, OpStep, Answer

\* A failing listing or call, and the goroutine that waits for a session, drop
\* that session only: a live one in use is given up by close alone.
THEOREM HealthySessionsStay == Spec => HealthySessionKept
<1>1. IInv /\ [Next]_vars => [SessionKept]_vars
    BY KeptStep
<1>2. Spec => [][SessionKept]_vars
    BY <1>1, Invariance, PTL DEF Spec
<1>. QED
    BY <1>2 DEF HealthySessionKept, SessionKept

=============================================================================
