------------------------------ MODULE Namespace ------------------------------
(***************************************************************************)
(* One MCP namespace of a Manager (mcp/manager.go): proxy calls that share *)
(* a lazily opened session and a cache of the server's tool list, while    *)
(* the server changes its list or drops the session, the SDK delivers      *)
(* notifications when it gets to them, and close ends it all.              *)
(*                                                                         *)
(* A tool list is known by its version.  The SDK and the server are        *)
(* modelled from how manager.go uses them: a session ends when the         *)
(* transport fails or is closed, Wait returns once it has, and requests on *)
(* an ended session fail with a connection error.                          *)
(***************************************************************************)
EXTENDS Naturals, FiniteSets

CONSTANTS
    Ops,            \* executions of the proxy tool
    Callers,        \* the ones whose action is "call"; the others only discover
    Cancellable,    \* the ones whose own context may be cancelled
    MaxSessions,    \* bound on the sessions ever opened
    MaxChanges,     \* bound on the changes of the server's tool list
    None, Closer

ASSUME OpsAssumption ==
    Callers \subseteq Ops /\ Cancellable \subseteq Ops /\ None \notin Ops /\ Closer \notin Ops
        /\ None # Closer
ASSUME BoundsAssumption == MaxSessions \in Nat /\ MaxChanges \in Nat

VARIABLES
    \* --- namespace ---
    connectMu, listMu,      \* owners of the two mutexes
    closed,                 \* ns.closed; ns.lifetime is cancelled with it
    session,                \* ns.session, 0 for nil
    tools,                  \* ns.tools, None for nil
    toolGeneration, cacheGeneration,
    \* --- one execution of the proxy ---
    pc,
    listed,                 \* loadTools has returned: the second connect of a call
    got,                    \* the session connect returned
    generation,             \* toolGeneration when the listing began
    fetched,                \* the version the server listed
    ctxDone,                \* executions whose caller's context ended
    \* --- close ---
    closing,                \* where close stands
    victim,                 \* the session it took, 0 for nil
    \* --- SDK and server ---
    opened,                 \* sessions opened so far
    alive,                  \* sessions that have not ended
    watching,               \* sessions with a goroutine in Wait
    version,                \* of the server's tool list
    notes                   \* per session, change notifications under way

locks   == <<connectMu, listMu>>
cache   == <<tools, toolGeneration, cacheGeneration>>
locals  == <<listed, got, generation, fetched>>
ending  == <<closing, victim>>
server  == <<opened, alive, watching, version, notes>>
vars    == <<locks, closed, session, cache, pc, locals, ctxDone, ending, server>>

Sessions == 1..MaxSessions
Versions == 0..MaxChanges
ToolList == [version : Versions, from : Sessions]
OpStates == {"idle", "connect", "handshake", "install", "list", "listing", "store",
             "calling", "done", "failed"}

LocksOK ==
    /\ connectMu \in Ops \cup {None, Closer}
    /\ listMu \in Ops \cup {None}
    /\ closed \in BOOLEAN
    /\ closing \in {"idle", "waiting", "ending", "done"}
    /\ victim \in Sessions \cup {0}

CacheOK ==
    /\ session \in Sessions \cup {0}
    /\ tools \in ToolList \cup {None}
    /\ toolGeneration \in Nat \ {0}
    /\ cacheGeneration \in 0..toolGeneration

OpsOK ==
    /\ pc \in [Ops -> OpStates]
    /\ listed \subseteq Ops
    /\ got \in [Ops -> Sessions \cup {0}]
    /\ generation \in [Ops -> Nat]
    /\ \A o \in Ops : generation[o] <= toolGeneration
    /\ fetched \in [Ops -> Versions]
    /\ ctxDone \subseteq Ops

ServerOK ==
    /\ opened \in Sessions \cup {0}
    /\ alive \subseteq 1..opened
    /\ watching \subseteq 1..opened
    /\ version \in Versions
    /\ notes \in [Sessions -> Nat]
    /\ \A s \in Sessions : notes[s] <= version

TypeOK == LocksOK /\ CacheOK /\ OpsOK /\ ServerOK

Init ==
    /\ connectMu = None /\ listMu = None
    /\ closed = FALSE
    /\ session = 0
    /\ tools = None
    /\ toolGeneration = 1 /\ cacheGeneration = 0
    /\ pc = [o \in Ops |-> "idle"]
    /\ listed = {}
    /\ got = [o \in Ops |-> 0]
    /\ generation = [o \in Ops |-> 0]
    /\ fetched = [o \in Ops |-> 0]
    /\ ctxDone = {}
    /\ closing = "idle" /\ victim = 0
    /\ opened = 0 /\ alive = {} /\ watching = {}
    /\ version = 0
    /\ notes = [s \in Sessions |-> 0]

-----------------------------------------------------------------------------
(* Helpers.                                                                 *)

\* Faulty variant: the operation does not derive from the namespace's lifetime.
OpCancelledByCaller(o) == o \in ctxDone

\* operationContext: an execution ends with its caller's context or with the
\* lifetime of the namespace.
OpCancelled(o) == o \in ctxDone \/ closed

CacheValid == tools # None /\ cacheGeneration = toolGeneration

Goes(o, to) == pc' = [pc EXCEPT ![o] = to]

\* connect has returned a session: to the list first, to the call after it.
Connected(o) == Goes(o, IF o \in listed THEN "calling" ELSE "list")

\* loadTools has returned: a discovery is done; a call whose tool is missing
\* fails, and otherwise asks for a session again.
Loaded(o) ==
    /\ listed' = listed \cup {o}
    /\ IF o \in Callers THEN Goes(o, "connect") \/ Goes(o, "failed")
                        ELSE Goes(o, "done")

\* Faulty variant: whatever session is installed is dropped.
InvalidateAny(s) ==
    /\ session' = 0
    /\ tools' = None
    /\ toolGeneration' = toolGeneration + 1
    /\ UNCHANGED cacheGeneration

\* invalidateSession, for a session that may have been replaced meanwhile.
Invalidate(s) ==
    IF session = s
       THEN /\ session' = 0
            /\ tools' = None
            /\ toolGeneration' = toolGeneration + 1
            /\ UNCHANGED cacheGeneration
       ELSE UNCHANGED <<session, cache>>

-----------------------------------------------------------------------------
(* connect                                                                  *)

Begin(o) ==
    /\ pc[o] = "idle"
    /\ Goes(o, "connect")
    /\ UNCHANGED <<locks, closed, session, cache, locals, ctxDone, ending, server>>

\* Faulty variant: the mutex is not kept during the handshake.
ConnectEnterBriefly(o) ==
    /\ pc[o] = "connect"
    /\ connectMu = None
    /\ IF closed
          THEN Goes(o, "failed") /\ UNCHANGED got
       ELSE IF session # 0
          THEN Connected(o) /\ got' = [got EXCEPT ![o] = session]
       ELSE Goes(o, "handshake") /\ UNCHANGED got
    /\ UNCHANGED <<locks, closed, session, cache, listed, generation, fetched,
                   ctxDone, ending, server>>

\* Under connectMu: the session there is, or the mutex kept for a handshake.
ConnectEnter(o) ==
    /\ pc[o] = "connect"
    /\ connectMu = None
    /\ IF closed
          THEN Goes(o, "failed") /\ UNCHANGED <<connectMu, got>>
       ELSE IF session # 0
          THEN Connected(o) /\ got' = [got EXCEPT ![o] = session] /\ UNCHANGED connectMu
       ELSE Goes(o, "handshake") /\ connectMu' = o /\ UNCHANGED got
    /\ UNCHANGED <<listMu, closed, session, cache, listed, generation, fetched,
                   ctxDone, ending, server>>

HandshakeFails(o) ==
    /\ pc[o] = "handshake"
    /\ Goes(o, "failed")
    /\ connectMu' = None
    /\ UNCHANGED <<listMu, closed, session, cache, locals, ctxDone, ending, server>>

HandshakeDone(o) ==
    /\ pc[o] = "handshake"
    /\ opened < MaxSessions
    /\ opened' = opened + 1
    /\ alive' = alive \cup {opened'}
    /\ got' = [got EXCEPT ![o] = opened']
    /\ Goes(o, "install")
    /\ UNCHANGED <<locks, closed, session, cache, listed, generation, fetched,
                   ctxDone, ending, watching, version, notes>>

\* Faulty variant: nobody waits for the new session to end.
InstallUnwatched(o) ==
    /\ pc[o] = "install"
    /\ connectMu' = None
    /\ IF closed
          THEN /\ Goes(o, "failed")
               /\ alive' = alive \ {got[o]}
               /\ UNCHANGED session
          ELSE /\ Connected(o)
               /\ session' = got[o]
               /\ UNCHANGED alive
    /\ UNCHANGED <<listMu, closed, cache, locals, ctxDone, ending, opened, watching,
                   version, notes>>

\* A namespace closed during the handshake closes the session it won.
Install(o) ==
    /\ pc[o] = "install"
    /\ connectMu' = None
    /\ IF closed
          THEN /\ Goes(o, "failed")
               /\ alive' = alive \ {got[o]}
               /\ UNCHANGED <<session, watching>>
          ELSE /\ Connected(o)
               /\ session' = got[o]
               /\ watching' = watching \cup {got[o]}
               /\ UNCHANGED alive
    /\ UNCHANGED <<listMu, closed, cache, locals, ctxDone, ending, opened, version, notes>>

-----------------------------------------------------------------------------
(* loadTools and call                                                       *)

\* Under listMu: the cache, or the mutex kept for a listing.
ListEnter(o) ==
    /\ pc[o] = "list"
    /\ listMu = None
    /\ IF closed
          THEN Goes(o, "failed") /\ UNCHANGED <<listMu, listed, generation>>
       ELSE IF CacheValid
          THEN Loaded(o) /\ UNCHANGED <<listMu, generation>>
       ELSE /\ Goes(o, "listing")
            /\ listMu' = o
            /\ generation' = [generation EXCEPT ![o] = toolGeneration]
            /\ UNCHANGED listed
    /\ UNCHANGED <<connectMu, closed, session, cache, got, fetched, ctxDone, ending, server>>

ListAnswers(o) ==
    /\ pc[o] = "listing"
    /\ got[o] \in alive
    /\ fetched' = [fetched EXCEPT ![o] = version]
    /\ Goes(o, "store")
    /\ UNCHANGED <<locks, closed, session, cache, listed, got, generation, ctxDone,
                   ending, server>>

\* Any error ends the listing: the context, a page that is refused, or the
\* connection, which drops the session.
ListFails(o) ==
    /\ pc[o] = "listing"
    /\ Goes(o, "failed")
    /\ listMu' = None
    /\ \/ got[o] \notin alive /\ Invalidate(got[o])
       \/ UNCHANGED <<session, cache>>
    /\ UNCHANGED <<connectMu, closed, locals, ctxDone, ending, server>>

\* Faulty variant: the list is cached under the generation of the moment.
StoreAnyway(o) ==
    /\ pc[o] = "store"
    /\ listMu' = None
    /\ tools' = [version |-> fetched[o], from |-> got[o]]
    /\ cacheGeneration' = toolGeneration
    /\ Loaded(o)
    /\ UNCHANGED <<connectMu, closed, session, toolGeneration, got, generation, fetched,
                   ctxDone, ending, server>>

\* The list is cached unless the generation moved while it was fetched.
Store(o) ==
    /\ pc[o] = "store"
    /\ listMu' = None
    /\ IF closed
          THEN Goes(o, "failed") /\ UNCHANGED <<tools, cacheGeneration, listed>>
       ELSE /\ Loaded(o)
            /\ IF toolGeneration = generation[o]
                  THEN /\ tools' = [version |-> fetched[o], from |-> got[o]]
                       /\ cacheGeneration' = generation[o]
                  ELSE UNCHANGED <<tools, cacheGeneration>>
    /\ UNCHANGED <<connectMu, closed, session, toolGeneration, got, generation, fetched,
                   ctxDone, ending, server>>

CallReturns(o) ==
    /\ pc[o] = "calling"
    /\ got[o] \in alive
    /\ Goes(o, "done")
    /\ UNCHANGED <<locks, closed, session, cache, locals, ctxDone, ending, server>>

CallFails(o) ==
    /\ pc[o] = "calling"
    /\ Goes(o, "failed")
    /\ \/ got[o] \notin alive /\ Invalidate(got[o])
       \/ UNCHANGED <<session, cache>>
    /\ UNCHANGED <<locks, closed, locals, ctxDone, ending, server>>

CallerCancels(o) ==
    /\ o \in Cancellable \ ctxDone
    /\ ctxDone' = ctxDone \cup {o}
    /\ UNCHANGED <<locks, closed, session, cache, pc, locals, ending, server>>

-----------------------------------------------------------------------------
(* close                                                                    *)

CloseMark ==
    /\ closing = "idle"
    /\ closing' = "waiting"
    /\ closed' = TRUE
    /\ UNCHANGED <<locks, session, cache, pc, locals, ctxDone, victim, server>>

\* Faulty variant: close does not wait for the handshake in progress.
CloseTakeAtOnce ==
    /\ closing = "waiting"
    /\ closing' = "ending"
    /\ victim' = session
    /\ session' = 0
    /\ tools' = None
    /\ UNCHANGED <<locks, closed, toolGeneration, cacheGeneration, pc, locals, ctxDone, server>>

\* After the handshake in progress, the session is taken.
CloseTake ==
    /\ closing = "waiting"
    /\ connectMu = None
    /\ connectMu' = Closer
    /\ closing' = "ending"
    /\ victim' = session
    /\ session' = 0
    /\ tools' = None
    /\ UNCHANGED <<listMu, closed, toolGeneration, cacheGeneration, pc, locals, ctxDone, server>>

\* session.Close returns when no request is left on the session.
CloseEnd ==
    /\ closing = "ending"
    /\ \A o \in Ops : pc[o] \in {"listing", "calling"} => got[o] # victim
    /\ closing' = "done"
    /\ alive' = alive \ {victim}
    /\ connectMu' = None
    /\ UNCHANGED <<listMu, closed, session, cache, pc, locals, ctxDone, victim,
                   opened, watching, version, notes>>

-----------------------------------------------------------------------------
(* SDK and server                                                           *)

SessionEnds(s) ==
    /\ s \in alive
    /\ alive' = alive \ {s}
    /\ UNCHANGED <<locks, closed, session, cache, pc, locals, ctxDone, ending,
                   opened, watching, version, notes>>

\* The goroutine that waits for the session to end.
WaitReturns(s) ==
    /\ s \in watching \ alive
    /\ watching' = watching \ {s}
    /\ Invalidate(s)
    /\ UNCHANGED <<locks, closed, pc, locals, ctxDone, ending, opened, alive, version, notes>>

\* The server changes its list and tells every client session.
ToolsChange ==
    /\ version < MaxChanges
    /\ version' = version + 1
    /\ notes' = [s \in Sessions |-> IF s \in alive THEN notes[s] + 1 ELSE notes[s]]
    /\ UNCHANGED <<locks, closed, session, cache, pc, locals, ctxDone, ending,
                   opened, alive, watching>>

\* ToolListChangedHandler, some time later.
ToolListChanged(s) ==
    /\ notes[s] > 0
    /\ notes' = [notes EXCEPT ![s] = @ - 1]
    /\ toolGeneration' = toolGeneration + 1
    /\ UNCHANGED <<locks, closed, session, tools, cacheGeneration, pc, locals, ctxDone,
                   ending, opened, alive, watching, version>>

-----------------------------------------------------------------------------

\* Steps an execution takes on its own.
OpStep(o) == ConnectEnter(o) \/ Install(o) \/ ListEnter(o) \/ Store(o)

\* Steps for which it needs an answer from the other side.
Answer(o) ==
    HandshakeFails(o) \/ HandshakeDone(o) \/ ListAnswers(o) \/ ListFails(o)
        \/ CallReturns(o) \/ CallFails(o)

Next ==
    \/ \E o \in Ops : Begin(o) \/ OpStep(o) \/ Answer(o) \/ CallerCancels(o)
    \/ CloseMark \/ CloseTake \/ CloseEnd
    \/ \E s \in Sessions : SessionEnds(s) \/ WaitReturns(s) \/ ToolListChanged(s)
    \/ ToolsChange

Spec == Init /\ [][Next]_vars

(***************************************************************************)
(* Fairness.  Executions that can go on do, close once called does, and    *)
(* the waiting goroutine runs when its session has ended.  Nothing is      *)
(* assumed of the server: a request ends for certain only when its own     *)
(* context is cancelled.                                                   *)
(***************************************************************************)
FairSpec ==
    /\ Spec
    /\ \A o \in Ops : WF_vars(OpStep(o)) /\ WF_vars(OpCancelled(o) /\ Answer(o))
    /\ WF_vars(CloseTake) /\ WF_vars(CloseEnd)
    /\ \A s \in Sessions : WF_vars(WaitReturns(s))

-----------------------------------------------------------------------------
(* Properties.                                                              *)

\* A cached list that is served is the server's current one, taken from the
\* session in use, unless a change notification is still under way: no
\* notification and no reconnection that came during a listing is lost.  Nothing
\* is said of a session that is dead and not yet noticed, whose list is served
\* until its WaitReturns.
CacheFresh ==
    CacheValid /\ session \in alive /\ notes[session] = 0 =>
        tools = [version |-> version, from |-> session]

\* A live session is the one installed, one a handshake has just won or the one
\* close is ending: no two requests open one each, and none is forgotten.
NoLeak ==
    \A s \in alive :
        \/ s = session
        \/ \E o \in Ops : pc[o] = "install" /\ got[o] = s
        \/ closing = "ending" /\ s = victim

\* After close no session is left or ever comes back, and no cache.
ClosedIsFinal ==
    closing = "done" => session = 0 /\ alive = {} /\ tools = None

\* A listing or a call that fails because its session ended never takes a newer,
\* healthy session down with it.
HealthySessionKept ==
    [][(session \in alive /\ session' # session) => closed]_vars

\* close returns and every execution ends, whatever the server does.
CloseReturns ==
    closed ~> closing = "done" /\ \A o \in Ops : pc[o] \in {"idle", "done", "failed"}

\* A session that ended is forgotten, so that the next use reconnects.
DeadSessionForgotten ==
    session # 0 /\ session \notin alive ~> session = 0

=============================================================================
