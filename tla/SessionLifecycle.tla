--------------------------- MODULE SessionLifecycle ---------------------------
(***************************************************************************)
(* The life of a navigation session in the TypeScript engine: the WebSocket *)
(* connections (websocket/socketServer.ts), the SessionManager's maps and   *)
(* broadcast timers (core/sessionManager.ts) and the write queue of the     *)
(* session store (services/sessionStore.ts), whose file is one map here and *)
(* is opened up in module SessionStore.                                     *)
(*                                                                          *)
(* JavaScript runs one handler at a time, so a message handler up to its    *)
(* first await, a timer tick, and a continuation after an await are one     *)
(* step each.  stopSession awaits the write queue: between its two halves   *)
(* any other handler runs.                                                  *)
(***************************************************************************)
EXTENDS Naturals, Sequences

CONSTANTS
    Conns,         \* WebSocket connections; each lives once
    NamedIds,      \* session ids that clients choose
    FalsyIds,      \* those of them that JavaScript takes for false, such as ''
    None,          \* state.sessionId = null of a connection without a session
    MayExit,       \* whether the process may die (bound of the runs)
    MaxSessions,   \* how many sessions are ever created (bound of the runs)
    MaxQueue,      \* how many store jobs wait at once (bound of the runs)
    MaxEvents      \* how many ticks, and anomalies, one session sees (bound)

ASSUME IdAssumption ==
    /\ FalsyIds \subseteq NamedIds
    /\ NamedIds \cap Nat = {}
    /\ None \notin NamedIds \cup Nat \cup Conns

ASSUME BoundAssumption ==
    /\ MaxSessions \in Nat /\ MaxQueue \in Nat /\ MaxEvents \in Nat
    /\ MayExit \in BOOLEAN

\* A session object is numbered by its creation, from 1.  uuidv4 never repeats
\* an id, so the id the server generates for an object is its number.
Objects == 1..MaxSessions
Ids == NamedIds \cup Objects
NoObject == 0

VARIABLES
    open,        \* the connections whose socket is open
    sessionId,   \* ConnectionState.sessionId of each connection
    sessions,    \* the manager's map: the object registered under each id
    listeners,   \* the connections subscribed under each id
    object,      \* the session objects created so far
    writeQueue,  \* the store's pending jobs; the first one is running
    writing,     \* the record the running job has serialised, if it has
    store,       \* the finished sessions on disk
    saved,       \* history: objects that were ever recorded
    summarised   \* history: objects whose session_stopped was sent

vars == <<open, sessionId, sessions, listeners, object, writeQueue, writing,
          store, saved, summarised>>
managerVars == <<sessions, listeners, object>>
storeVars == <<writeQueue, writing, store, saved, summarised>>

Object == [id : Ids, timer : {"running", "cleared"},
           track : 0..MaxEvents, anomalies : 0..MaxEvents]
SaveJob == [kind : {"save"}, id : Ids, object : Objects, anomalyCount : 0..MaxEvents,
            conn : Conns, silent : BOOLEAN]
DeleteJob == [kind : {"delete"}, id : Ids]
Record == [object : Objects, anomalyCount : 0..MaxEvents,
           track : 0..MaxEvents, anomalies : 0..MaxEvents]
NoRecord == [object |-> NoObject]

Created == DOMAIN object
Truthy(id) == id \notin FalsyIds \cup {None}
Running(o) == o \in Created /\ object[o].timer = "running"
SavePending(o) ==
    \E i \in DOMAIN writeQueue : writeQueue[i].kind = "save" /\ writeQueue[i].object = o

Init ==
    /\ open = Conns
    /\ sessionId = [c \in Conns |-> None]
    /\ sessions = [id \in Ids |-> NoObject]
    /\ listeners = [id \in Ids |-> {}]
    /\ object = <<>>
    /\ writeQueue = <<>>
    /\ writing = NoRecord
    /\ store = [id \in Ids |-> NoRecord]
    /\ saved = {}
    /\ summarised = {}

-----------------------------------------------------------------------------
(* start_session *)

\* The connection takes the id and subscribes to its snapshots and anomalies.
Attach(c, id) ==
    /\ sessionId' = [sessionId EXCEPT ![c] = id]
    /\ listeners' = [listeners EXCEPT ![id] = @ \cup {c}]

\* startSession finds no such id: a new object with a running broadcast timer.
StartNew(c, id) ==
    /\ c \in open
    /\ ~ Truthy(sessionId[c])
    /\ Len(object) < MaxSessions
    /\ id \in NamedIds \cup {Len(object) + 1}
    /\ sessions[id] = NoObject
    /\ object' = Append(object, [id |-> id, timer |-> "running", track |-> 0, anomalies |-> 0])
    /\ sessions' = [sessions EXCEPT ![id] = Len(object) + 1]
    /\ Attach(c, id)
    /\ UNCHANGED <<open, storeVars>>

\* startSession finds the id: the connection joins the object that is there.
StartExisting(c, id) ==
    /\ c \in open
    /\ ~ Truthy(sessionId[c])
    /\ id \in NamedIds
    /\ sessions[id] # NoObject
    /\ Attach(c, id)
    /\ UNCHANGED <<open, sessions, object, storeVars>>

-----------------------------------------------------------------------------
(* Sensor frames and the broadcast timer *)

\* An imu frame in which the engine finds an anomaly.  Frames for an id that
\* has no object are dropped.
ImuAnomaly(c) ==
    /\ c \in open
    /\ Truthy(sessionId[c])
    /\ LET o == sessions[sessionId[c]]
       IN  /\ o # NoObject
           /\ object[o].anomalies < MaxEvents
           /\ object' = [object EXCEPT ![o].anomalies = @ + 1]
    /\ UNCHANGED <<open, sessionId, sessions, listeners, storeVars>>

\* The timer's callback holds the object itself, not its id.
Tick(o) ==
    /\ Running(o)
    /\ object[o].track < MaxEvents
    /\ object' = [object EXCEPT ![o].track = @ + 1]
    /\ UNCHANGED <<open, sessionId, sessions, listeners, storeVars>>

-----------------------------------------------------------------------------
(* stop_session and close: endSession up to its await *)

\* Slip: the broadcast timer is left running while the record is saved.
StopSessionKeepsTimer(c, id, silent) ==
    LET o == sessions[id] IN
    IF o = NoObject
    THEN UNCHANGED <<object, writeQueue>>
    ELSE /\ Len(writeQueue) < MaxQueue
         /\ writeQueue' = Append(writeQueue,
                [kind |-> "save", id |-> id, object |-> o,
                 anomalyCount |-> object[o].anomalies, conn |-> c, silent |-> silent])
         /\ UNCHANGED object

\* The first half of stopSession: nothing for an unknown id; otherwise the
\* timer is cleared, the summary taken and the save queued.
StopSession(c, id, silent) ==
    LET o == sessions[id] IN
    IF o = NoObject
    THEN UNCHANGED <<object, writeQueue>>
    ELSE /\ Len(writeQueue) < MaxQueue
         /\ object' = [object EXCEPT ![o].timer = "cleared"]
         /\ writeQueue' = Append(writeQueue,
                [kind |-> "save", id |-> id, object |-> o,
                 anomalyCount |-> object[o].anomalies, conn |-> c, silent |-> silent])

\* Slip: the subscriptions are kept.
EndSessionKeepsListening(c, silent) ==
    IF Truthy(sessionId[c])
    THEN /\ sessionId' = [sessionId EXCEPT ![c] = None]
         /\ StopSession(c, sessionId[c], silent)
         /\ UNCHANGED listeners
    ELSE UNCHANGED <<sessionId, listeners, object, writeQueue>>

\* Slip: the id is not reset before the await.
EndSessionKeepsId(c, silent) ==
    IF Truthy(sessionId[c])
    THEN /\ listeners' = [listeners EXCEPT ![sessionId[c]] = @ \ {c}]
         /\ StopSession(c, sessionId[c], silent)
         /\ UNCHANGED sessionId
    ELSE UNCHANGED <<sessionId, listeners, object, writeQueue>>

EndSession(c, silent) ==
    IF Truthy(sessionId[c])
    THEN /\ listeners' = [listeners EXCEPT ![sessionId[c]] = @ \ {c}]
         /\ sessionId' = [sessionId EXCEPT ![c] = None]
         /\ StopSession(c, sessionId[c], silent)
    ELSE UNCHANGED <<sessionId, listeners, object, writeQueue>>

StopRequested(c) ==
    /\ c \in open
    /\ Truthy(sessionId[c])
    /\ EndSession(c, FALSE)
    /\ UNCHANGED <<open, sessions, writing, store, saved, summarised>>

\* Slip: a closed socket only drops its id.
ConnectionClosesOnly(c) ==
    /\ c \in open
    /\ open' = open \ {c}
    /\ sessionId' = [sessionId EXCEPT ![c] = None]
    /\ UNCHANGED <<managerVars, storeVars>>

ConnectionCloses(c) ==
    /\ c \in open
    /\ open' = open \ {c}
    /\ EndSession(c, TRUE)
    /\ UNCHANGED <<sessions, writing, store, saved, summarised>>

-----------------------------------------------------------------------------
(* The write queue *)

\* The detail holds the track and the anomalies by reference: what is written
\* is what they contain when the job serialises them.
SaveSerialises ==
    /\ writeQueue # <<>>
    /\ Head(writeQueue).kind = "save"
    /\ writing = NoRecord
    /\ LET job == Head(writeQueue)
           o == object[job.object]
       IN  writing' = [object |-> job.object, anomalyCount |-> job.anomalyCount,
                       track |-> o.track, anomalies |-> o.anomalies]
    /\ UNCHANGED <<open, sessionId, managerVars, writeQueue, store, saved, summarised>>

\* The record is on disk and stopSession resumes: it forgets whatever is
\* registered under the id, and answers unless silent or the socket is closed.
SaveCompletes ==
    /\ writing # NoRecord
    /\ LET job == Head(writeQueue)
       IN  /\ store' = [store EXCEPT ![job.id] = writing]
           /\ saved' = saved \cup {job.object}
           /\ sessions' = [sessions EXCEPT ![job.id] = NoObject]
           /\ listeners' = [listeners EXCEPT ![job.id] = {}]
           /\ summarised' = IF ~ job.silent /\ job.conn \in open
                            THEN summarised \cup {job.object} ELSE summarised
    /\ writeQueue' = Tail(writeQueue)
    /\ writing' = NoRecord
    /\ UNCHANGED <<open, sessionId, object>>

\* DELETE /api/sessions/:id queues behind the saves.
DeleteRequested(id) ==
    /\ Len(writeQueue) < MaxQueue
    /\ writeQueue' = Append(writeQueue, [kind |-> "delete", id |-> id])
    /\ UNCHANGED <<open, sessionId, managerVars, writing, store, saved, summarised>>

DeleteCompletes ==
    /\ writeQueue # <<>>
    /\ Head(writeQueue).kind = "delete"
    /\ store' = [store EXCEPT ![Head(writeQueue).id] = NoRecord]
    /\ writeQueue' = Tail(writeQueue)
    /\ UNCHANGED <<open, sessionId, managerVars, writing, saved, summarised>>

\* The process dies: a signal, or a failed save, whose rejection endSession's
\* callers do not handle.  Only the store survives; the sockets close.
ProcessExits ==
    /\ MayExit
    /\ open' = {}
    /\ sessionId' = [c \in Conns |-> None]
    /\ sessions' = [id \in Ids |-> NoObject]
    /\ listeners' = [id \in Ids |-> {}]
    /\ object' = [o \in Created |-> [object[o] EXCEPT !.timer = "cleared"]]
    /\ writeQueue' = <<>>
    /\ writing' = NoRecord
    /\ UNCHANGED <<store, saved, summarised>>

-----------------------------------------------------------------------------
Client(c) ==
    \/ \E id \in Ids : StartNew(c, id) \/ StartExisting(c, id)
    \/ ImuAnomaly(c)
    \/ StopRequested(c)
    \/ ConnectionCloses(c)

StoreStep == SaveSerialises \/ SaveCompletes \/ DeleteCompletes

Next ==
    \/ \E c \in Conns : Client(c)
    \/ \E o \in Created : Tick(o)
    \/ \E id \in Ids : DeleteRequested(id)
    \/ StoreStep
    \/ ProcessExits

Spec == Init /\ [][Next]_vars

\* Node keeps serving the file system callbacks, so a queued job that can run
\* is eventually run.
FairSpec == Spec /\ WF_vars(StoreStep)

-----------------------------------------------------------------------------
(* Properties of every use of the engine *)

\* Every map, timer and queue entry is of its kind, and the running job is the
\* save whose record has been serialised (sessionManager.ts, sessionStore.ts).
TypeOK ==
    /\ open \subseteq Conns
    /\ sessionId \in [Conns -> Ids \cup {None}]
    /\ sessions \in [Ids -> {NoObject} \cup Created]
    /\ listeners \in [Ids -> SUBSET Conns]
    /\ object \in Seq(Object) /\ Len(object) <= MaxSessions
    /\ writeQueue \in Seq(SaveJob \cup DeleteJob)
    /\ store \in [Ids -> {NoRecord} \cup Record]
    /\ saved \subseteq Created /\ summarised \subseteq Created
    /\ writing \in {NoRecord} \cup Record
    /\ writing # NoRecord =>
          /\ writeQueue # <<>>
          /\ Head(writeQueue).kind = "save"
          /\ Head(writeQueue).object = writing.object

\* A stopped session stays in the manager's map only while its save is queued
\* (stopSession clears the timer, awaits the save, then deletes the entry).
StoppedSessionsAreBeingSaved ==
    \A id \in Ids :
        sessions[id] # NoObject /\ ~ Running(sessions[id]) => SavePending(sessions[id])

\* A connection hears only the session it holds, and after it stops or closes
\* it hears none (the unsubscribe closures of ConnectionState).
ListenersBelong ==
    \A id \in Ids : \A c \in listeners[id] : Truthy(id) => sessionId[c] = id

\* A recorded track is whole: no tick is appended after it was written, though
\* the record holds the live array by reference.
TrackComplete ==
    \A id \in Ids :
        store[id] # NoRecord => store[id].track = object[store[id].object].track

-----------------------------------------------------------------------------
(* Properties of connections and sessions.  They hold when the server makes   *)
(* up the ids, and fail in different ways when clients choose them.           *)

\* While a connection holds a session id, that session is registered and its
\* broadcast timer runs (the comment on startSession: "Start (or resume
\* tracking, if already active) a session").
HeldSessionIsLive ==
    \A c \in open :
        sessionId[c] # None => Running(sessions[sessionId[c]])

\* A running session is held by an open connection (the comment on
\* attachWebSocketServer: "a session is never silently left running").
RunningSessionIsHeld ==
    \A o \in Created :
        Running(o) => \E c \in open : sessionId[c] = object[o].id

Phase(o) ==
    IF o \in saved THEN "recorded"
    ELSE IF Running(o) THEN "live"
    ELSE IF SavePending(o) THEN "ending" ELSE "lost"

\* Every session that no open connection holds is eventually recorded, unless
\* the process dies first (KeepsPromise: nothing else loses a session).
EndedSessionsAreRecorded ==
    \A o \in Objects :
        (o \in Created /\ \A c \in open : sessionId[c] # object[o].id)
            ~> (o \in Created /\ Phase(o) \in {"recorded", "lost"})

Holder(o) ==
    IF \E c \in Conns : sessionId[c] = object[o].id
    THEN CHOOSE c \in Conns : sessionId[c] = object[o].id ELSE None

\* The refinement mapping onto the promise.
Promise == INSTANCE SessionPromise WITH
    Nobody <- None,
    phase <- [o \in Created |-> Phase(o)],
    holder <- [o \in Created |-> Holder(o)],
    content <- [o \in Created |-> <<object[o].track, object[o].anomalies>>],
    disk <- {<<store[id].object, <<store[id].track, store[id].anomalies>>>> :
                id \in {i \in Ids : store[i] # NoRecord}}

\* One connection is one session, recorded once and exactly (the comment on
\* attachWebSocketServer: "One WebSocket connection == one navigation session").
KeepsPromise == Promise!PromiseSpec

=============================================================================
