------------------------------ MODULE Telemetry ------------------------------
(***************************************************************************)
(* The way of a telemetry frame from the phone to the dashboards.  The       *)
(* client (frontend/lib/core/platform/network/backend_telemetry_client.dart) *)
(* is one object that both screens use: each starts a drive session when it  *)
(* opens, sends a frame every second and stops the session when it closes,   *)
(* and none of these calls waits for another.  Every call is one element of  *)
(* Calls.  It waits for an answer for a few seconds; the request may reach   *)
(* the server all the same, later.  The server (backend/app/services/        *)
(* {session,telemetry}_service.py, api/v1/{session,telemetry}.py) commits a   *)
(* record and only then hands it to the hub.  A session has the name of the  *)
(* call that started it.  What the screens show of the client (syncState,     *)
(* lastError) and its token, which it has whenever it has a session, are     *)
(* left out.                                                                 *)
(***************************************************************************)
EXTENDS TelemetryHub

CONSTANT None  \* no session

ASSUME TelemetryAssumption == None \notin Calls

VARIABLES
    session,  \* the client's _sessionId
    sends,    \* the calls of sendTelemetry
    at,       \* where each call of the client is
    target,   \* the session in each call's request
    counted,  \* the frames in the client's recordsSent
    wire,     \* what has become of each call's request
    drive,    \* the drive sessions of the database
    record    \* the session each stored frame is recorded in

clientVars == <<session, sends, at, target, counted>>
serverVars == <<drive, record>>
vars == <<hubVars, clientVars, wire, serverVars>>

Init ==
    /\ HubInit
    /\ session = None
    /\ sends = {}
    /\ at = [c \in Calls |-> "idle"]
    /\ target = [c \in Calls |-> None]
    /\ counted = {}
    /\ wire = [c \in Calls |-> "none"]
    /\ drive = [c \in Calls |-> "none"]
    /\ record = [c \in Calls |-> None]

Go(c, place) == at' = [at EXCEPT ![c] = place]
OnWire(c, what) == wire' = [wire EXCEPT ![c] = what]

\* The server answers; the client may have stopped waiting.
Answers(c, status) == OnWire(c, IF at[c] = "done" THEN "none" ELSE status)
Answered(c) == wire[c] \in {"ok", "failed"}

\* The client is done with a call; an answer that came is read.
End(c) ==
    /\ Go(c, "done")
    /\ OnWire(c, IF Answered(c) THEN "none" ELSE wire[c])

-----------------------------------------------------------------------------
(* The client *)

\* A screen opens.
Initialize(c) ==
    /\ at[c] = "idle"
    /\ Go(c, "registering")
    /\ UNCHANGED <<hubVars, session, sends, target, counted, wire, serverVars>>

\* The device is registered: ask for a session.
Registered(c) ==
    /\ at[c] = "registering"
    /\ Go(c, "starting")
    /\ OnWire(c, "start")
    /\ UNCHANGED <<hubVars, session, sends, target, counted, serverVars>>

RegistrationFails(c) ==
    /\ at[c] = "registering"
    /\ Go(c, "done")
    /\ UNCHANGED <<hubVars, session, sends, target, counted, wire, serverVars>>

\* The new session replaces the one the client had.
SessionStarted(c) ==
    /\ at[c] = "starting" /\ wire[c] = "ok"
    /\ session' = c
    /\ Go(c, IF c \in sends THEN "ready" ELSE "done")
    /\ OnWire(c, "none")
    /\ UNCHANGED <<hubVars, sends, target, counted, serverVars>>

\* A frame; without a session the client asks for one first.
SendTelemetry(c) ==
    /\ at[c] = "idle"
    /\ sends' = sends \cup {c}
    /\ Go(c, IF session = None THEN "registering" ELSE "ready")
    /\ UNCHANGED <<hubVars, session, target, counted, wire, serverVars>>

\* It is posted to the session the client has by now.
Post(c) ==
    /\ at[c] = "ready"
    /\ target' = [target EXCEPT ![c] = session]
    /\ Go(c, "posting")
    /\ OnWire(c, "post")
    /\ UNCHANGED <<hubVars, session, sends, counted, serverVars>>

\* Slip: a frame is counted whatever the status of the answer.
CountAnswered(c) ==
    /\ at[c] = "posting" /\ Answered(c)
    /\ counted' = counted \cup {c}
    /\ End(c)
    /\ UNCHANGED <<hubVars, session, sends, target, serverVars>>

\* 201
Count(c) ==
    /\ at[c] = "posting" /\ wire[c] = "ok"
    /\ counted' = counted \cup {c}
    /\ End(c)
    /\ UNCHANGED <<hubVars, session, sends, target, serverVars>>

\* Another status, an exception or a timeout: the frame is dropped.  What is on
\* its way to the server stays there.
GiveUp(c) ==
    /\ at[c] \in {"starting", "posting", "stopping"}
    /\ End(c)
    /\ UNCHANGED <<hubVars, session, sends, target, counted, serverVars>>

\* A screen closes.  The client keeps the session it stops.
StopSession(c) ==
    /\ at[c] = "idle" /\ session # None
    /\ target' = [target EXCEPT ![c] = session]
    /\ Go(c, "stopping")
    /\ OnWire(c, "stop")
    /\ UNCHANGED <<hubVars, session, sends, counted, serverVars>>

Client(c) ==
    \/ Initialize(c) \/ Registered(c) \/ RegistrationFails(c) \/ SessionStarted(c)
    \/ SendTelemetry(c) \/ Post(c) \/ Count(c) \/ GiveUp(c) \/ StopSession(c)

-----------------------------------------------------------------------------
(* The server *)

\* Slip: the session is answered and never committed.
CreateUncommitted(c) ==
    /\ wire[c] = "start"
    /\ Answers(c, "ok")
    /\ UNCHANGED <<hubVars, clientVars, serverVars>>

CreateSession(c) ==
    /\ wire[c] = "start"
    /\ drive' = [drive EXCEPT ![c] = "active"]
    /\ Answers(c, "ok")
    /\ UNCHANGED <<hubVars, clientVars, record>>

\* stop_session asks for no status.
StopDrive(c) ==
    /\ wire[c] = "stop" /\ drive[target[c]] # "none"
    /\ drive' = [drive EXCEPT ![target[c]] = "stopped"]
    /\ Answers(c, "ok")
    /\ UNCHANGED <<hubVars, clientVars, record>>

\* Slip: the event goes out before the commit.
PublishFirst(c) ==
    /\ wire[c] = "post" /\ drive[target[c]] # "none"
    /\ OnWire(c, "stored")
    /\ UNCHANGED <<hubVars, clientVars, drive, record>>

\* The record of a known session, active or not, is committed.
Insert(c) ==
    /\ wire[c] = "post" /\ drive[target[c]] # "none"
    /\ record' = [record EXCEPT ![c] = target[c]]
    /\ OnWire(c, "stored")
    /\ UNCHANGED <<hubVars, clientVars, drive>>

\* The request is lost, its session is unknown, or the database fails: before
\* the commit, or in the refresh after it.
RequestFails(c) ==
    /\ wire[c] \in {"start", "stop", "post", "stored"}
    /\ Answers(c, "failed")
    /\ UNCHANGED <<hubVars, clientVars, serverVars>>

\* Slip: an event given to Redis is broadcast here as well.
PublishTwice(c) ==
    /\ wire[c] = "stored" /\ transport = "redis"
    /\ Published(c)
    /\ Begun(c, c)
    /\ OnWire(c, "casting")
    /\ UNCHANGED <<transport, redisUp, subscribed, subscriber, sockets, connections,
                   received, clientVars, serverVars>>

Publish(c) ==
    /\ wire[c] = "stored" /\ transport = "redis"
    /\ Published(c)
    /\ Answers(c, "ok")
    /\ UNCHANGED <<transport, redisUp, subscribed, subscriber, sockets, connections, cast,
                   received, clientVars, serverVars>>

\* Without Redis the handler broadcasts, and answers when that is over.
Broadcast(c) ==
    /\ wire[c] = "stored" /\ transport = "local"
    /\ Begun(c, c)
    /\ OnWire(c, "casting")
    /\ UNCHANGED <<transport, redisUp, subscribed, inbox, subscriber, sockets, connections,
                   received, clientVars, serverVars>>

Answer(c) ==
    /\ \/ Finished(c) /\ Answers(c, "ok")
       \/ Aborted(c) /\ Answers(c, "failed")
    /\ UNCHANGED <<transport, redisUp, subscribed, inbox, subscriber, sockets, received,
                   clientVars, serverVars>>

Server(c) ==
    \/ CreateSession(c) \/ StopDrive(c) \/ Insert(c) \/ RequestFails(c)
    \/ Publish(c) \/ Broadcast(c) \/ Answer(c)

-----------------------------------------------------------------------------
Hub == HubNext /\ UNCHANGED <<clientVars, wire, serverVars>>

Next ==
    \/ \E c \in Calls : Client(c) \/ Server(c)
    \/ Hub

Spec == Init /\ [][Next]_vars

-----------------------------------------------------------------------------
Places == {"idle", "registering", "starting", "ready", "posting", "stopping", "done"}
Fates == {"none", "start", "stop", "post", "stored", "casting", "ok", "failed"}

\* The state is well formed; in particular every request that names a session
\* names one that the database has.
TypeOK ==
    /\ HubTypeOK
    /\ session \in Calls \cup {None}
    /\ sends \subseteq Calls /\ counted \subseteq Calls
    /\ at \in [Calls -> Places] /\ wire \in [Calls -> Fates]
    /\ target \in [Calls -> {None} \cup {s \in Calls : drive[s] # "none"}]
    /\ drive \in [Calls -> {"none", "active", "stopped"}]
    /\ record \in [Calls -> Calls \cup {None}]

Stored == {c \in Calls : record[c] # None}

\* recordsSent counts frames that are stored, each in the session it was posted
\* to, whatever timeouts and failures the client saw of others.
CountedAreStored == \A c \in counted : c \in Stored /\ record[c] = target[c]

\* A dashboard shows nothing that the database does not have: the database is
\* the authority ("Authoritative persistence", api/v1/telemetry.py), the live
\* transport follows it.
ShownIsStored == \A d \in Dashboards : {received[d][i] : i \in DOMAIN received[d]} \subseteq Stored

\* No event is sent twice to a dashboard, over reconnections of the subscriber
\* and broadcasts that are cut short.
ShownOnce ==
    \A d \in Dashboards : \A i, j \in DOMAIN received[d] : received[d][i] = received[d][j] => i = j

\* Through Redis, dashboards that see the same two events see them in the same
\* order.  (Without Redis, broadcasts overlap and they need not.)
DashboardsAgree ==
    transport = "redis" =>
        \A d, e \in Dashboards :
            ~ \E i, j \in DOMAIN received[d], k, l \in DOMAIN received[e] :
                  /\ i < j /\ k < l
                  /\ received[d][i] = received[e][l] /\ received[d][j] = received[e][k]

\* When a broadcast is over, every dashboard that was there from its start has
\* been sent the event or is out of the set; only one that is cut short, which
\* any dashboard that comes or goes can do, leaves some out.
BroadcastReachesAll ==
    [][\A b \in Casters :
           Finished(b) => \A d \in cast[b].over \cap connections' :
                              \E i \in DOMAIN received[d] : received[d][i] = cast[b].event]_vars
=============================================================================
