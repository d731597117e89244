---------------------------- MODULE TelemetryHub ----------------------------
(***************************************************************************)
(* How a stored telemetry record reaches the dashboards: the connection     *)
(* manager that broadcasts it to their WebSockets (backend/app/api/          *)
(* websockets/ws_manager.py, live_dashboard.py), the task that hands it on   *)
(* from Redis (subscriber.py) and Redis itself.  All of it runs in one       *)
(* asyncio loop and gives up control at every await: a broadcast after each  *)
(* send, while it walks a set that connections join and leave.  The size of  *)
(* the set is checked at each step of the walk, as CPython does.             *)
(***************************************************************************)
EXTENDS Naturals, Sequences, FiniteSets

CONSTANTS
    Calls,       \* calls of the client; an event is the call that sent it
    Dashboards,  \* WebSockets of dashboards
    Subscriber   \* the task that broadcasts what Redis delivers

ASSUME HubAssumption == Subscriber \notin Calls

VARIABLES
    transport,    \* "redis" if Redis answered at startup, "local" otherwise
    redisUp,      \* Redis is reachable
    subscribed,   \* Redis has the subscriber's subscription
    inbox,        \* events delivered to the subscriber and not yet read
    subscriber,   \* where run_telemetry_subscriber is
    sockets,      \* each dashboard's socket and its handler
    connections,  \* the set of the connection manager
    cast,         \* the broadcasts under way, by who runs them
    received      \* what each dashboard has been sent, in order

hubVars == <<transport, redisUp, subscribed, inbox, subscriber, sockets,
             connections, cast, received>>

Casters == Calls \cup {Subscriber}
Quiet == [event |-> Subscriber, over |-> {}, visited |-> {}, stale |-> {}]
Casting(b) == cast[b].event # Subscriber

HubInit ==
    /\ transport \in {"redis", "local"}
    /\ redisUp = (transport = "redis")
    /\ subscribed = FALSE
    /\ inbox = <<>>
    /\ subscriber = IF transport = "redis" THEN "connecting" ELSE "off"
    /\ sockets = [d \in Dashboards |-> "new"]
    /\ connections = {}
    /\ cast = [b \in Casters |-> Quiet]
    /\ received = [d \in Dashboards |-> <<>>]

-----------------------------------------------------------------------------
(* Dashboards: judge_dashboard, connect, disconnect *)

Connect(d) ==
    /\ sockets[d] = "new"
    /\ sockets' = [sockets EXCEPT ![d] = "open"]
    /\ connections' = connections \cup {d}
    /\ UNCHANGED <<transport, redisUp, subscribed, inbox, subscriber, cast, received>>

\* The peer goes away; its handler has yet to notice.
PeerCloses(d) ==
    /\ sockets[d] = "open"
    /\ sockets' = [sockets EXCEPT ![d] = "closed"]
    /\ UNCHANGED <<transport, redisUp, subscribed, inbox, subscriber, connections,
                   cast, received>>

\* receive_json raises WebSocketDisconnect.
Disconnect(d) ==
    /\ sockets[d] = "closed"
    /\ sockets' = [sockets EXCEPT ![d] = "gone"]
    /\ connections' = connections \ {d}
    /\ UNCHANGED <<transport, redisUp, subscribed, inbox, subscriber, cast, received>>

\* Anything else ends the handler and its socket, which stays in the set.
HandlerFails(d) ==
    /\ sockets[d] \in {"open", "closed"}
    /\ sockets' = [sockets EXCEPT ![d] = "gone"]
    /\ UNCHANGED <<transport, redisUp, subscribed, inbox, subscriber, connections,
                   cast, received>>

-----------------------------------------------------------------------------
(* ConnectionManager.broadcast *)

\* The broadcast of an event by b, before its first send.
Begun(b, event) ==
    cast' = [cast EXCEPT ![b] =
                [event |-> event, over |-> connections, visited |-> {}, stale |-> {}]]

SameSize(b) == Cardinality(connections) = Cardinality(cast[b].over)

\* Slip: the first dashboard that cannot be sent to ends the round.
SendToStopping(b, d) ==
    /\ Casting(b) /\ SameSize(b)
    /\ d \in connections \ cast[b].visited
    /\ IF sockets[d] = "open"
       THEN /\ received' = [received EXCEPT ![d] = Append(@, cast[b].event)]
            /\ cast' = [cast EXCEPT ![b].visited = @ \cup {d}]
       ELSE /\ cast' = [cast EXCEPT ![b].visited = Dashboards, ![b].stale = @ \cup {d}]
            /\ UNCHANGED received

\* The walk comes to d: it is sent the event, or noted as stale.
SendTo(b, d) ==
    /\ Casting(b) /\ SameSize(b)
    /\ d \in connections \ cast[b].visited
    /\ IF sockets[d] = "open"
       THEN /\ received' = [received EXCEPT ![d] = Append(@, cast[b].event)]
            /\ cast' = [cast EXCEPT ![b].visited = @ \cup {d}]
       ELSE /\ cast' = [cast EXCEPT ![b].visited = @ \cup {d}, ![b].stale = @ \cup {d}]
            /\ UNCHANGED received

Send(b, d) ==
    /\ SendTo(b, d)
    /\ UNCHANGED <<transport, redisUp, subscribed, inbox, subscriber, sockets, connections>>

\* The walk is over.  A socket that took the place of another in the set may be
\* missed, one that was there throughout may not.
Finished(b) ==
    /\ Casting(b) /\ SameSize(b)
    /\ connections \cap cast[b].over \subseteq cast[b].visited
    /\ connections' = connections \ cast[b].stale
    /\ cast' = [cast EXCEPT ![b] = Quiet]

\* "Set changed size during iteration": nothing is tidied up.
Aborted(b) ==
    /\ Casting(b) /\ ~ SameSize(b)
    /\ cast' = [cast EXCEPT ![b] = Quiet]
    /\ UNCHANGED connections

-----------------------------------------------------------------------------
(* Redis and run_telemetry_subscriber *)

\* Redis takes an event for its subscriber; errors are swallowed.
Published(event) ==
    inbox' = IF redisUp /\ subscribed THEN Append(inbox, event) ELSE inbox

Subscribe ==
    /\ subscriber = "connecting" /\ redisUp
    /\ subscriber' = "listening"
    /\ subscribed' = TRUE
    /\ inbox' = <<>>
    /\ UNCHANGED <<transport, redisUp, sockets, connections, cast, received>>

SubscribeFails ==
    /\ subscriber = "connecting" /\ ~ redisUp
    /\ subscriber' = "waiting"
    /\ UNCHANGED <<transport, redisUp, subscribed, inbox, sockets, connections, cast,
                   received>>

\* Slip: the next message is handled while the last one is being sent.
ReceiveSpawning ==
    /\ subscriber = "listening" /\ inbox # <<>>
    /\ \E b \in Casters :
           /\ ~ Casting(b)
           /\ Begun(b, Head(inbox))
    /\ inbox' = Tail(inbox)
    /\ UNCHANGED <<transport, redisUp, subscribed, subscriber, sockets, connections,
                   received>>

\* The next message is broadcast, when the last one has been.
Receive ==
    /\ subscriber = "listening" /\ inbox # <<>> /\ ~ Casting(Subscriber)
    /\ Begun(Subscriber, Head(inbox))
    /\ inbox' = Tail(inbox)
    /\ UNCHANGED <<transport, redisUp, subscribed, subscriber, sockets, connections,
                   received>>

\* An error of a broadcast is logged; the task listens on.
Received ==
    /\ Finished(Subscriber) \/ Aborted(Subscriber)
    /\ UNCHANGED <<transport, redisUp, subscribed, inbox, subscriber, sockets, received>>

\* listen() raises: the connection broke, or nothing came for socket_timeout.
ListenFails ==
    /\ subscriber = "listening" /\ ~ Casting(Subscriber)
    /\ subscriber' = "waiting"
    /\ subscribed' = FALSE
    /\ inbox' = <<>>
    /\ UNCHANGED <<transport, redisUp, sockets, connections, cast, received>>

\* The backoff is over.
Retry ==
    /\ subscriber = "waiting"
    /\ subscriber' = "connecting"
    /\ UNCHANGED <<transport, redisUp, subscribed, inbox, sockets, connections, cast,
                   received>>

\* Redis goes down, with its subscriptions, and comes back.
RedisFails ==
    /\ transport = "redis" /\ redisUp
    /\ redisUp' = FALSE
    /\ subscribed' = FALSE
    /\ UNCHANGED <<transport, inbox, subscriber, sockets, connections, cast, received>>

RedisRecovers ==
    /\ transport = "redis" /\ ~ redisUp
    /\ redisUp' = TRUE
    /\ UNCHANGED <<transport, subscribed, inbox, subscriber, sockets, connections, cast,
                   received>>

HubNext ==
    \/ \E d \in Dashboards : Connect(d) \/ PeerCloses(d) \/ Disconnect(d) \/ HandlerFails(d)
    \/ \E b \in Casters, d \in Dashboards : Send(b, d)
    \/ Subscribe \/ SubscribeFails \/ Receive \/ Received \/ ListenFails \/ Retry
    \/ RedisFails \/ RedisRecovers

-----------------------------------------------------------------------------

HubTypeOK ==
    /\ transport \in {"redis", "local"}
    /\ redisUp \in BOOLEAN /\ subscribed \in BOOLEAN
    /\ inbox \in Seq(Calls)
    /\ subscriber \in {"off", "connecting", "listening", "waiting"}
    /\ sockets \in [Dashboards -> {"new", "open", "closed", "gone"}]
    /\ connections \subseteq Dashboards
    /\ cast \in [Casters -> [event : Casters, over : SUBSET Dashboards,
                             visited : SUBSET Dashboards, stale : SUBSET Dashboards]]
    /\ received \in [Dashboards -> Seq(Calls)]
=============================================================================
