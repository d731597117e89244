------------------------------ MODULE PhoneProofs ------------------------------
(***************************************************************************)
(* What holds of the phone application, on the way of its frames to the      *)
(* dashboards and on its screens.                                            *)
(*                                                                           *)
(* Telemetry, for any number of calls and dashboards: the client counts, and *)
(* dashboards show, only what the database has, whatever is late, lost or    *)
(* given up; nothing is shown twice, and with Redis everything in one order; *)
(* a broadcast without it leaves no dashboard out.                           *)
(*                                                                           *)
(* PhoneNavigation, for any number of sessions, fixes and saves: a screen    *)
(* that claims GNSS shows a fix, a session stops when it has been still, and *)
(* the saves of all screens leave one position, the one shown last.          *)
(***************************************************************************)
EXTENDS Telemetry, PhoneNavigation, SequenceTheorems, TLAPS

-----------------------------------------------------------------------------
(* Telemetry: the inductive invariant *)

\* The request of a call agrees with where the call is; one that the client has
\* given up has no answer.
WireAtPlace ==
    \A c \in Calls :
        /\ at[c] \in {"idle", "registering", "ready"} => wire[c] = "none"
        /\ at[c] = "starting" => wire[c] \in {"start", "ok", "failed"}
        /\ at[c] = "posting" => wire[c] \in {"post", "stored", "casting", "ok", "failed"}
        /\ at[c] = "stopping" => wire[c] \in {"stop", "ok", "failed"}
        /\ at[c] = "done" => wire[c] \in {"none", "start", "stop", "post", "stored", "casting"}

\* A session the client knows, or names in a request, exists.
SessionsExist ==
    /\ session # None => drive[session] # "none"
    /\ \A c \in Calls :
          /\ at[c] = "starting" /\ wire[c] = "ok" => drive[c] # "none"
          /\ at[c] = "ready" => session # None
          /\ wire[c] \in {"post", "stop"} => target[c] # None

\* From its commit on a frame is recorded in the session it was posted to; a
\* counted one has nothing left on its way.
FramesAreRecorded ==
    \A c \in Calls :
        /\ wire[c] \in {"stored", "casting"} \/ (at[c] = "posting" /\ wire[c] = "ok") =>
              record[c] # None /\ record[c] = target[c]
        /\ c \in counted =>
              at[c] = "done" /\ wire[c] = "none" /\ record[c] # None /\ record[c] = target[c]

\* A handler that broadcasts has not answered.
RoundsAreAwaited == \A c \in Calls : Casting(c) => wire[c] = "casting"

\* Only stored events are on their way to a dashboard.
EventsAreStored ==
    /\ \A i \in 1..Len(inbox) : inbox[i] \in Stored
    /\ \A b \in Casters : Casting(b) => cast[b].event \in Stored
    /\ \A d \in Dashboards : \A i \in 1..Len(received[d]) : received[d][i] \in Stored

Inv ==
    /\ TypeOK
    /\ WireAtPlace
    /\ SessionsExist
    /\ FramesAreRecorded
    /\ RoundsAreAwaited
    /\ EventsAreStored

-----------------------------------------------------------------------------
\* At the start nothing is on its way.
LEMMA InitInv == Init => Inv
<1> SUFFICES ASSUME Init PROVE Inv
  OBVIOUS
<1> USE TelemetryAssumption, HubAssumption DEF Init, HubInit
<1>1. HubTypeOK
  BY EmptySeq DEF HubTypeOK, Quiet, Casters
<1>2. TypeOK
  BY <1>1 DEF TypeOK, Places, Fates
<1>3. WireAtPlace /\ SessionsExist /\ FramesAreRecorded
  BY DEF WireAtPlace, SessionsExist, FramesAreRecorded
<1>4. EventsAreStored
  BY EmptySeq DEF EventsAreStored, Casting, Quiet
<1>5. RoundsAreAwaited
  BY DEF RoundsAreAwaited, Casting, Quiet, Casters
<1>6. QED
  BY <1>2, <1>3, <1>4, <1>5 DEF Inv

-----------------------------------------------------------------------------
(* The hub *)

\* What is kept of a broadcast under way.
Round == [event : Casters, over : SUBSET Dashboards, visited : SUBSET Dashboards,
          stale : SUBSET Dashboards]

\* A send appends the event of its round to one dashboard's at most.
LEMMA SendEffect ==
    ASSUME HubTypeOK, NEW b \in Casters, NEW d \in Dashboards, Send(b, d)
    PROVE  /\ cast[b].event \in Calls /\ Casting(b)
           /\ received' \in [Dashboards -> Seq(Calls)]
           /\ \A e \in Dashboards : \/ received'[e] = received[e]
                                   \/ received'[e] = Append(received[e], cast[b].event)
           /\ cast' \in [Casters -> Round]
           /\ \A x \in Casters : cast'[x].event = cast[x].event
<1> DEFINE event == cast[b].event
<1>1. cast \in [Casters -> Round] /\ received \in [Dashboards -> Seq(Calls)]
  BY DEF HubTypeOK, Round
<1>2. event \in Calls /\ Casting(b)
  BY <1>1 DEF Send, SendTo, Casting, Casters, Round
<1>3. PICK round : /\ cast' = [cast EXCEPT ![b] = round]
                   /\ round \in Round /\ round.event = event
  <2> DEFINE open == [cast[b] EXCEPT !.visited = @ \cup {d}]
             shut == [cast[b] EXCEPT !.visited = @ \cup {d}, !.stale = @ \cup {d}]
  <2>1. \A entry \in Round :
           /\ [entry EXCEPT !.visited = @ \cup {d}] \in Round
           /\ [entry EXCEPT !.visited = @ \cup {d}].event = entry.event
    BY DEF Round
  <2>2. \A entry \in Round :
           /\ [entry EXCEPT !.visited = @ \cup {d}, !.stale = @ \cup {d}] \in Round
           /\ [entry EXCEPT !.visited = @ \cup {d}, !.stale = @ \cup {d}].event = entry.event
    BY DEF Round
  <2>3. cast[b] \in Round
    BY <1>1
  <2>4. open \in Round /\ open.event = event
    BY <2>1, <2>3
  <2>5. shut \in Round /\ shut.event = event
    BY <2>2, <2>3
  <2>6. cast' = [cast EXCEPT ![b] = open] \/ cast' = [cast EXCEPT ![b] = shut]
    BY DEF Send, SendTo
  <2> HIDE DEF open, shut
  <2>7. QED
    BY <2>4, <2>5, <2>6
<1>4. received' = received \/ received' = [received EXCEPT ![d] = Append(received[d], event)]
  BY DEF Send, SendTo
<1> HIDE DEF event
<1>5. Append(received[d], event) \in Seq(Calls)
  BY <1>1, <1>2, AppendProperties
<1>6. /\ received' \in [Dashboards -> Seq(Calls)]
      /\ \A e \in Dashboards : \/ received'[e] = received[e]
                              \/ received'[e] = Append(received[e], event)
  BY <1>1, <1>4, <1>5
<1>7. cast' \in [Casters -> Round] /\ \A x \in Casters : cast'[x].event = cast[x].event
  BY <1>1, <1>3 DEF event
<1>8. QED
  BY <1>2, <1>6, <1>7 DEF event

\* No step of the hub breaks its types.
LEMMA HubType ==
    ASSUME HubTypeOK, HubNext
    PROVE  HubTypeOK'
<1> USE HubAssumption DEF HubTypeOK
<1>1. ASSUME NEW d \in Dashboards, Connect(d) \/ PeerCloses(d) \/ Disconnect(d) \/ HandlerFails(d)
      PROVE  HubTypeOK'
  BY <1>1 DEF Connect, PeerCloses, Disconnect, HandlerFails
<1>2. ASSUME NEW b \in Casters, NEW d \in Dashboards, Send(b, d) PROVE HubTypeOK'
  BY <1>2, SendEffect DEF Send, Round
<1>3. CASE Receive
  <2>1. Head(inbox) \in Calls /\ Tail(inbox) \in Seq(Calls)
    BY <1>3, HeadTailProperties DEF Receive
  <2>2. QED
    BY <1>3, <2>1 DEF Receive, Begun, Casters
<1>4. CASE Received
  BY <1>4 DEF Received, Finished, Aborted, Quiet, Casters
<1>5. CASE Subscribe \/ SubscribeFails \/ ListenFails \/ Retry \/ RedisFails \/ RedisRecovers
  BY <1>5, EmptySeq DEF Subscribe, SubscribeFails, ListenFails, Retry, RedisFails, RedisRecovers
<1>6. QED
  BY <1>1, <1>2, <1>3, <1>4, <1>5 DEF HubNext

\* The hub invents no events.
LEMMA HubEvents ==
    ASSUME HubTypeOK, EventsAreStored, HubNext, Stored' = Stored
    PROVE  EventsAreStored'
<1> USE HubAssumption DEF HubTypeOK, EventsAreStored
<1> HIDE DEF Stored
<1>1. ASSUME NEW d \in Dashboards, Connect(d) \/ PeerCloses(d) \/ Disconnect(d) \/ HandlerFails(d)
      PROVE  EventsAreStored'
  BY <1>1 DEF Connect, PeerCloses, Disconnect, HandlerFails, Casting
<1>2. ASSUME NEW b \in Casters, NEW d \in Dashboards, Send(b, d) PROVE EventsAreStored'
  <2>1. /\ cast[b].event \in Stored
        /\ \A e \in Dashboards : \/ received'[e] = received[e]
                                \/ received'[e] = Append(received[e], cast[b].event)
        /\ \A x \in Casters : cast'[x].event = cast[x].event
    BY <1>2, SendEffect
  <2>2. \A e \in Dashboards : \A i \in 1..Len(received'[e]) : received'[e][i] \in Stored
    <3> SUFFICES ASSUME NEW e \in Dashboards, NEW i \in 1..Len(received'[e])
                 PROVE  received'[e][i] \in Stored
      OBVIOUS
    <3>1. received[e] \in Seq(Calls) /\ cast[b].event \in Calls
      BY <1>2, SendEffect
    <3>2. CASE received'[e] = received[e]
      BY <3>2
    <3>3. CASE received'[e] = Append(received[e], cast[b].event)
      BY <2>1, <3>1, <3>3, AppendProperties
    <3>4. QED
      BY <2>1, <3>2, <3>3
  <2>3. QED
    BY <1>2, <2>1, <2>2 DEF Send, Casting
<1>3. CASE Receive
  <2>1. Head(inbox) \in Stored /\ \A i \in 1..Len(Tail(inbox)) : Tail(inbox)[i] \in Stored
    BY <1>3, HeadTailProperties, LenProperties DEF Receive
  <2>2. QED
    BY <1>3, <2>1 DEF Receive, Begun, Casters, Casting
<1>4. CASE Received
  BY <1>4 DEF Received, Finished, Aborted, Quiet, Casters, Casting
<1>5. CASE Subscribe \/ SubscribeFails \/ ListenFails \/ Retry \/ RedisFails \/ RedisRecovers
  BY <1>5, EmptySeq DEF Subscribe, SubscribeFails, ListenFails, Retry, RedisFails, RedisRecovers, Casting
<1>6. QED
  BY <1>1, <1>2, <1>3, <1>4, <1>5 DEF HubNext

\* It begins no round for a handler.
LEMMA HubRounds ==
    ASSUME HubTypeOK, HubNext
    PROVE  \A c \in Calls : Casting(c)' => Casting(c)
<1> SUFFICES ASSUME NEW c \in Calls, Casting(c)' PROVE Casting(c)
  OBVIOUS
<1>1. c \in Casters /\ c # Subscriber
  BY HubAssumption DEF Casters
<1>2. CASE \E b \in Casters, d \in Dashboards : Send(b, d)
  BY <1>1, <1>2, SendEffect DEF Casting
<1>3. CASE Receive \/ Received
  BY <1>1, <1>3 DEF Receive, Begun, Received, Finished, Aborted, HubTypeOK, Casting
<1>4. CASE UNCHANGED cast
  BY <1>4 DEF Casting
<1>5. QED
  BY <1>2, <1>3, <1>4 DEF HubNext, Connect, PeerCloses, Disconnect, HandlerFails, Subscribe,
     SubscribeFails, ListenFails, Retry, RedisFails, RedisRecovers

-----------------------------------------------------------------------------
(* The client *)

\* No step of the client touches the hub or the database.
LEMMA ClientStep ==
    ASSUME Inv, NEW c \in Calls, Client(c)
    PROVE  Inv'
<1> USE TelemetryAssumption
    DEF Inv, Client, Initialize, Registered, RegistrationFails, SessionStarted, SendTelemetry,
        Post, Count, GiveUp, StopSession, Go, OnWire, End, Answered
<1>1. UNCHANGED <<hubVars, serverVars>>
  OBVIOUS
<1>2. HubTypeOK'
  BY <1>1 DEF TypeOK, HubTypeOK, hubVars
<1>3. TypeOK'
  BY <1>1, <1>2 DEF TypeOK, Places, Fates, SessionsExist, serverVars, WireAtPlace
<1>4. WireAtPlace'
  BY <1>1 DEF TypeOK, WireAtPlace
<1>5. SessionsExist'
  BY <1>1 DEF TypeOK, SessionsExist, WireAtPlace, serverVars
<1>6. FramesAreRecorded'
  BY <1>1 DEF TypeOK, FramesAreRecorded, WireAtPlace, serverVars
<1>7. EventsAreStored'
  BY <1>1 DEF EventsAreStored, hubVars, serverVars, Stored, Casting
<1>8. RoundsAreAwaited'
  BY <1>1 DEF TypeOK, RoundsAreAwaited, WireAtPlace, hubVars, Casting
<1>9. QED
  BY <1>3, <1>4, <1>5, <1>6, <1>7, <1>8

-----------------------------------------------------------------------------
(* The server *)

\* A request is answered, or moves on to its commit, in the database.
LEMMA DatabaseStep ==
    ASSUME Inv, NEW c \in Calls, CreateSession(c) \/ StopDrive(c) \/ Insert(c) \/ RequestFails(c)
    PROVE  Inv'
<1> USE TelemetryAssumption, HubAssumption
    DEF Inv, CreateSession, StopDrive, Insert, RequestFails, Answers, OnWire
<1>1. UNCHANGED <<hubVars, clientVars>>
  OBVIOUS
<1>2. HubTypeOK'
  BY <1>1 DEF TypeOK, HubTypeOK, hubVars
<1>3. wire \in [Calls -> Fates] /\ at \in [Calls -> Places] /\ wire' \in [Calls -> Fates]
  BY DEF TypeOK, Fates
<1>4. /\ target \in [Calls -> {None} \cup Calls]
      /\ \A x \in Calls : target[x] # None => drive[target[x]] # "none"
      /\ wire[c] \in {"post", "stop"} => target[c] \in Calls
  BY DEF TypeOK, SessionsExist
<1>5. /\ drive' \in [Calls -> {"none", "active", "stopped"}]
      /\ \A s \in Calls : drive[s] # "none" => drive'[s] # "none"
  BY <1>4 DEF TypeOK, serverVars
<1>6. /\ record' \in [Calls -> Calls \cup {None}]
      /\ \A x \in Calls : record'[x] = record[x] \/ (x = c /\ wire[c] = "post")
  BY <1>4 DEF TypeOK, serverVars
<1>7. TypeOK'
  <2>1. target' = target /\ \A x \in Calls : target[x] # None => drive'[target[x]] # "none"
    BY <1>1, <1>4, <1>5 DEF clientVars
  <2>2. target' \in [Calls -> {None} \cup {s \in Calls : drive'[s] # "none"}]
    BY <2>1, <1>4
  <2>3. session' = session /\ sends' = sends /\ counted' = counted /\ at' = at
    BY <1>1 DEF clientVars
  <2>4. QED
    BY <1>2, <1>3, <1>5, <1>6, <2>2, <2>3 DEF TypeOK
<1>8. WireAtPlace'
  BY <1>1, <1>3 DEF WireAtPlace, clientVars
<1>9. SessionsExist'
  <2>1. /\ session' = session /\ target' = target /\ at' = at
        /\ \A x \in Calls \ {c} : wire'[x] = wire[x]
        /\ wire'[c] \notin {"post", "stop"}
        /\ at[c] = "starting" /\ wire'[c] = "ok" => drive'[c] # "none"
    BY <1>1, <1>3 DEF clientVars, WireAtPlace, TypeOK
  <2>2. session \in Calls \cup {None}
    BY DEF TypeOK
  <2>3. QED
    BY <1>5, <2>1, <2>2 DEF SessionsExist
<1>10. FramesAreRecorded'
  <2>1. /\ counted' = counted /\ target' = target /\ at' = at
        /\ \A x \in Calls \ {c} : wire'[x] = wire[x] /\ record'[x] = record[x]
    BY <1>1, <1>3, <1>6 DEF clientVars
  <2>2. c \notin counted
    BY DEF FramesAreRecorded
  <2>3. wire'[c] \in {"stored", "casting"} \/ (at[c] = "posting" /\ wire'[c] = "ok") =>
           record'[c] # None /\ record'[c] = target[c]
    BY <1>3, <1>4 DEF TypeOK, WireAtPlace
  <2>4. QED
    BY <2>1, <2>2, <2>3 DEF FramesAreRecorded
<1>11. Stored \subseteq Stored'
  BY <1>6, <1>4 DEF Stored, serverVars, TypeOK, SessionsExist
<1>12. EventsAreStored'
  BY <1>1, <1>11 DEF EventsAreStored, hubVars, Casting
<1>13. RoundsAreAwaited'
  BY <1>1, <1>3 DEF RoundsAreAwaited, hubVars, Casting
<1>14. QED
  BY <1>7, <1>8, <1>9, <1>10, <1>12, <1>13

\* A committed record is handed to the hub, and then answered.
LEMMA HandOverStep ==
    ASSUME Inv, NEW c \in Calls, Publish(c) \/ Broadcast(c) \/ Answer(c)
    PROVE  Inv'
<1>0. /\ Answer(c) => ~ Casting(c)' /\ wire[c] = "casting" /\ cast' = [cast EXCEPT ![c] = Quiet]
      /\ Publish(c) => cast' = cast
  <2>1. Answer(c) => Casting(c) /\ cast' = [cast EXCEPT ![c] = Quiet]
    BY DEF Answer, Finished, Aborted
  <2>2. c \in DOMAIN cast
    BY DEF Inv, TypeOK, HubTypeOK, Casters
  <2>3. QED
    BY <2>1, <2>2 DEF Inv, RoundsAreAwaited, Casting, Quiet, Publish
<1> USE TelemetryAssumption, HubAssumption
    DEF Inv, Publish, Broadcast, Answer, Answers, OnWire
<1>1. UNCHANGED <<clientVars, serverVars>> /\ c \in Casters
  BY DEF Casters
<1>2. wire \in [Calls -> Fates] /\ at \in [Calls -> Places] /\ wire' \in [Calls -> Fates]
  BY DEF TypeOK, Fates
<1>3. HubTypeOK' /\ EventsAreStored'
  <2>1. HubTypeOK /\ EventsAreStored /\ Stored' = Stored
    BY <1>1 DEF TypeOK, Stored, serverVars
  <2>2. CASE Publish(c)
    <3>1. c \in Stored /\ wire[c] = "stored"
      BY <2>2 DEF FramesAreRecorded, Stored
    <3>2. inbox \in Seq(Calls) /\ inbox' \in {inbox, Append(inbox, c)}
      BY <2>1, <2>2 DEF HubTypeOK, Published
    <3>3. inbox' \in Seq(Calls) /\ \A i \in 1..Len(inbox') : inbox'[i] \in Stored
      BY <2>1, <3>1, <3>2, AppendProperties DEF EventsAreStored
    <3>4. QED
      BY <2>1, <2>2, <3>3 DEF HubTypeOK, EventsAreStored, Casting
  <2>3. CASE Broadcast(c)
    <3>1. c \in Stored
      BY <2>3 DEF FramesAreRecorded, Stored
    <3>2. cast' = [cast EXCEPT ![c] = [event |-> c, over |-> connections, visited |-> {}, stale |-> {}]]
      BY <2>3 DEF Begun
    <3>3. QED
      BY <1>1, <2>1, <2>3, <3>1, <3>2 DEF HubTypeOK, EventsAreStored, Casting
  <2>4. CASE Answer(c)
    <3>1. /\ cast' = [cast EXCEPT ![c] = Quiet]
          /\ connections' \subseteq connections
          /\ UNCHANGED <<transport, redisUp, subscribed, inbox, subscriber, sockets, received>>
      BY <2>4 DEF Finished, Aborted
    <3>2. Quiet.event = Subscriber /\ Quiet \in [event : Casters, over : SUBSET Dashboards,
                             visited : SUBSET Dashboards, stale : SUBSET Dashboards]
      BY DEF Quiet, Casters
    <3>3. HubTypeOK'
      BY <2>1, <3>1, <3>2 DEF HubTypeOK
    <3>4. EventsAreStored'
      BY <2>1, <3>1, <3>2, <1>1 DEF HubTypeOK, EventsAreStored, Casting
    <3>5. QED
      BY <3>3, <3>4
  <2>5. QED
    BY <2>2, <2>3, <2>4
<1>4. TypeOK'
  BY <1>1, <1>2, <1>3 DEF TypeOK, clientVars, serverVars
<1>5. /\ wire[c] \in {"stored", "casting"}
      /\ \A x \in Calls \ {c} : wire'[x] = wire[x]
      /\ \/ wire'[c] = "casting"
         \/ at[c] = "done" /\ wire'[c] = "none"
         \/ at[c] # "done" /\ wire'[c] \in {"ok", "failed"}
  BY <1>0, <1>2
<1>6. WireAtPlace'
  BY <1>1, <1>2, <1>5 DEF WireAtPlace, clientVars
<1>7. SessionsExist'
  BY <1>1, <1>2, <1>5 DEF SessionsExist, WireAtPlace, clientVars, serverVars
<1>8. FramesAreRecorded'
  BY <1>1, <1>2, <1>5 DEF FramesAreRecorded, WireAtPlace, clientVars, serverVars
<1>9. RoundsAreAwaited'
  <2>1. cast \in [Casters -> [event : Casters, over : SUBSET Dashboards,
                              visited : SUBSET Dashboards, stale : SUBSET Dashboards]]
    BY DEF TypeOK, HubTypeOK
  <2>2. \A x \in Calls \ {c} : cast'[x] = cast[x]
    <3>1. \E round : cast' = cast \/ cast' = [cast EXCEPT ![c] = round]
      BY <1>0 DEF Begun
    <3>2. DOMAIN cast = Casters /\ Calls \subseteq Casters
      BY <2>1 DEF Casters
    <3>3. QED
      BY <3>1, <3>2
  <2>3. Casting(c)' => wire'[c] = "casting"
    <3>1. Publish(c) => ~ Casting(c)'
      BY <1>0 DEF RoundsAreAwaited, Casting
    <3>2. Broadcast(c) => wire'[c] = "casting"
      BY <1>2
    <3>3. QED
      BY <1>0, <3>1, <3>2
  <2>4. QED
    BY <1>5, <2>2, <2>3 DEF RoundsAreAwaited, Casting
<1>10. QED
  BY <1>3, <1>4, <1>6, <1>7, <1>8, <1>9

\* A step of the hub leaves client and database alone.
LEMMA HubStep ==
    ASSUME Inv, Hub
    PROVE  Inv'
<1>1. HubNext /\ UNCHANGED <<clientVars, wire, serverVars>>
  BY DEF Hub
<1>2. HubTypeOK' /\ Stored' = Stored
  BY <1>1, HubType DEF Inv, TypeOK, Stored, serverVars
<1>3. EventsAreStored'
  BY <1>1, <1>2, HubEvents DEF Inv, TypeOK
<1>4. TypeOK' /\ WireAtPlace' /\ SessionsExist' /\ FramesAreRecorded'
  BY <1>1, <1>2 DEF Inv, TypeOK, WireAtPlace, SessionsExist, FramesAreRecorded,
                    clientVars, serverVars
<1>5. RoundsAreAwaited'
  <2>1. \A c \in Calls : Casting(c)' => Casting(c)
    BY <1>1, HubRounds DEF Inv, TypeOK
  <2>2. QED
    BY <1>1, <2>1 DEF Inv, RoundsAreAwaited
<1>6. QED
  BY <1>3, <1>4, <1>5 DEF Inv

-----------------------------------------------------------------------------
\* Every step keeps the invariant.
LEMMA NextInv == Inv /\ [Next]_vars => Inv'
<1> SUFFICES ASSUME Inv, [Next]_vars PROVE Inv'
  OBVIOUS
<1>1. ASSUME NEW c \in Calls, Client(c) \/ Server(c) PROVE Inv'
  BY <1>1, ClientStep, DatabaseStep, HandOverStep DEF Server
<1>2. CASE Hub
  BY <1>2, HubStep
<1>3. CASE UNCHANGED vars
  BY <1>3 DEF vars, hubVars, clientVars, serverVars, Inv, TypeOK, HubTypeOK, WireAtPlace,
              SessionsExist, FramesAreRecorded, RoundsAreAwaited, EventsAreStored, Casting, Stored
<1>4. QED
  BY <1>1, <1>2, <1>3 DEF Next

\* The invariant of phone, server and hub.
THEOREM Invariance == Spec => []Inv
<1>1. QED
  BY InitInv, NextInv, PTL DEF Spec

\* Calls, requests, sessions and broadcasts are of their kinds, and every
\* request names a session of the database, for any number of calls and dashboards.
THEOREM TypeCorrect == Spec => []TypeOK
<1>1. Inv => TypeOK
  BY DEF Inv
<1>2. QED
  BY Invariance, <1>1, PTL

\* sendTelemetry counts only frames that are in the database.
THEOREM NothingMiscounted == Spec => []CountedAreStored
<1>1. Inv => CountedAreStored
  BY DEF Inv, TypeOK, FramesAreRecorded, CountedAreStored, Stored
<1>2. QED
  BY Invariance, <1>1, PTL

\* A dashboard shows only records that are in the database.
THEOREM NothingInvented == Spec => []ShownIsStored
<1>1. Inv => ShownIsStored
  <2> SUFFICES ASSUME Inv, NEW d \in Dashboards, NEW i \in DOMAIN received[d]
               PROVE  received[d][i] \in Stored
    BY DEF ShownIsStored
  <2>1. DOMAIN received[d] = 1..Len(received[d])
    BY LenProperties DEF Inv, TypeOK, HubTypeOK
  <2>2. QED
    BY <2>1 DEF Inv, EventsAreStored
<1>2. QED
  BY Invariance, <1>1, PTL

-----------------------------------------------------------------------------
(* Once, and in one order *)

\* A call whose frame has not been handed to the hub.
Fresh(c) ==
    \/ at[c] \in {"idle", "registering", "starting", "ready"}
    \/ wire[c] \in {"start", "stop", "post", "stored"}

WasSent(event, d) == \E i \in 1..Len(received[d]) : received[d][i] = event

\* Handlers broadcast only without Redis, the subscriber only with it.
OneTransport ==
    /\ transport = "redis" => \A c \in Calls : ~ Casting(c)
    /\ transport = "local" => inbox = <<>> /\ subscriber = "off" /\ ~ Casting(Subscriber)

OwnRounds == \A c \in Calls : Casting(c) => cast[c].event = c

\* An event waits in one place until its round, and nobody has been sent it before.
NotYetSent ==
    /\ \A c \in Calls : Fresh(c) =>
          /\ cast[Subscriber].event # c
          /\ \A i \in 1..Len(inbox) : inbox[i] # c
          /\ \A d \in Dashboards : ~ WasSent(c, d)
    /\ \A i \in 1..Len(inbox) :
          /\ cast[Subscriber].event # inbox[i]
          /\ \A d \in Dashboards : ~ WasSent(inbox[i], d)
    /\ \A i, j \in 1..Len(inbox) : inbox[i] = inbox[j] => i = j

\* Whom a round has sent its event to, it does not come to again.
VisitedOnce ==
    \A b \in Casters : Casting(b) =>
        \A d \in Dashboards : WasSent(cast[b].event, d) => d \in cast[b].visited

\* During a round of the subscriber its event is the last one anybody was sent.
LastOfRound ==
    Casting(Subscriber) =>
        \A d \in Dashboards : \A i \in 1..Len(received[d]) :
            received[d][i] = cast[Subscriber].event => i = Len(received[d])

Order ==
    /\ OneTransport
    /\ OwnRounds
    /\ NotYetSent
    /\ VisitedOnce
    /\ LastOfRound
    /\ ShownOnce
    /\ DashboardsAgree

\* At the start nobody has been sent anything.
LEMMA InitOrder == Init => Order
<1> SUFFICES ASSUME Init PROVE Order
  OBVIOUS
<1> USE DEF Init, HubInit
<1>1. \A b \in Casters : ~ Casting(b)
  BY DEF Casting, Quiet
<1>2. Calls \subseteq Casters /\ Subscriber \in Casters
  BY DEF Casters
<1>3. \A d \in Dashboards : received[d] = <<>> /\ Len(received[d]) = 0 /\ DOMAIN received[d] = {}
  OBVIOUS
<1>4. inbox = <<>> /\ Len(inbox) = 0
  OBVIOUS
<1>5. \A c \in Calls : cast[Subscriber].event # c
  BY <1>2, HubAssumption DEF Quiet
<1>6. NotYetSent
  BY <1>3, <1>4, <1>5 DEF NotYetSent, WasSent
<1>7. OneTransport /\ OwnRounds /\ VisitedOnce /\ LastOfRound
  BY <1>1, <1>2 DEF OneTransport, OwnRounds, VisitedOnce, LastOfRound
<1>8. ShownOnce /\ DashboardsAgree
  BY <1>3 DEF ShownOnce, DashboardsAgree
<1>9. QED
  BY <1>6, <1>7, <1>8 DEF Order

\* The indices of what was sent and of what waits.
LEMMA Indices ==
    ASSUME HubTypeOK
    PROVE  /\ \A d \in Dashboards : /\ received[d] \in Seq(Calls) /\ Len(received[d]) \in Nat
                                    /\ DOMAIN received[d] = 1..Len(received[d])
           /\ inbox \in Seq(Calls) /\ Len(inbox) \in Nat
           /\ Subscriber \in Casters /\ Calls \subseteq Casters /\ Subscriber \notin Calls
  BY LenProperties, HubAssumption DEF HubTypeOK, Casters

\* A step that sends nothing, begins no round and publishes nothing.
LEMMA NothingSent ==
    ASSUME HubTypeOK, Order, UNCHANGED <<received, transport>>,
           inbox' = inbox \/ inbox' = <<>>,
           subscriber = "off" => subscriber' = "off",
           \A b \in Casters : cast'[b] = cast[b] \/ cast'[b] = Quiet,
           \A c \in Calls : Fresh(c)' => Fresh(c)
    PROVE  Order'
<1> USE DEF Order
<1>1. \A b \in Casters : Casting(b)' => Casting(b) /\ cast'[b] = cast[b]
  BY DEF Casting, Quiet
<1>2. \A c \in Calls : cast'[Subscriber].event = c => cast[Subscriber].event = c
  BY Indices DEF Quiet
<1>3. \A event, d : WasSent(event, d)' <=> WasSent(event, d)
  BY DEF WasSent
<1>4. \A i \in 1..Len(inbox') : i \in 1..Len(inbox) /\ inbox'[i] = inbox[i] /\ inbox[i] \in Calls
  <2>1. CASE inbox' = <<>>
    BY <2>1
  <2>2. CASE inbox' = inbox
    BY <2>2, Indices, ElementOfSeq
  <2>3. QED
    BY <2>1, <2>2
<1>5. NotYetSent'
  BY <1>2, <1>3, <1>4 DEF NotYetSent
<1>6. OneTransport' /\ OwnRounds'
  BY <1>1, Indices DEF OneTransport, OwnRounds
<1>7. VisitedOnce' /\ LastOfRound'
  BY <1>1, <1>3, Indices DEF VisitedOnce, LastOfRound
<1>8. ShownOnce' /\ DashboardsAgree'
  BY DEF ShownOnce, DashboardsAgree
<1>9. QED
  BY <1>5, <1>6, <1>7, <1>8

\* What a send does, exactly.
LEMMA SendExact ==
    ASSUME HubTypeOK, NEW b \in Casters, NEW d \in Dashboards, Send(b, d)
    PROVE  /\ Casting(b) /\ cast[b].event \in Calls /\ d \notin cast[b].visited
           /\ \A x \in Casters : x # b => cast'[x] = cast[x]
           /\ cast'[b].event = cast[b].event
           /\ cast'[b].visited = cast[b].visited \cup {d}
           /\ \A e \in Dashboards : e # d => received'[e] = received[e]
           /\ \/ received'[d] = received[d]
              \/ received'[d] = Append(received[d], cast[b].event)
           /\ cast[b].stale \subseteq cast'[b].stale
           /\ d \in cast'[b].stale \/ received'[d] = Append(received[d], cast[b].event)
           /\ UNCHANGED <<transport, inbox, subscriber>>
<1>1. Casting(b) /\ cast[b].event \in Calls /\ d \notin cast[b].visited
  BY SendEffect DEF Send, SendTo
<1>2. cast[b] \in Round /\ cast \in [Casters -> Round] /\ received \in [Dashboards -> Seq(Calls)]
  BY DEF HubTypeOK, Round
<1>3. PICK round : /\ cast' = [cast EXCEPT ![b] = round]
                   /\ round.event = cast[b].event
                   /\ round.visited = cast[b].visited \cup {d}
                   /\ cast[b].stale \subseteq round.stale
                   /\ \/ d \in round.stale
                      \/ received' = [received EXCEPT ![d] = Append(received[d], cast[b].event)]
  <2> DEFINE open == [cast[b] EXCEPT !.visited = @ \cup {d}]
             shut == [cast[b] EXCEPT !.visited = @ \cup {d}, !.stale = @ \cup {d}]
  <2>1. /\ open.event = cast[b].event /\ open.visited = cast[b].visited \cup {d}
        /\ shut.event = cast[b].event /\ shut.visited = cast[b].visited \cup {d}
        /\ open.stale = cast[b].stale /\ shut.stale = cast[b].stale \cup {d}
    BY <1>2 DEF Round
  <2>2. \/ /\ cast' = [cast EXCEPT ![b] = open]
           /\ received' = [received EXCEPT ![d] = Append(received[d], cast[b].event)]
        \/ cast' = [cast EXCEPT ![b] = shut]
    BY DEF Send, SendTo
  <2> HIDE DEF open, shut
  <2>3. QED
    BY <2>1, <2>2
<1>4. received' = received \/ received' = [received EXCEPT ![d] = Append(received[d], cast[b].event)]
  BY DEF Send, SendTo
<1>5. /\ \A e \in Dashboards : e # d => received'[e] = received[e]
      /\ \/ received'[d] = received[d]
         \/ received'[d] = Append(received[d], cast[b].event)
  BY <1>2, <1>4
<1>6. /\ \A x \in Casters : x # b => cast'[x] = cast[x]
      /\ cast'[b].event = cast[b].event
      /\ cast'[b].visited = cast[b].visited \cup {d}
      /\ cast[b].stale \subseteq cast'[b].stale
      /\ d \in cast'[b].stale \/ received'[d] = Append(received[d], cast[b].event)
  BY <1>2, <1>3
<1>7. QED
  BY <1>1, <1>5, <1>6 DEF Send

\* A frame that has not been handed over is in no round, and no event in two.
LEMMA RoundsDiffer ==
    ASSUME Inv, Order
    PROVE  /\ \A c \in Calls : \A b \in Casters :
                 Fresh(c) /\ Casting(b) => cast[b].event # c
           /\ \A b, x \in Casters :
                 Casting(b) /\ Casting(x) /\ cast[b].event = cast[x].event => b = x
           /\ \A b \in Casters : Casting(b) => (transport = "redis" <=> b = Subscriber)
<1> USE DEF Inv, Order
<1>1. HubTypeOK /\ transport \in {"redis", "local"}
  BY DEF TypeOK, HubTypeOK
<1>2. \A b \in Casters : Casting(b) => (transport = "redis" <=> b = Subscriber)
  BY <1>1, Indices DEF OneTransport, Casters
<1>3. \A c \in Calls : Fresh(c) => ~ Casting(c)
  BY DEF Fresh, RoundsAreAwaited, WireAtPlace
<1>4. \A b \in Casters : b \in Calls \/ b = Subscriber
  BY DEF Casters
<1>5. QED
  BY <1>2, <1>3, <1>4 DEF OwnRounds, NotYetSent

\* A send to one dashboard appends the event of its round, once and last.
LEMMA SendKeepsOrder ==
    ASSUME Inv, Order, NEW b \in Casters, NEW d \in Dashboards, Send(b, d),
           UNCHANGED <<at, wire>>
    PROVE  Order'
<1> USE DEF Inv, TypeOK, Order
<1> DEFINE event == cast[b].event
           n == Len(received[d])
<1>1. /\ Casting(b) /\ event \in Calls /\ d \notin cast[b].visited
      /\ \A x \in Casters : x # b => cast'[x] = cast[x]
      /\ cast'[b].event = event
      /\ cast'[b].visited = cast[b].visited \cup {d}
      /\ \A e \in Dashboards : e # d => received'[e] = received[e]
      /\ received'[d] = received[d] \/ received'[d] = Append(received[d], event)
      /\ UNCHANGED <<transport, inbox, subscriber>>
  BY SendExact
<1>2. /\ n \in Nat /\ received[d] \in Seq(Calls)
      /\ \A e \in Dashboards : Len(received[e]) \in Nat /\ DOMAIN received[e] = 1..Len(received[e])
  BY Indices
<1> HIDE DEF event
<1>3. \/ received'[d] = received[d]
      \/ /\ Len(received'[d]) = n + 1 /\ received'[d][n + 1] = event
         /\ \A i \in 1..n : received'[d][i] = received[d][i]
  BY <1>1, <1>2, AppendProperties
<1>4. \A e \in Dashboards : Len(received'[e]) \in Nat /\ DOMAIN received'[e] = 1..Len(received'[e])
  <2>1. received' \in [Dashboards -> Seq(Calls)]
    BY SendEffect
  <2>2. QED
    BY <2>1, LenProperties
<1> DEFINE Old(e, i) == i \in 1..Len(received[e]) /\ received'[e][i] = received[e][i]
           Newest(e, i) == e = d /\ i = n + 1 /\ i = Len(received'[e]) /\ received'[e][i] = event
<1>5. \A e \in Dashboards : \A i \in 1..Len(received'[e]) : Old(e, i) \/ Newest(e, i)
  <2> SUFFICES ASSUME NEW e \in Dashboards, NEW i \in 1..Len(received'[e])
               PROVE  Old(e, i) \/ Newest(e, i)
    OBVIOUS
  <2>1. CASE received'[e] = received[e]
    BY <2>1
  <2>2. CASE e = d /\ received'[e] # received[e]
    BY <1>2, <1>3, <2>2
  <2>3. QED
    BY <1>1, <2>1, <2>2
<1>6. \A x : \A e \in Dashboards : WasSent(x, e)' => WasSent(x, e) \/ (e = d /\ x = event)
  BY <1>5 DEF WasSent
<1>7. ~ WasSent(event, d)
  BY <1>1 DEF VisitedOnce, event
<1>8. \A x \in Casters : cast'[x].event = cast[x].event /\ (Casting(x)' <=> Casting(x))
  BY <1>1 DEF Casting, event
<1>9. NotYetSent'
  <2>1. \A c \in Calls : (Fresh(c)' => Fresh(c)) /\ (Fresh(c) => c # event)
    BY <1>1, RoundsDiffer DEF Fresh, event
  <2>2. \A i \in 1..Len(inbox) : inbox[i] # event
    <3>1. CASE b = Subscriber
      BY <3>1 DEF NotYetSent, event
    <3>2. CASE b # Subscriber
      <4>1. transport = "local"
        BY <1>1, <3>2, RoundsDiffer DEF HubTypeOK
      <4>2. QED
        BY <4>1 DEF OneTransport
    <3>3. QED
      BY <3>1, <3>2
  <2>3. QED
    BY <1>1, <1>6, <1>8, <2>1, <2>2, Indices DEF NotYetSent
<1>10. OneTransport' /\ OwnRounds'
  BY <1>1, <1>8, Indices DEF OneTransport, OwnRounds
<1>11. VisitedOnce'
  <2> SUFFICES ASSUME NEW x \in Casters, Casting(x), NEW e \in Dashboards,
                      NEW y, y = cast[x].event, WasSent(y, e)'
               PROVE  e \in cast'[x].visited
    BY <1>8 DEF VisitedOnce, WasSent
  <2>1. CASE WasSent(y, e)
    BY <1>1, <2>1 DEF VisitedOnce
  <2>2. CASE e = d /\ y = event
    BY <1>1, <2>2, RoundsDiffer DEF event
  <2>3. QED
    BY <1>6, <2>1, <2>2
<1>12. LastOfRound'
  <2> SUFFICES ASSUME Casting(Subscriber), NEW e \in Dashboards, NEW i \in 1..Len(received'[e]),
                      received'[e][i] = cast[Subscriber].event
               PROVE  i = Len(received'[e])
    BY <1>8, Indices DEF LastOfRound
  <2>1. b = Subscriber /\ received'[e][i] = event
    BY <1>1, Indices, RoundsDiffer DEF event
  <2>2. CASE Old(e, i)
    <3>1. e # d
      BY <1>7, <2>1, <2>2 DEF WasSent
    <3>2. QED
      BY <1>1, <2>1, <2>2, <3>1 DEF LastOfRound, event
  <2>3. QED
    BY <1>5, <2>2
<1>13. ShownOnce'
  <2> SUFFICES ASSUME NEW e \in Dashboards, NEW i \in 1..Len(received'[e]),
                      NEW j \in 1..Len(received'[e]), received'[e][i] = received'[e][j]
               PROVE  i = j
    BY <1>4 DEF ShownOnce
  <2>1. CASE Old(e, i) /\ Old(e, j)
    <3>1. /\ i \in DOMAIN received[e] /\ j \in DOMAIN received[e]
          /\ received[e][i] = received[e][j]
      BY <1>2, <2>1
    <3>2. QED
      BY <3>1 DEF ShownOnce
  <2>2. CASE Newest(e, i) \/ Newest(e, j)
    BY <1>5, <1>7, <2>2 DEF WasSent
  <2>3. QED
    BY <1>5, <2>1, <2>2
<1>14. DashboardsAgree'
  <2>0. ASSUME transport = "redis", NEW e \in Dashboards, NEW f \in Dashboards,
               NEW i \in DOMAIN received'[e], NEW j \in DOMAIN received'[e],
               NEW k \in DOMAIN received'[f], NEW l \in DOMAIN received'[f],
               i < j, k < l, received'[e][i] = received'[f][l],
               received'[e][j] = received'[f][k]
        PROVE  FALSE
    <3>1. b = Subscriber /\ Casting(Subscriber)' /\ cast'[Subscriber].event = event
      BY <1>1, <1>8, <2>0, RoundsDiffer
    <3>2. /\ i \in 1..Len(received'[e]) /\ j \in 1..Len(received'[e])
          /\ k \in 1..Len(received'[f]) /\ l \in 1..Len(received'[f])
          /\ Len(received'[e]) \in Nat /\ Len(received'[f]) \in Nat
      BY <1>4
    <3>3. \A x \in Dashboards : \A m \in 1..Len(received'[x]) :
             received'[x][m] = event => m = Len(received'[x])
      BY <1>12, <3>1 DEF LastOfRound
    <3>4. received'[f][k] # event /\ received'[e][i] # event
      BY <2>0, <3>2, <3>3
    <3>5. Old(e, i) /\ Old(e, j) /\ Old(f, k) /\ Old(f, l)
      BY <1>5, <2>0, <3>2, <3>4
    <3>6. /\ i \in DOMAIN received[e] /\ j \in DOMAIN received[e]
          /\ k \in DOMAIN received[f] /\ l \in DOMAIN received[f]
          /\ received[e][i] = received[f][l] /\ received[e][j] = received[f][k]
      BY <1>2, <2>0, <3>5
    <3>7. QED
      BY <2>0, <3>6 DEF DashboardsAgree
  <2>1. transport' = transport
    BY <1>1
  <2>2. QED
    BY <2>0, <2>1 DEF DashboardsAgree
<1>15. QED
  BY <1>9, <1>10, <1>11, <1>12, <1>13, <1>14

\* The subscriber begins the round of the event that has waited longest.
LEMMA ReceiveKeepsOrder ==
    ASSUME Inv, Order, Receive, UNCHANGED <<at, wire>>
    PROVE  Order'
<1> USE DEF Inv, TypeOK, Order
<1> DEFINE h == Head(inbox)
<1>1. /\ inbox # <<>> /\ inbox' = Tail(inbox) /\ subscriber = "listening"
      /\ cast' = [cast EXCEPT ![Subscriber] =
                     [event |-> h, over |-> connections, visited |-> {}, stale |-> {}]]
      /\ UNCHANGED <<transport, subscriber, received>>
  BY DEF Receive, Begun
<1>2. /\ inbox \in Seq(Calls) /\ Len(inbox) \in Nat /\ 1 \in 1..Len(inbox) /\ h = inbox[1]
      /\ \A i \in 1..Len(inbox') : i + 1 \in 1..Len(inbox) /\ inbox'[i] = inbox[i + 1]
                                   /\ i + 1 # 1
  BY <1>1, Indices, EmptySeq, HeadTailProperties
<1>3. h \in Calls
  BY <1>2, ElementOfSeq
<1> HIDE DEF h
<1>4. /\ cast'[Subscriber].event = h /\ cast'[Subscriber].visited = {}
      /\ \A b \in Casters : b # Subscriber => cast'[b] = cast[b]
  BY <1>1, Indices DEF HubTypeOK
<1>5. transport = "redis"
  BY <1>1 DEF OneTransport, HubTypeOK
<1>6. \A x, d : WasSent(x, d)' <=> WasSent(x, d)
  BY <1>1 DEF WasSent
<1>7. \A d \in Dashboards : ~ WasSent(h, d)
  BY <1>2 DEF NotYetSent
<1>8. NotYetSent'
  <2>1. \A c \in Calls : Fresh(c)' => Fresh(c)
    BY DEF Fresh
  <2>2. \A c \in Calls : Fresh(c) => h # c
    BY <1>2 DEF NotYetSent
  <2>3. \A i \in 1..Len(inbox') : h # inbox'[i] /\ \A d \in Dashboards : ~ WasSent(inbox'[i], d)
    BY <1>2 DEF NotYetSent
  <2>4. \A i, j \in 1..Len(inbox') : inbox'[i] = inbox'[j] => i = j
    <3> SUFFICES ASSUME NEW i \in 1..Len(inbox'), NEW j \in 1..Len(inbox'), inbox'[i] = inbox'[j]
                 PROVE  i = j
      OBVIOUS
    <3>1. i + 1 = j + 1
      BY <1>2 DEF NotYetSent
    <3>2. i \in Int /\ j \in Int
      OBVIOUS
    <3>3. QED
      BY <3>1, <3>2
  <2>5. \A c \in Calls : Fresh(c) => \A i \in 1..Len(inbox') : inbox'[i] # c
    BY <1>2 DEF NotYetSent
  <2>6. \A c \in Calls : Fresh(c) => \A d \in Dashboards : ~ WasSent(c, d)
    BY DEF NotYetSent
  <2>7. \A d : \A i : WasSent(inbox'[i], d) <=> WasSent(inbox[i], d)'
    BY <1>1 DEF WasSent
  <2>8. QED
    BY <1>4, <1>6, <2>1, <2>2, <2>3, <2>4, <2>5, <2>6, <2>7 DEF NotYetSent
<1>9. OneTransport' /\ OwnRounds'
  BY <1>1, <1>4, <1>5, Indices DEF OneTransport, OwnRounds, Casting
<1>10. VisitedOnce' /\ LastOfRound'
  <2>1. ASSUME NEW b \in Casters, Casting(b)', NEW d \in Dashboards, NEW x,
               x = cast'[b].event, WasSent(x, d)
        PROVE  d \in cast'[b].visited
    BY <1>4, <1>7, <2>1 DEF VisitedOnce, Casting
  <2>2. \A d \in Dashboards : \A i \in 1..Len(received'[d]) : received'[d][i] # h
    BY <1>1, <1>7 DEF WasSent
  <2>3. QED
    BY <1>4, <1>1, <2>1, <2>2 DEF VisitedOnce, LastOfRound, WasSent
<1>11. ShownOnce' /\ DashboardsAgree'
  BY <1>1 DEF ShownOnce, DashboardsAgree
<1>12. QED
  BY <1>8, <1>9, <1>10, <1>11

\* What a handler leaves fresh is what was.
LEMMA HandedOver ==
    ASSUME Inv, NEW c \in Calls, Publish(c) \/ Broadcast(c) \/ Answer(c)
    PROVE  ~ Fresh(c)' /\ \A x \in Calls : Fresh(x)' => Fresh(x)
<1>1. wire[c] \in {"stored", "casting"} /\ at[c] \in {"posting", "done"} /\ at' = at
  <2>1. wire[c] \in {"stored", "casting"}
    BY DEF Publish, Broadcast, Answer, Finished, Aborted, Inv, RoundsAreAwaited
  <2>2. at[c] \in Places
    BY DEF Inv, TypeOK
  <2>3. at[c] \in {"posting", "done"}
    BY <2>1, <2>2 DEF Inv, WireAtPlace, Places
  <2>4. QED
    BY <2>1, <2>3 DEF Publish, Broadcast, Answer, clientVars
<1>2. /\ wire'[c] \in {"none", "ok", "failed", "casting"}
      /\ \A x \in Calls : x # c => wire'[x] = wire[x]
  BY DEF Publish, Broadcast, Answer, Answers, OnWire, Inv, TypeOK
<1>3. QED
  BY <1>1, <1>2 DEF Fresh

\* Redis takes the event, or nobody is listening.
LEMMA PublishKeepsOrder ==
    ASSUME Inv, Order, NEW c \in Calls, Publish(c)
    PROVE  Order'
<1> USE DEF Inv, TypeOK, Order
<1>1. /\ transport = "redis" /\ Fresh(c)
      /\ inbox' = inbox \/ inbox' = Append(inbox, c)
      /\ UNCHANGED <<transport, subscriber, cast, received>>
  BY DEF Publish, Published, Fresh
<1>2. ~ Fresh(c)' /\ \A x \in Calls : Fresh(x)' => Fresh(x)
  BY HandedOver
<1>3. Len(inbox) \in Nat /\ inbox \in Seq(Calls)
  BY Indices
<1> DEFINE n == Len(inbox)
<1>4. \A i \in 1..Len(inbox') : \/ i \in 1..n /\ inbox'[i] = inbox[i]
                                \/ i = n + 1 /\ inbox'[i] = c
  <2>1. CASE inbox' = inbox
    BY <2>1
  <2>2. CASE inbox' = Append(inbox, c)
    BY <1>3, <2>2, AppendProperties
  <2>3. QED
    BY <1>1, <2>1, <2>2
<1>5. \A x, d : WasSent(x, d)' <=> WasSent(x, d)
  BY <1>1 DEF WasSent
<1>6. NotYetSent'
  <2>1. \A x \in Calls : Fresh(x)' => \A i \in 1..Len(inbox') : inbox'[i] # x
    BY <1>2, <1>4 DEF NotYetSent
  <2>2. \A i \in 1..Len(inbox') : /\ cast[Subscriber].event # inbox'[i]
                                  /\ \A d \in Dashboards : ~ WasSent(inbox'[i], d)
    BY <1>1, <1>4 DEF NotYetSent
  <2>3. \A i, j \in 1..Len(inbox') : inbox'[i] = inbox'[j] => i = j
    BY <1>1, <1>4 DEF NotYetSent
  <2>4. \A x \in Calls : Fresh(x)' => /\ cast[Subscriber].event # x
                                      /\ \A d \in Dashboards : ~ WasSent(x, d)
    BY <1>2 DEF NotYetSent
  <2>5. \A i, d : WasSent(inbox[i], d)' <=> WasSent(inbox'[i], d)
    BY <1>1 DEF WasSent
  <2>6. QED
    BY <1>1, <1>5, <2>1, <2>2, <2>3, <2>4, <2>5 DEF NotYetSent
<1>7. OneTransport' /\ OwnRounds' /\ VisitedOnce' /\ LastOfRound'
  BY <1>1, <1>5 DEF OneTransport, OwnRounds, VisitedOnce, LastOfRound, Casting, WasSent
<1>8. ShownOnce' /\ DashboardsAgree'
  BY <1>1 DEF ShownOnce, DashboardsAgree
<1>9. QED
  BY <1>6, <1>7, <1>8

\* Without Redis the handler begins a round of its own.
LEMMA BroadcastKeepsOrder ==
    ASSUME Inv, Order, NEW c \in Calls, Broadcast(c)
    PROVE  Order'
<1> USE DEF Inv, TypeOK, Order
<1>1. /\ transport = "local" /\ Fresh(c)
      /\ cast' = [cast EXCEPT ![c] =
                     [event |-> c, over |-> connections, visited |-> {}, stale |-> {}]]
      /\ UNCHANGED <<transport, inbox, subscriber, received>>
  BY DEF Broadcast, Begun, Fresh
<1>2. ~ Fresh(c)' /\ \A x \in Calls : Fresh(x)' => Fresh(x)
  BY HandedOver
<1>3. /\ cast'[c].event = c /\ cast'[c].visited = {} /\ c # Subscriber
      /\ \A b \in Casters : b # c => cast'[b] = cast[b]
  BY <1>1, Indices DEF HubTypeOK
<1>4. \A x, d : WasSent(x, d)' <=> WasSent(x, d)
  BY <1>1 DEF WasSent
<1>5. \A d \in Dashboards : ~ WasSent(c, d)
  BY <1>1 DEF NotYetSent
<1>6. cast'[Subscriber] = cast[Subscriber]
  BY <1>3, Indices
<1>7. NotYetSent'
  <2>1. \A i, d : WasSent(inbox[i], d)' <=> WasSent(inbox[i], d)
    BY <1>1 DEF WasSent
  <2>2. QED
    BY <1>1, <1>2, <1>4, <1>6, <2>1 DEF NotYetSent
<1>8. OneTransport' /\ OwnRounds' /\ LastOfRound'
  BY <1>1, <1>3, <1>6, Indices DEF OneTransport, OwnRounds, LastOfRound, Casting
<1>9. VisitedOnce'
  <2>1. ASSUME NEW b \in Casters, Casting(b)', NEW d \in Dashboards, NEW x,
               x = cast'[b].event, WasSent(x, d)
        PROVE  d \in cast'[b].visited
    BY <1>3, <1>5, <2>1 DEF VisitedOnce, Casting
  <2>2. QED
    BY <1>1, <2>1 DEF VisitedOnce, WasSent
<1>10. ShownOnce' /\ DashboardsAgree'
  BY <1>1 DEF ShownOnce, DashboardsAgree
<1>11. QED
  BY <1>7, <1>8, <1>9, <1>10

\* Every step keeps the order of what is shown.
LEMMA NextOrder == Inv /\ Order /\ [Next]_vars => Order'
<1> SUFFICES ASSUME Inv, Order, [Next]_vars PROVE Order'
  OBVIOUS
<1> USE DEF Inv, TypeOK
<1>1. ASSUME NEW c \in Calls, Client(c) PROVE Order'
  <2>1. UNCHANGED hubVars
    BY <1>1 DEF Client, Initialize, Registered, RegistrationFails, SessionStarted, SendTelemetry,
                Post, Count, GiveUp, StopSession
  <2>2. \A x \in Calls : Fresh(x)' => Fresh(x)
    BY <1>1 DEF Client, Initialize, Registered, RegistrationFails, SessionStarted, SendTelemetry,
                Post, Count, GiveUp, StopSession, Go, OnWire, End, Answered, Fresh, WireAtPlace
  <2>3. QED
    BY <2>1, <2>2, NothingSent DEF hubVars
<1>2. ASSUME NEW c \in Calls, CreateSession(c) \/ StopDrive(c) \/ Insert(c) \/ RequestFails(c)
      PROVE  Order'
  <2>1. UNCHANGED hubVars
    BY <1>2 DEF CreateSession, StopDrive, Insert, RequestFails
  <2>2. \A x \in Calls : Fresh(x)' => Fresh(x)
    BY <1>2 DEF CreateSession, StopDrive, Insert, RequestFails, Answers, OnWire, Fresh, clientVars
  <2>3. QED
    BY <2>1, <2>2, NothingSent DEF hubVars
<1>3. ASSUME NEW c \in Calls, Publish(c) \/ Broadcast(c) \/ Answer(c) PROVE Order'
  <2>1. CASE Answer(c)
    <3>1. \A b \in Casters : cast'[b] = cast[b] \/ cast'[b] = Quiet
      BY <2>1 DEF Answer, Finished, Aborted, HubTypeOK
    <3>2. UNCHANGED <<transport, inbox, subscriber, received>>
      BY <2>1 DEF Answer
    <3>3. QED
      BY <2>1, <3>1, <3>2, HandedOver, NothingSent
  <2>2. QED
    BY <1>3, <2>1, PublishKeepsOrder, BroadcastKeepsOrder
<1>4. CASE Hub
  <2>1. HubNext /\ UNCHANGED <<at, wire>>
    BY <1>4 DEF Hub, clientVars
  <2>2. \A x \in Calls : Fresh(x)' => Fresh(x)
    BY <2>1 DEF Fresh
  <2>3. ASSUME NEW b \in Casters, NEW d \in Dashboards, Send(b, d) PROVE Order'
    BY <2>1, <2>3, SendKeepsOrder
  <2>4. CASE Receive
    BY <2>1, <2>4, ReceiveKeepsOrder
  <2>5. CASE Received
    <3>1. \A b \in Casters : cast'[b] = cast[b] \/ cast'[b] = Quiet
      BY <2>5 DEF Received, Finished, Aborted, HubTypeOK
    <3>2. QED
      BY <2>2, <2>5, <3>1, NothingSent DEF Received
  <2>6. ASSUME NEW d \in Dashboards,
               Connect(d) \/ PeerCloses(d) \/ Disconnect(d) \/ HandlerFails(d)
        PROVE  Order'
    BY <2>2, <2>6, NothingSent DEF Connect, PeerCloses, Disconnect, HandlerFails
  <2>7. CASE Subscribe \/ SubscribeFails \/ ListenFails \/ Retry \/ RedisFails \/ RedisRecovers
    BY <2>2, <2>7, NothingSent
       DEF Subscribe, SubscribeFails, ListenFails, Retry, RedisFails, RedisRecovers
  <2>8. QED
    BY <2>1, <2>3, <2>4, <2>5, <2>6, <2>7 DEF HubNext
<1>5. CASE UNCHANGED vars
  <2>1. UNCHANGED hubVars /\ \A x \in Calls : Fresh(x)' => Fresh(x)
    BY <1>5 DEF vars, clientVars, Fresh
  <2>2. QED
    BY <2>1, NothingSent DEF hubVars
<1>6. QED
  BY <1>1, <1>2, <1>3, <1>4, <1>5 DEF Next, Server

\* Whatever fails and comes back, rounds are in order.
LEMMA OrderInvariance == Spec => []Order
<1>1. QED
  BY InitOrder, Invariance, NextOrder, PTL DEF Spec

\* No dashboard is sent an event twice, over timeouts, failures of Redis,
\* reconnections of the subscriber and broadcasts that are cut short.
THEOREM NothingTwice == Spec => []ShownOnce
<1>1. Order => ShownOnce
  BY DEF Order
<1>2. QED
  BY OrderInvariance, <1>1, PTL

\* With Redis no two dashboards see two events in different orders.
THEOREM OneOrder == Spec => []DashboardsAgree
<1>1. Order => DashboardsAgree
  BY DEF Order
<1>2. QED
  BY OrderInvariance, <1>1, PTL

-----------------------------------------------------------------------------
(* Nobody left out *)

\* Whom a round has come to and could send to has its event.
Served ==
    \A b \in Casters : Casting(b) =>
        \A d \in cast[b].visited \ cast[b].stale : WasSent(cast[b].event, d)

\* A send adds to what its dashboard has, and takes nothing from the others.
LEMMA SendAdds ==
    ASSUME HubTypeOK, NEW b \in Casters, NEW d \in Dashboards, Send(b, d)
    PROVE  /\ \A x : \A e \in Dashboards : WasSent(x, e) => WasSent(x, e)'
           /\ d \in cast'[b].stale \/ \A x : x = cast[b].event => WasSent(x, d)'
<1> DEFINE event == cast[b].event
           n == Len(received[d])
<1>1. n \in Nat /\ received[d] \in Seq(Calls) /\ event \in Calls
  BY Indices, SendExact
<1>2. received'[d] = Append(received[d], event) =>
         /\ Len(received'[d]) = n + 1 /\ received'[d][n + 1] = event
         /\ \A i \in 1..n : received'[d][i] = received[d][i]
  BY <1>1, AppendProperties
<1> HIDE DEF event, n
<1>3. ASSUME NEW x, NEW e \in Dashboards, WasSent(x, e) PROVE WasSent(x, e)'
  <2>1. PICK i \in 1..Len(received[e]) : received[e][i] = x
    BY <1>3 DEF WasSent
  <2>2. CASE received'[e] = received[e]
    BY <2>1, <2>2 DEF WasSent
  <2>3. CASE e = d /\ received'[d] = Append(received[d], event)
    <3>1. i \in 1..n /\ i \in 1..Len(received'[d]) /\ received'[d][i] = x
      BY <1>1, <1>2, <2>1, <2>3 DEF n
    <3>2. QED
      BY <2>3, <3>1 DEF WasSent
  <2>4. QED
    BY <2>2, <2>3, SendExact DEF event
<1>4. ASSUME received'[d] = Append(received[d], event), NEW x, x = event
      PROVE  WasSent(x, d)'
  <2>1. n + 1 \in 1..Len(received'[d]) /\ received'[d][n + 1] = x
    BY <1>1, <1>2, <1>4
  <2>2. QED
    BY <2>1 DEF WasSent
<1>5. QED
  BY <1>3, <1>4, SendExact DEF event

\* A send serves its dashboard, or finds it stale.
LEMMA SendServes ==
    ASSUME HubTypeOK, Served, NEW b \in Casters, NEW d \in Dashboards, Send(b, d)
    PROVE  Served'
<1>1. /\ \A x \in Casters : x # b => cast'[x] = cast[x]
      /\ cast'[b].event = cast[b].event /\ Casting(b)
      /\ cast'[b].visited = cast[b].visited \cup {d}
      /\ cast[b].stale \subseteq cast'[b].stale
  BY SendExact
<1>2. /\ \A x : \A e \in Dashboards : WasSent(x, e) => WasSent(x, e)'
      /\ d \in cast'[b].stale \/ \A x : x = cast[b].event => WasSent(x, d)'
  BY SendAdds
<1>3. \A x \in Casters : cast[x].visited \subseteq Dashboards
  BY DEF HubTypeOK
<1>4. ASSUME NEW x \in Casters, Casting(x)', NEW e \in cast'[x].visited \ cast'[x].stale,
             NEW y, y = cast'[x].event
      PROVE  WasSent(y, e)'
  <2>1. CASE x # b
    BY <1>1, <1>2, <1>3, <1>4, <2>1 DEF Served, Casting
  <2>2. CASE x = b /\ e # d
    BY <1>1, <1>2, <1>3, <1>4, <2>2 DEF Served
  <2>3. CASE x = b /\ e = d
    BY <1>1, <1>2, <1>4, <2>3
  <2>4. QED
    BY <2>1, <2>2, <2>3
<1>5. QED
  BY <1>4 DEF Served, WasSent

\* A step that sends nothing, and at most begins a round or ends one.
LEMMA StillServed ==
    ASSUME Served, received' = received,
           \A b \in Casters : cast'[b] = cast[b] \/ cast'[b].visited = {}
    PROVE  Served'
  BY DEF Served, WasSent, Casting

\* A round may begin, and then has come to nobody.
LEMMA FreshRound ==
    ASSUME HubTypeOK, NEW b \in Casters, NEW event, Begun(b, event)
    PROVE  \A x \in Casters : cast'[x] = cast[x] \/ cast'[x].visited = {}
  BY DEF HubTypeOK, Begun

\* A round may end, and then it is no more.
LEMMA EndedRound ==
    ASSUME HubTypeOK, NEW b \in Casters, Finished(b) \/ Aborted(b)
    PROVE  \A x \in Casters : cast'[x] = cast[x] \/ cast'[x].visited = {}
  BY DEF HubTypeOK, Finished, Aborted, Quiet

\* Every step keeps the rounds served.
LEMMA NextServed == Inv /\ Served /\ [Next]_vars => Served'
<1> SUFFICES ASSUME Inv, Served, [Next]_vars PROVE Served'
  OBVIOUS
<1> USE DEF Inv, TypeOK
<1>1. ASSUME NEW c \in Calls, Client(c) PROVE Served'
  BY <1>1, StillServed DEF Client, Initialize, Registered, RegistrationFails, SessionStarted,
     SendTelemetry, Post, Count, GiveUp, StopSession, hubVars
<1>2. ASSUME NEW c \in Calls, Server(c) PROVE Served'
  <2>0. c \in Casters
    BY DEF Casters
  <2>1. CASE CreateSession(c) \/ StopDrive(c) \/ Insert(c) \/ RequestFails(c) \/ Publish(c)
    BY <2>1, StillServed DEF CreateSession, StopDrive, Insert, RequestFails, Publish, hubVars
  <2>2. CASE Broadcast(c)
    BY <2>0, <2>2, FreshRound, StillServed DEF Broadcast
  <2>3. CASE Answer(c)
    BY <2>0, <2>3, EndedRound, StillServed DEF Answer
  <2>4. QED
    BY <1>2, <2>1, <2>2, <2>3 DEF Server
<1>3. CASE Hub
  <2>0. Subscriber \in Casters
    BY DEF Casters
  <2>1. ASSUME NEW b \in Casters, NEW d \in Dashboards, Send(b, d) PROVE Served'
    BY <2>1, SendServes
  <2>2. CASE Receive
    BY <2>0, <2>2, FreshRound, StillServed DEF Receive
  <2>3. CASE Received
    BY <2>0, <2>3, EndedRound, StillServed DEF Received
  <2>4. CASE UNCHANGED <<cast, received>>
    BY <2>4, StillServed
  <2>5. QED
    BY <1>3, <2>1, <2>2, <2>3, <2>4
       DEF Hub, HubNext, Connect, PeerCloses, Disconnect, HandlerFails, Subscribe,
           SubscribeFails, ListenFails, Retry, RedisFails, RedisRecovers
<1>4. CASE UNCHANGED vars
  BY <1>4, StillServed DEF vars, hubVars
<1>5. QED
  BY <1>1, <1>2, <1>3, <1>4 DEF Next

\* A round that ends in order has been sent to every dashboard that was in the set
\* from its start to its end (ConnectionManager.broadcast).
THEOREM NobodyLeftOut == Spec => BroadcastReachesAll
<1>1. Init => Served
  BY DEF Init, HubInit, Served, Casting, Quiet
<1>2. ASSUME Inv, Served, NEW b \in Casters, Finished(b),
             NEW d \in cast[b].over \cap connections'
      PROVE  \E i \in DOMAIN received[d] : received[d][i] = cast[b].event
  <2>1. d \in cast[b].visited \ cast[b].stale /\ Casting(b)
    BY <1>2 DEF Finished
  <2>2. WasSent(cast[b].event, d) /\ d \in Dashboards
    BY <1>2, <2>1 DEF Served, Inv, TypeOK, HubTypeOK
  <2>3. QED
    BY <1>2, <2>2, Indices DEF WasSent, Inv, TypeOK
<1>3. Inv /\ Served /\ [Next]_vars =>
        [\A b \in Casters :
            Finished(b) => \A d \in cast[b].over \cap connections' :
                \E i \in DOMAIN received[d] : received[d][i] = cast[b].event]_vars
  BY <1>2
<1>4. QED
  BY <1>1, <1>3, Invariance, NextServed, PTL DEF Spec, BroadcastReachesAll

-----------------------------------------------------------------------------
(* PhoneNavigation: the inductive invariant *)

ScreenState ==
    [life : {"unopened", "shown", "closed"},
     gps : {"asking", "last", "current", "listening", "ended"},
     lastPos : Fixes, seen : Fixes, tunnel : BOOLEAN, canyon : BOOLEAN,
     hasGpsFix : BOOLEAN, position : Position, speed : Speeds,
     stationaryCounter : 0..StillSamples]

Waiting == [load : Screens] \cup [save : Fixes]
Write == [key : {"lat", "lon"}, value : Fixes]
Preferences == [lat : Fixes \cup {Absent}, lon : Fixes \cup {Absent}]

\* Values are written through preferences that were loaded.
LoadedFirst == prefs = Absent => writes = <<>>

\* A screen that has left neither its fix nor its lock shows a fix, in a tunnel test too.
FixIsKept ==
    \A s \in Screens \ strayed :
        screen[s].hasGpsFix => \E n \in Fixes \ {0} : screen[s].position = Of(n)

\* In its one outage a session's counter is the number of still samples in a row.
CounterIsQuiet ==
    \A s \in Sessions :
        /\ screen[s].life = "unopened" => quiet[s] = 0
        /\ Mounted(s) /\ Outage(s) => quiet[s] = screen[s].stationaryCounter

ScreensInv == ScreensTypeOK /\ LoadedFirst /\ FixIsKept /\ CounterIsQuiet

-----------------------------------------------------------------------------
(* The kinds of things *)

\* What the bounds say of fixes.
LEMMA FixNumbers ==
    /\ MaxFixes \in Nat /\ Fixes = 0..MaxFixes /\ 0 \in Fixes /\ StillSamples \in Nat \ {0}
    /\ \A n \in Fixes \ {0} : FixSpeed[n] \in Speeds \cup {Absent}
    /\ \A n \in Fixes : n # Absent
  BY ScreenAssumption DEF Fixes

\* The preferences are never mistaken for none.
LEMMA PreferencesAreThere == \A p \in Preferences : p # Absent
  BY ScreenAssumption DEF Preferences, Fixes

\* The type invariant by its parts.
LEMMA TypeParts ==
    ScreensTypeOK <=>
        /\ fix \in Fixes /\ latest \in Fixes
        /\ screen \in [Screens -> ScreenState]
        /\ awaiting \in Seq(Waiting) /\ writes \in Seq(Write)
        /\ prefs \in Preferences \cup {Absent} /\ disk \in Preferences
        /\ strayed \subseteq Screens /\ quiet \in [Sessions -> 0..StillSamples]
  BY DEF ScreensTypeOK, ScreenState, Waiting, Write, Preferences

\* The position of a fix.
LEMMA PositionOfFix == \A n \in Fixes : Of(n) \in Position
  BY DEF Of, Position

\* A created screen, and one that is not open, are screens.
LEMMA FreshScreens ==
    /\ \A mode : /\ Created(mode) \in ScreenState /\ Created(mode).life = "shown"
                 /\ ~ Created(mode).hasGpsFix /\ Created(mode).stationaryCounter = 0
    /\ Unopened \in ScreenState /\ ~ Unopened.hasGpsFix /\ Unopened.life = "unopened"
<1>1. Of(0) \in Position /\ 0 \in Fixes /\ 0 \in 0..StillSamples
  BY PositionOfFix, FixNumbers
<1>2. \A mode : /\ Created(mode) \in ScreenState /\ Created(mode).life = "shown"
                /\ ~ Created(mode).hasGpsFix /\ Created(mode).stationaryCounter = 0
  BY <1>1 DEF Created, ScreenState, Speeds
<1>3. \A r \in ScreenState : /\ [r EXCEPT !.life = "unopened", !.gps = "ended"] \in ScreenState
                             /\ [r EXCEPT !.life = "unopened", !.gps = "ended"].life = "unopened"
                             /\ [r EXCEPT !.life = "unopened", !.gps = "ended"].hasGpsFix = r.hasGpsFix
  BY DEF ScreenState
<1>4. QED
  BY <1>2, <1>3 DEF Unopened

\* A process begins well.
LEMMA InitScreens == ScreensInit => ScreensInv
<1> SUFFICES ASSUME ScreensInit PROVE ScreensInv
  OBVIOUS
<1> USE DEF ScreensInit
<1>1. screen \in [Screens -> ScreenState] /\ \A s \in Screens : ~ screen[s].hasGpsFix
  BY FreshScreens DEF Started
<1>2. \A s \in Sessions : s \in Screens /\ s # Home /\ screen[s] = Unopened
  BY ScreenAssumption DEF Started, Screens
<1>3. /\ fix \in Fixes /\ latest \in Fixes /\ disk \in Preferences
      /\ quiet \in [Sessions -> 0..StillSamples]
  BY ScreenAssumption, FixNumbers DEF Fixes, Preferences
<1>4. Home \in Screens /\ awaiting \in Seq(Waiting) /\ writes \in Seq(Write)
  <2>1. [load |-> Home] \in Waiting
    BY DEF Waiting, Screens
  <2>2. QED
    BY <2>1, EmptySeq DEF Screens
<1>5. ScreensTypeOK
  BY <1>1, <1>3, <1>4, TypeParts
<1>6. LoadedFirst /\ FixIsKept
  BY <1>1 DEF LoadedFirst, FixIsKept
<1>7. CounterIsQuiet
  BY <1>2, FreshScreens DEF CounterIsQuiet, Mounted
<1>8. QED
  BY <1>5, <1>6, <1>7 DEF ScreensInv

-----------------------------------------------------------------------------
(* The sources of positions *)

\* The same screen, further on with its questions to the platform.
FurtherOn(new, old) ==
    /\ new.life = old.life /\ new.tunnel = old.tunnel /\ new.hasGpsFix = old.hasGpsFix
    /\ new.position = old.position /\ new.stationaryCounter = old.stationaryCounter

\* Asking on changes nothing that is shown.
LEMMA AskingOn ==
    ASSUME NEW old \in ScreenState, NEW n \in Fixes,
           NEW place \in {"asking", "last", "current", "listening", "ended"}
    PROVE  /\ [old EXCEPT !.gps = place] \in ScreenState
           /\ FurtherOn([old EXCEPT !.gps = place], old)
           /\ [old EXCEPT !.gps = place, !.lastPos = n] \in ScreenState
           /\ FurtherOn([old EXCEPT !.gps = place, !.lastPos = n], old)
           /\ [old EXCEPT !.seen = n] \in ScreenState
           /\ FurtherOn([old EXCEPT !.seen = n], old)
  BY DEF ScreenState, FurtherOn

\* A step of a source shows a fix on its screen, or keeps what it shows.
SourceStep(s) == Permission(s) \/ LastKnown(s) \/ CurrentPosition(s) \/ PositionUpdate(s)

LEMMA SourceEffect ==
    ASSUME ScreensTypeOK, NEW s \in Screens, SourceStep(s)
    PROVE  /\ \E new \in ScreenState :
                 /\ FurtherOn(new, screen[s])
                 /\ Keep(s, new) \/ \E n \in Fixes \ {0} : Show(s, n, new)
           /\ UNCHANGED <<fix, prefs, writes, disk, quiet>>
<1>1. fix \in Fixes /\ 0 \in Fixes /\ screen[s] \in ScreenState /\ screen[s].lastPos \in Fixes
      /\ screen[s].seen \in Fixes /\ Fixes \subseteq Nat
  BY TypeParts, FixNumbers DEF ScreenState
<1>2. ASSUME NEW place \in {"asking", "last", "current", "listening", "ended"}, NEW n \in Fixes
      PROVE  /\ [screen[s] EXCEPT !.gps = place] \in ScreenState
             /\ FurtherOn([screen[s] EXCEPT !.gps = place], screen[s])
             /\ [screen[s] EXCEPT !.gps = place, !.lastPos = n] \in ScreenState
             /\ FurtherOn([screen[s] EXCEPT !.gps = place, !.lastPos = n], screen[s])
             /\ [screen[s] EXCEPT !.seen = n] \in ScreenState
             /\ FurtherOn([screen[s] EXCEPT !.seen = n], screen[s])
  BY <1>1, AskingOn
<1>3. CASE Permission(s)
  <2>1. PICK place \in {"last", "ended"} : Keep(s, [screen[s] EXCEPT !.gps = place])
    BY <1>3 DEF Permission
  <2>2. QED
    BY <1>1, <1>2, <1>3, <2>1 DEF Permission
<1>4. CASE LastKnown(s)
  <2> DEFINE new(n) == [screen[s] EXCEPT !.gps = "current", !.lastPos = n]
  <2>1. PICK n \in {0, fix} : IF n # 0 /\ Mounted(s) THEN Show(s, n, new(n)) ELSE Keep(s, new(n))
    BY <1>4 DEF LastKnown
  <2>2. n \in Fixes /\ new(n) \in ScreenState /\ FurtherOn(new(n), screen[s])
    BY <1>1, <1>2, <2>1
  <2> HIDE DEF new
  <2>3. QED
    BY <1>4, <2>1, <2>2 DEF LastKnown
<1>5. CASE CurrentPosition(s)
  <2> DEFINE new(place) == [screen[s] EXCEPT !.gps = place, !.lastPos = 0]
  <2>1. PICK n \in {screen[s].lastPos, fix}, place \in {"listening", "ended"} :
            IF n # 0 /\ Mounted(s) THEN Show(s, n, new(place)) ELSE Keep(s, new(place))
    BY <1>5 DEF CurrentPosition
  <2>2. n \in Fixes /\ new(place) \in ScreenState /\ FurtherOn(new(place), screen[s])
    BY <1>1, <1>2, <2>1
  <2> HIDE DEF new
  <2>3. QED
    BY <1>5, <2>1, <2>2 DEF CurrentPosition
<1>6. CASE PositionUpdate(s)
  <2> DEFINE new == [screen[s] EXCEPT !.seen = fix]
  <2>1. IF Mounted(s) /\ ~ screen[s].tunnel THEN Show(s, fix, new) ELSE Keep(s, new)
    BY <1>6 DEF PositionUpdate
  <2>2. new \in ScreenState /\ FurtherOn(new, screen[s]) /\ fix # 0
    <3>1. "last" \in {"asking", "last", "current", "listening", "ended"}
      OBVIOUS
    <3>2. new \in ScreenState /\ FurtherOn(new, screen[s])
      BY <1>1, <1>2, <3>1
    <3>3. fix # 0
      BY <1>1, <1>6 DEF PositionUpdate
    <3>4. QED
      BY <3>2, <3>3
  <2>3. UNCHANGED <<fix, prefs, writes, disk, quiet>>
    BY <1>6 DEF PositionUpdate
  <2> HIDE DEF new
  <2>4. QED
    BY <1>1, <2>1, <2>2, <2>3
<1>7. QED
  BY <1>3, <1>4, <1>5, <1>6 DEF SourceStep

\* What is shown when a fix is.
LEMMA ShowEffect ==
    ASSUME ScreensTypeOK, NEW s \in Screens, NEW n \in Fixes \ {0}, NEW new \in ScreenState,
           Show(s, n, new)
    PROVE  /\ screen' \in [Screens -> ScreenState]
           /\ \A t \in Screens : t # s => screen'[t] = screen[t]
           /\ screen'[s].position = Of(n) /\ screen'[s].hasGpsFix
           /\ screen'[s].life = new.life /\ screen'[s].tunnel = new.tunnel
           /\ screen'[s].stationaryCounter = new.stationaryCounter
           /\ awaiting' \in Seq(Waiting) /\ awaiting' = Append(awaiting, [save |-> n])
           /\ latest' = n /\ strayed' = strayed \ {s}
<1> DEFINE speed == IF FixSpeed[n] = Absent THEN new.speed ELSE FixSpeed[n]
           shown == [new EXCEPT !.position = Of(n), !.hasGpsFix = TRUE, !.speed = speed]
<1>1. screen' = [screen EXCEPT ![s] = shown]
  BY DEF Show
<1>2. Of(n) \in Position /\ speed \in Speeds
  BY FixNumbers, PositionOfFix DEF ScreenState
<1> HIDE DEF speed
<1>3. /\ shown \in ScreenState
      /\ shown.position = Of(n) /\ shown.hasGpsFix
      /\ shown.life = new.life /\ shown.tunnel = new.tunnel
      /\ shown.stationaryCounter = new.stationaryCounter
  BY <1>2 DEF ScreenState
<1> HIDE DEF shown
<1>4. /\ screen' \in [Screens -> ScreenState] /\ screen'[s] = shown
      /\ \A t \in Screens : t # s => screen'[t] = screen[t]
  BY <1>1, <1>3, TypeParts
<1>5. [save |-> n] \in Waiting /\ awaiting \in Seq(Waiting)
  BY TypeParts DEF Waiting
<1>6. awaiting' = Append(awaiting, [save |-> n]) /\ latest' = n /\ strayed' = strayed \ {s}
  BY DEF Show
<1>7. QED
  BY <1>3, <1>4, <1>5, <1>6, AppendProperties

\* A source keeps the screens well.
LEMMA SourcePreserves ==
    ASSUME ScreensInv, NEW s \in Screens, SourceStep(s)
    PROVE  ScreensInv'
<1> USE DEF ScreensInv
<1>0. PICK new \in ScreenState : /\ FurtherOn(new, screen[s])
                                 /\ Keep(s, new) \/ \E n \in Fixes \ {0} : Show(s, n, new)
  BY SourceEffect
<1>1. UNCHANGED <<fix, prefs, writes, disk, quiet>>
  BY SourceEffect
<1>2. CASE Keep(s, new)
  <2>1. /\ screen' \in [Screens -> ScreenState] /\ screen'[s] = new
        /\ \A t \in Screens : t # s => screen'[t] = screen[t]
        /\ UNCHANGED <<awaiting, latest, strayed>>
    BY <1>2, TypeParts DEF Keep
  <2>2. ScreensTypeOK'
    BY <1>1, <2>1, TypeParts DEF ScreensTypeOK, ScreenState
  <2>3. LoadedFirst'
    BY <1>1 DEF LoadedFirst
  <2>4. FixIsKept'
    BY <1>0, <2>1 DEF FixIsKept, FurtherOn
  <2>5. CounterIsQuiet'
    BY <1>0, <1>1, <2>1 DEF CounterIsQuiet, FurtherOn, Mounted, Outage, Screens
  <2>6. QED
    BY <2>2, <2>3, <2>4, <2>5
<1>3. ASSUME NEW n \in Fixes \ {0}, Show(s, n, new) PROVE ScreensInv'
  <2>1. /\ screen' \in [Screens -> ScreenState]
        /\ \A t \in Screens : t # s => screen'[t] = screen[t]
        /\ screen'[s].position = Of(n) /\ screen'[s].hasGpsFix
        /\ screen'[s].life = new.life /\ screen'[s].tunnel = new.tunnel
        /\ screen'[s].stationaryCounter = new.stationaryCounter
        /\ awaiting' \in Seq(Waiting) /\ latest' = n /\ strayed' = strayed \ {s}
    BY <1>3, ShowEffect
  <2>2. ScreensTypeOK'
    BY <1>1, <2>1, TypeParts DEF ScreensTypeOK, ScreenState, Waiting
  <2>3. LoadedFirst'
    BY <1>1 DEF LoadedFirst
  <2>4. FixIsKept'
    BY <2>1 DEF FixIsKept
  <2>5. CounterIsQuiet'
    BY <1>0, <1>1, <2>1 DEF CounterIsQuiet, FurtherOn, Mounted, Outage, Screens
  <2>6. QED
    BY <2>2, <2>3, <2>4, <2>5
<1>4. QED
  BY <1>0, <1>2, <1>3

-----------------------------------------------------------------------------
(* The preferences *)

\* What the preferences' steps leave alone.
LEMMA ScreensUntouched ==
    ASSUME ScreensInv, UNCHANGED <<screen, strayed, quiet>>
    PROVE  FixIsKept' /\ CounterIsQuiet'
  BY DEF ScreensInv, FixIsKept, CounterIsQuiet, Mounted, Outage

\* A value of the preferences may be replaced by a fix.
LEMMA PreferencesSet ==
    ASSUME NEW p \in Preferences, NEW n \in Fixes
    PROVE  /\ [p EXCEPT !.lat = n] \in Preferences /\ [p EXCEPT !.lon = n] \in Preferences
           /\ [p EXCEPT !.lat = n].lat = n /\ [p EXCEPT !.lat = n].lon = p.lon
           /\ [p EXCEPT !.lon = n].lon = n /\ [p EXCEPT !.lon = n].lat = p.lat
  BY DEF Preferences

\* What goes on awaits no more.
LEMMA AwaitingOn ==
    ASSUME ScreensTypeOK, awaiting # <<>>
    PROVE  Head(awaiting) \in Waiting /\ Tail(awaiting) \in Seq(Waiting)
  BY TypeParts, HeadTailProperties

\* What a save's first half does.
LEMMA ResumeSaveEffect ==
    ASSUME ScreensTypeOK, NEW n \in Fixes, ResumeSave(n)
    PROVE  /\ prefs \in Preferences /\ prefs' \in Preferences
           /\ prefs'.lat = n /\ prefs'.lon = prefs.lon
           /\ awaiting # <<>> /\ Head(awaiting) = [save |-> n]
           /\ awaiting' = Tail(awaiting) /\ awaiting' \in Seq(Waiting)
           /\ writes' = Append(writes, [key |-> "lat", value |-> n]) /\ writes' \in Seq(Write)
           /\ UNCHANGED <<fix, screen, disk, latest, strayed, quiet>>
<1>1. prefs \in Preferences
  BY TypeParts DEF ResumeSave
<1>2. [key |-> "lat", value |-> n] \in Write
  BY DEF Write
<1>3. writes' \in Seq(Write)
  BY <1>2, TypeParts, AppendProperties DEF ResumeSave
<1>4. QED
  BY <1>1, <1>3, PreferencesSet, AwaitingOn DEF ResumeSave

\* What storing a value does.
LEMMA StoreEffect ==
    ASSUME ScreensTypeOK, LoadedFirst, StoreOldest
    PROVE  /\ writes # <<>> /\ prefs \in Preferences /\ prefs' \in Preferences
           /\ Head(writes) \in Write /\ Tail(writes) \in Seq(Write) /\ writes' \in Seq(Write)
           /\ disk' \in Preferences /\ prefs'.lat = prefs.lat
           /\ Head(writes).key = "lat" =>
                 /\ disk'.lat = Head(writes).value /\ disk'.lon = disk.lon
                 /\ prefs'.lon = Head(writes).value
                 /\ writes' = Append(Tail(writes), [key |-> "lon", value |-> Head(writes).value])
           /\ Head(writes).key # "lat" =>
                 /\ disk'.lon = Head(writes).value /\ disk'.lat = disk.lat
                 /\ prefs' = prefs /\ writes' = Tail(writes)
           /\ UNCHANGED <<fix, screen, awaiting, latest, strayed, quiet>>
<1> DEFINE w == Head(writes)
<1>1. writes # <<>> /\ prefs \in Preferences
  BY TypeParts DEF StoreOldest, LoadedFirst
<1>2. w \in Write /\ Tail(writes) \in Seq(Write) /\ disk \in Preferences
  BY <1>1, TypeParts, HeadTailProperties
<1>3. /\ disk' = [disk EXCEPT ![w.key] = w.value]
      /\ w.key = "lat" => /\ prefs' = [prefs EXCEPT !.lon = w.value]
                          /\ writes' = Append(Tail(writes), [key |-> "lon", value |-> w.value])
      /\ w.key # "lat" => prefs' = prefs /\ writes' = Tail(writes)
      /\ UNCHANGED <<fix, screen, awaiting, latest, strayed, quiet>>
  BY DEF StoreOldest
<1> HIDE DEF w
<1>4. w.value \in Fixes /\ w.key \in {"lat", "lon"}
  BY <1>2 DEF Write
<1>5. CASE w.key = "lat"
  <2>1. disk' = [disk EXCEPT !.lat = w.value]
    BY <1>3, <1>5
  <2>2. /\ disk' \in Preferences /\ disk'.lat = w.value /\ disk'.lon = disk.lon
        /\ prefs' \in Preferences /\ prefs'.lat = prefs.lat /\ prefs'.lon = w.value
    <3>1. disk' \in Preferences /\ disk'.lat = w.value /\ disk'.lon = disk.lon
      BY <1>2, <1>4, <2>1, PreferencesSet
    <3>2. prefs' = [prefs EXCEPT !.lon = w.value]
      BY <1>3, <1>5
    <3>3. prefs' \in Preferences /\ prefs'.lat = prefs.lat /\ prefs'.lon = w.value
      BY <1>1, <1>4, <3>2, PreferencesSet
    <3>4. QED
      BY <3>1, <3>3
  <2>3. [key |-> "lon", value |-> w.value] \in Write
    BY <1>4 DEF Write
  <2>4. writes' \in Seq(Write)
    BY <1>2, <1>3, <1>5, <2>3, AppendProperties
  <2>5. QED
    BY <1>1, <1>2, <1>3, <1>5, <2>2, <2>4 DEF w
<1>6. CASE w.key # "lat"
  <2>1. disk' = [disk EXCEPT !.lon = w.value]
    BY <1>3, <1>4, <1>6
  <2>2. disk' \in Preferences /\ disk'.lon = w.value /\ disk'.lat = disk.lat
    BY <1>2, <1>4, <2>1, PreferencesSet
  <2>3. QED
    BY <1>1, <1>2, <1>3, <1>6, <2>2 DEF w
<1>7. QED
  BY <1>5, <1>6

\* The steps of the preferences keep the screens well.
LEMMA PreferencesPreserve ==
    ASSUME ScreensInv,
           LoadPreferences \/ StoreOldest \/ NewFix \/ \E n \in Fixes : ResumeSave(n)
    PROVE  ScreensInv'
<1> USE DEF ScreensInv
<1>1. CASE LoadPreferences
  <2>1. ScreensTypeOK'
    BY <1>1 DEF LoadPreferences, ScreensTypeOK
  <2>2. LoadedFirst'
    BY <1>1 DEF LoadPreferences, LoadedFirst
  <2>3. QED
    BY <1>1, <2>1, <2>2, ScreensUntouched DEF LoadPreferences
<1>2. CASE StoreOldest
  <2>1. LoadedFirst'
    BY <1>2, StoreEffect, PreferencesAreThere DEF LoadedFirst
  <2>2. ScreensTypeOK'
    BY <1>2, StoreEffect, TypeParts DEF ScreensTypeOK, Preferences, Write
  <2>3. QED
    BY <1>2, <2>1, <2>2, StoreEffect, ScreensUntouched
<1>3. CASE NewFix
  <2>1. ScreensTypeOK' /\ LoadedFirst'
    BY <1>3, FixNumbers DEF NewFix, ScreensTypeOK, LoadedFirst
  <2>2. QED
    BY <1>3, <2>1, ScreensUntouched DEF NewFix
<1>4. ASSUME NEW n \in Fixes, ResumeSave(n) PROVE ScreensInv'
  <2>1. LoadedFirst'
    BY <1>4, ResumeSaveEffect, PreferencesAreThere DEF LoadedFirst
  <2>2. ScreensTypeOK'
    BY <1>4, ResumeSaveEffect, TypeParts DEF ScreensTypeOK, Preferences, Write, Waiting
  <2>3. QED
    BY <1>4, <2>1, <2>2, ResumeSaveEffect, ScreensUntouched
<1>5. QED
  BY <1>1, <1>2, <1>3, <1>4

\* The cached position replaces the one shown, and a lock it replaced has strayed.
LEMMA ResumeLoadPreserves ==
    ASSUME ScreensInv, NEW s \in Screens, ResumeLoad(s)
    PROVE  ScreensInv'
<1> USE DEF ScreensInv
<1>1. /\ prefs \in Preferences /\ awaiting' \in Seq(Waiting)
      /\ UNCHANGED <<fix, prefs, writes, disk, latest, quiet>>
  BY TypeParts, AwaitingOn DEF ResumeLoad
<1>2. CASE Cached(prefs) /\ Mounted(s)
  <2> DEFINE cached == [lat |-> prefs.lat, lon |-> prefs.lon, moved |-> FALSE]
             shown == [screen[s] EXCEPT !.position = cached]
  <2>1. cached \in Position
    BY <1>1, <1>2 DEF Cached, Preferences, Position
  <2>2. screen' = [screen EXCEPT ![s] = shown]
        /\ strayed' = IF screen[s].hasGpsFix THEN strayed \cup {s} ELSE strayed
    BY <1>2 DEF ResumeLoad
  <2> HIDE DEF cached
  <2>3. screen[s] \in ScreenState
    BY TypeParts
  <2>4. /\ shown \in ScreenState
        /\ shown.life = screen[s].life /\ shown.tunnel = screen[s].tunnel
        /\ shown.hasGpsFix = screen[s].hasGpsFix
        /\ shown.stationaryCounter = screen[s].stationaryCounter
    BY <2>1, <2>3 DEF ScreenState
  <2> HIDE DEF shown
  <2>5. /\ screen' \in [Screens -> ScreenState] /\ screen'[s] = shown
        /\ \A t \in Screens : t # s => screen'[t] = screen[t]
    BY <2>2, <2>4, TypeParts
  <2>6. ScreensTypeOK'
    BY <1>1, <2>2, <2>5, TypeParts DEF ScreensTypeOK, ScreenState, Waiting
  <2>7. LoadedFirst'
    BY <1>1 DEF LoadedFirst
  <2>8. FixIsKept'
    BY <2>2, <2>4, <2>5 DEF FixIsKept
  <2>9. CounterIsQuiet'
    BY <1>1, <2>4, <2>5 DEF CounterIsQuiet, Mounted, Outage, Screens
  <2>10. QED
    BY <2>6, <2>7, <2>8, <2>9
<1>3. CASE ~ (Cached(prefs) /\ Mounted(s))
  <2>1. UNCHANGED <<screen, strayed>>
    BY <1>3 DEF ResumeLoad
  <2>2. ScreensTypeOK' /\ LoadedFirst'
    BY <1>1, <2>1 DEF ScreensTypeOK, LoadedFirst, Waiting
  <2>3. QED
    BY <1>1, <2>1, <2>2, ScreensUntouched
<1>4. QED
  BY <1>2, <1>3

-----------------------------------------------------------------------------
(* Dead reckoning *)

\* A position that is not moved, or was moved before, is the same.
LEMMA MovedBy ==
    ASSUME NEW p \in Position, NEW b \in BOOLEAN
    PROVE  /\ [p EXCEPT !.moved = b] \in Position
           /\ [p EXCEPT !.moved = b].moved = b
           /\ b = p.moved => [p EXCEPT !.moved = b] = p
  BY DEF Position

\* The screens that a sample moves or stops.
Reckoning == {s \in Screens : Mounted(s) /\ Outage(s)}

\* What a sample makes of a screen.
Sampled(s, still, speed) ==
    [screen[s] EXCEPT !.stationaryCounter = StillCount(s, still),
                      !.speed = speed,
                      !.position.moved = @ \/ speed = "high"]

\* A sample changes counter, speed and position of a screen, and nothing else; a
\* screen left at a low speed stays where it is.
LEMMA SampledScreen ==
    ASSUME ScreensTypeOK, NEW s \in Screens, NEW still \in BOOLEAN, NEW speed \in Speeds
    PROVE  /\ Sampled(s, still, speed) \in ScreenState
           /\ Sampled(s, still, speed).life = screen[s].life
           /\ Sampled(s, still, speed).tunnel = screen[s].tunnel
           /\ Sampled(s, still, speed).hasGpsFix = screen[s].hasGpsFix
           /\ Sampled(s, still, speed).speed = speed
           /\ Sampled(s, still, speed).stationaryCounter = StillCount(s, still)
           /\ Sampled(s, still, speed).position.moved
                 = (screen[s].position.moved \/ speed = "high")
           /\ Sampled(s, still, speed).position.moved = screen[s].position.moved =>
                 Sampled(s, still, speed).position = screen[s].position
<1> DEFINE moved == screen[s].position.moved \/ speed = "high"
           position == [screen[s].position EXCEPT !.moved = moved]
           new == [screen[s] EXCEPT !.stationaryCounter = StillCount(s, still),
                                    !.speed = speed, !.position = position]
<1>1. screen[s] \in ScreenState /\ screen[s].position \in Position
      /\ screen[s].stationaryCounter \in 0..StillSamples
  BY TypeParts DEF ScreenState
<1>2. moved \in BOOLEAN
  OBVIOUS
<1>3. StillCount(s, still) \in 0..StillSamples
  BY <1>1, FixNumbers DEF StillCount, Least
<1>4. Sampled(s, still, speed) = new
  BY DEF Sampled
<1> HIDE DEF moved
<1>5. /\ position \in Position /\ position.moved = moved
      /\ moved = screen[s].position.moved => position = screen[s].position
  BY <1>1, <1>2, MovedBy
<1> HIDE DEF position
<1>6. /\ new \in ScreenState /\ new.life = screen[s].life /\ new.tunnel = screen[s].tunnel
      /\ new.hasGpsFix = screen[s].hasGpsFix /\ new.speed = speed
      /\ new.stationaryCounter = StillCount(s, still) /\ new.position = position
  BY <1>1, <1>3, <1>5 DEF ScreenState
<1> HIDE DEF new
<1>7. QED
  BY <1>4, <1>5, <1>6 DEF moved

\* A sample, screen by screen.
LEMMA SampleEffect ==
    ASSUME ScreensTypeOK, NEW still \in BOOLEAN, Sample(still)
    PROVE  /\ screen' \in [Screens -> ScreenState]
           /\ \A s \in Screens : s \notin Reckoning => screen'[s] = screen[s]
           /\ \A s \in Reckoning :
                 \E speed \in SpeedsAfter(s, still) : screen'[s] = Sampled(s, still, speed)
           /\ strayed' = strayed \cup {s \in Reckoning : screen[s].tunnel
                                                          /\ screen'[s].position.moved}
           /\ quiet' = [s \in Sessions |-> IF still /\ s \in Reckoning
                                           THEN Least(StillSamples, quiet[s] + 1) ELSE 0]
           /\ UNCHANGED <<fix, awaiting, prefs, writes, disk, latest>>
<1>1. PICK speed \in [Reckoning -> Speeds] :
         /\ \A s \in Reckoning : speed[s] \in SpeedsAfter(s, still)
         /\ screen' = [s \in Screens |->
                IF s \notin Reckoning THEN screen[s] ELSE Sampled(s, still, speed[s])]
  BY DEF Sample, Reckoning, Sampled
<1>2. \A s \in Reckoning : s \in Screens /\ speed[s] \in Speeds
  BY DEF Reckoning
<1>3. \A s \in Reckoning : Sampled(s, still, speed[s]) \in ScreenState
  BY <1>2, SampledScreen
<1>4. screen' \in [Screens -> ScreenState]
  BY <1>1, <1>3, TypeParts
<1>5. \A s \in Reckoning : screen'[s] = Sampled(s, still, speed[s])
  BY <1>1, <1>2
<1>6. \A s \in Screens : s \notin Reckoning => screen'[s] = screen[s]
  BY <1>1
<1>7. /\ strayed' = strayed \cup {s \in Reckoning : screen[s].tunnel
                                                     /\ screen'[s].position.moved}
      /\ quiet' = [s \in Sessions |-> IF still /\ s \in Reckoning
                                      THEN Least(StillSamples, quiet[s] + 1) ELSE 0]
      /\ UNCHANGED <<fix, awaiting, prefs, writes, disk, latest>>
  BY DEF Sample, Reckoning
<1>8. QED
  BY <1>1, <1>4, <1>5, <1>6, <1>7

\* Each screen's part of a sample.
LEMMA SampledOrLeft ==
    ASSUME ScreensTypeOK, NEW still \in BOOLEAN, Sample(still), NEW s \in Screens
    PROVE  /\ screen'[s].life = screen[s].life /\ screen'[s].tunnel = screen[s].tunnel
           /\ screen'[s].hasGpsFix = screen[s].hasGpsFix
           /\ s \in Reckoning =>
                 /\ screen'[s].stationaryCounter = StillCount(s, still)
                 /\ screen'[s].speed \in SpeedsAfter(s, still)
                 /\ screen'[s].position.moved
                       = (screen[s].position.moved \/ screen'[s].speed = "high")
                 /\ screen'[s].position.moved = screen[s].position.moved =>
                       screen'[s].position = screen[s].position
           /\ s \notin Reckoning => screen'[s] = screen[s]
<1>1. CASE s \in Reckoning
  <2>1. PICK speed \in SpeedsAfter(s, still) : screen'[s] = Sampled(s, still, speed)
    BY <1>1, SampleEffect
  <2>2. speed \in Speeds
    BY TypeParts DEF SpeedsAfter, Speeds, ScreenState
  <2>3. QED
    BY <1>1, <2>1, <2>2, SampledScreen
<1>2. CASE s \notin Reckoning
  BY <1>2, SampleEffect
<1>3. QED
  BY <1>1, <1>2

\* A sample moves no screen with a lock that has not strayed.
LEMMA SamplePreserves ==
    ASSUME ScreensInv, NEW still \in BOOLEAN, Sample(still)
    PROVE  ScreensInv'
<1> USE DEF ScreensInv
<1>1. /\ screen' \in [Screens -> ScreenState]
      /\ strayed' = strayed \cup {s \in Reckoning : screen[s].tunnel /\ screen'[s].position.moved}
      /\ quiet' = [s \in Sessions |-> IF still /\ s \in Reckoning
                                      THEN Least(StillSamples, quiet[s] + 1) ELSE 0]
      /\ UNCHANGED <<fix, awaiting, prefs, writes, disk, latest>>
  BY SampleEffect
<1>2. ScreensTypeOK'
  <2>1. strayed' \subseteq Screens
    BY <1>1, TypeParts DEF Reckoning
  <2>2. quiet' \in [Sessions -> 0..StillSamples]
    <3>1. \A s \in Sessions : Least(StillSamples, quiet[s] + 1) \in 0..StillSamples
      BY TypeParts, FixNumbers DEF Least
    <3>2. 0 \in 0..StillSamples
      BY FixNumbers
    <3>3. QED
      BY <1>1, <3>1, <3>2
  <2>3. QED
    BY <1>1, <2>1, <2>2 DEF ScreensTypeOK, ScreenState
<1>3. LoadedFirst'
  BY <1>1 DEF LoadedFirst
<1>4. FixIsKept'
  <2> SUFFICES ASSUME NEW s \in Screens \ strayed', screen'[s].hasGpsFix
               PROVE  \E n \in Fixes \ {0} : screen'[s].position = Of(n)
    BY DEF FixIsKept
  <2>1. s \notin strayed /\ screen[s].hasGpsFix
    BY <1>1, SampledOrLeft
  <2>2. PICK n \in Fixes \ {0} : screen[s].position = Of(n)
    BY <2>1 DEF FixIsKept
  <2>3. CASE s \in Reckoning
    <3>1. screen[s].tunnel
      BY <2>1, <2>3 DEF Reckoning, Outage
    <3>2. ~ screen'[s].position.moved
      BY <1>1, <2>3, <3>1
    <3>3. ~ screen[s].position.moved
      BY <2>2 DEF Of
    <3>4. screen'[s].position.moved = screen[s].position.moved
      <4>1. screen'[s].position.moved \in BOOLEAN /\ screen[s].position.moved \in BOOLEAN
        BY <1>1, TypeParts DEF ScreenState, Position
      <4>2. QED
        BY <3>2, <3>3, <4>1
    <3>5. QED
      BY <2>2, <2>3, <3>4, SampledOrLeft
  <2>4. CASE s \notin Reckoning
    BY <2>2, <2>4, SampledOrLeft
  <2>5. QED
    BY <2>3, <2>4
<1>5. CounterIsQuiet'
  <2> SUFFICES ASSUME NEW s \in Sessions
               PROVE  /\ screen'[s].life = "unopened" => quiet'[s] = 0
                      /\ Mounted(s)' /\ Outage(s)' => quiet'[s] = screen'[s].stationaryCounter
    BY DEF CounterIsQuiet
  <2>1. /\ s \in Screens
        /\ screen'[s].life = screen[s].life /\ screen'[s].tunnel = screen[s].tunnel
        /\ screen'[s].hasGpsFix = screen[s].hasGpsFix
        /\ s \in Reckoning => screen'[s].stationaryCounter = StillCount(s, still)
    BY SampledOrLeft DEF Screens
  <2>2. screen'[s].life = "unopened" => quiet'[s] = 0
    BY <1>1, <2>1 DEF Reckoning, Mounted
  <2>3. ASSUME Mounted(s)', Outage(s)' PROVE quiet'[s] = screen'[s].stationaryCounter
    <3>1. s \in Reckoning /\ Mounted(s) /\ Outage(s)
      BY <2>1, <2>3 DEF Mounted, Outage, Reckoning
    <3>2. quiet[s] = screen[s].stationaryCounter
      BY <3>1 DEF CounterIsQuiet
    <3>3. QED
      BY <1>1, <2>1, <3>1, <3>2 DEF StillCount
  <2>4. QED
    BY <2>2, <2>3
<1>6. QED
  BY <1>2, <1>3, <1>4, <1>5

-----------------------------------------------------------------------------
(* Opening and closing *)

\* A session begins with nothing counted; the dashboard keeps what it shows.
LEMMA OpenPreserves ==
    ASSUME ScreensInv, NEW s \in Sessions, NEW mode, NEW home \in ScreenState,
           home.hasGpsFix = screen[Home].hasGpsFix, home.position = screen[Home].position,
           Open(s, mode, home)
    PROVE  ScreensInv'
<1> USE DEF ScreensInv
<1> DEFINE created == Created(mode)
<1>1. /\ created \in ScreenState /\ created.life = "shown" /\ ~ created.hasGpsFix
      /\ created.stationaryCounter = 0
  BY FreshScreens
<1>2. /\ screen' = [screen EXCEPT ![Home] = home, ![s] = created]
      /\ awaiting' = Append(awaiting, [load |-> s])
      /\ UNCHANGED <<fix, prefs, writes, disk, latest, strayed, quiet>>
      /\ screen[s].life = "unopened"
  BY DEF Open
<1> HIDE DEF created
<1>3. s \in Screens /\ Home \in Screens /\ s # Home /\ Sessions = Screens \ {Home}
  BY ScreenAssumption DEF Screens
<1>4. /\ screen' \in [Screens -> ScreenState]
      /\ screen'[s] = created /\ screen'[Home] = home
      /\ \A t \in Screens \ {s, Home} : screen'[t] = screen[t]
  BY <1>1, <1>2, <1>3, TypeParts
<1>5. awaiting' \in Seq(Waiting)
  <2>1. [load |-> s] \in Waiting /\ awaiting \in Seq(Waiting)
    BY <1>3, TypeParts DEF Waiting
  <2>2. QED
    BY <1>2, <2>1, AppendProperties
<1>6. ScreensTypeOK'
  BY <1>2, <1>4, <1>5 DEF ScreensTypeOK, ScreenState, Waiting
<1>7. LoadedFirst'
  BY <1>2 DEF LoadedFirst
<1>8. FixIsKept'
  BY <1>1, <1>2, <1>3, <1>4 DEF FixIsKept
<1>9. CounterIsQuiet'
  <2>1. quiet[s] = 0
    BY <1>2 DEF CounterIsQuiet
  <2>2. \A t \in Sessions \ {s} : screen'[t] = screen[t] /\ quiet'[t] = quiet[t]
    BY <1>2, <1>3, <1>4
  <2>3. QED
    BY <1>1, <1>2, <1>4, <2>1, <2>2 DEF CounterIsQuiet, Mounted, Outage
<1>10. QED
  BY <1>6, <1>7, <1>8, <1>9

\* The dashboard's tests change its tests only.
LEMMA TestsKeepTheDashboard ==
    ASSUME NEW old \in ScreenState, NEW tunnel \in BOOLEAN, NEW canyon \in BOOLEAN
    PROVE  /\ [old EXCEPT !.tunnel = tunnel, !.canyon = canyon] \in ScreenState
           /\ [old EXCEPT !.tunnel = tunnel, !.canyon = canyon].hasGpsFix = old.hasGpsFix
           /\ [old EXCEPT !.tunnel = tunnel, !.canyon = canyon].position = old.position
  BY DEF ScreenState

LEMMA ButtonsPreserve ==
    ASSUME ScreensInv, NEW s \in Sessions, StartNavigation(s) \/ TunnelTest(s) \/ UrbanCanyon(s)
    PROVE  ScreensInv'
<1>1. screen[Home] \in ScreenState
  BY TypeParts DEF ScreensInv, Screens
<1>2. CASE StartNavigation(s)
  BY <1>1, <1>2, OpenPreserves DEF StartNavigation
<1>3. CASE TunnelTest(s)
  BY <1>1, <1>3, TestsKeepTheDashboard, OpenPreserves DEF TunnelTest
<1>4. CASE UrbanCanyon(s)
  BY <1>1, <1>4, TestsKeepTheDashboard, OpenPreserves DEF UrbanCanyon
<1>5. QED
  BY <1>2, <1>3, <1>4

\* A closed screen claims nothing and is not opened again.
LEMMA ClosePreserves ==
    ASSUME ScreensInv, NEW s \in Sessions, Close(s)
    PROVE  ScreensInv'
<1> USE DEF ScreensInv
<1> DEFINE gps == IF screen[s].gps = "listening" THEN "ended" ELSE screen[s].gps
           closed == [Unopened EXCEPT !.life = "closed", !.gps = gps,
                                      !.lastPos = screen[s].lastPos]
<1>1. s \in Screens /\ screen[s] \in ScreenState
  BY TypeParts DEF Screens
<1>2. gps \in {"asking", "last", "current", "listening", "ended"} /\ screen[s].lastPos \in Fixes
  BY <1>1 DEF ScreenState
<1>3. /\ screen' = [screen EXCEPT ![s] = closed]
      /\ UNCHANGED <<fix, awaiting, prefs, writes, disk, latest, strayed, quiet>>
  BY DEF Close
<1> HIDE DEF gps
<1>4. closed \in ScreenState /\ closed.life = "closed" /\ ~ closed.hasGpsFix
  BY <1>2, FreshScreens DEF ScreenState
<1> HIDE DEF closed
<1>5. /\ screen' \in [Screens -> ScreenState] /\ screen'[s] = closed
      /\ \A t \in Screens : t # s => screen'[t] = screen[t]
  BY <1>1, <1>3, <1>4, TypeParts
<1>6. ScreensTypeOK'
  BY <1>3, <1>5 DEF ScreensTypeOK, ScreenState
<1>7. LoadedFirst' /\ FixIsKept'
  BY <1>3, <1>4, <1>5 DEF LoadedFirst, FixIsKept
<1>8. CounterIsQuiet'
  BY <1>3, <1>4, <1>5 DEF CounterIsQuiet, Mounted, Outage, Screens
<1>9. QED
  BY <1>6, <1>7, <1>8

-----------------------------------------------------------------------------
\* Every step of the screens keeps their invariant.
LEMMA NextScreens == ScreensInv /\ [ScreensNext]_screenVars => ScreensInv'
<1> SUFFICES ASSUME ScreensInv, [ScreensNext]_screenVars PROVE ScreensInv'
  OBVIOUS
<1>1. CASE UNCHANGED screenVars
  BY <1>1 DEF screenVars, ScreensInv, ScreensTypeOK, LoadedFirst, FixIsKept, CounterIsQuiet,
              Mounted, Outage
<1>2. CASE ScreensNext
  BY <1>2, PreferencesPreserve, ResumeLoadPreserves, SourcePreserves, SamplePreserves,
     ButtonsPreserve, ClosePreserves DEF ScreensNext, SourceStep
<1>3. QED
  BY <1>1, <1>2

\* The screens' invariant, for any number of sessions, fixes and samples.
THEOREM ScreensInvariance == ScreensSpec => []ScreensInv
<1>1. QED
  BY InitScreens, NextScreens, PTL DEF ScreensSpec

\* Screens, preferences and saves are of their kinds: a position that is shown has
\* both its values, whatever an earlier process left half stored.
THEOREM ScreensTypeCorrect == ScreensSpec => []ScreensTypeOK
<1>1. ScreensInv => ScreensTypeOK
  BY DEF ScreensInv
<1>2. QED
  BY <1>1, ScreensInvariance, PTL

\* A screen that claims GNSS shows a fix, but for the two exceptions.
THEOREM LocksShowFixes == ScreensSpec => []LockedShowsFix
<1>1. ScreensInv => LockedShowsFix
  BY DEF ScreensInv, FixIsKept, LockedShowsFix
<1>2. QED
  BY <1>1, ScreensInvariance, PTL

\* Zero-velocity updates of a session take StillSamples still samples in a row,
\* no more and no less (_startLiveSensors).
THEOREM StopsInARow == ScreensSpec => StopsWhenStationary
<1>1. ASSUME ScreensInv, [ScreensNext]_screenVars, NEW s \in Sessions, Outage(s),
             quiet'[s] \notin {quiet[s], 0}
      PROVE  /\ screen'[s].speed = "low" <=> screen[s].speed = "low" \/ quiet'[s] = StillSamples
             /\ quiet'[s] = StillSamples => screen'[s].position = screen[s].position
  <2>0. ScreensTypeOK /\ CounterIsQuiet /\ s \in Screens
    BY <1>1 DEF ScreensInv, Screens
  <2>1. PICK still \in BOOLEAN : Sample(still)
    <3>1. quiet' # quiet
      BY <1>1
    <3>2. ASSUME NEW t \in Screens, SourceStep(t) PROVE quiet' = quiet
      BY <2>0, <3>2, SourceEffect
    <3>3. QED
      BY <1>1, <3>1, <3>2
         DEF ScreensNext, screenVars, SourceStep, LoadPreferences, StoreOldest, NewFix, ResumeSave,
             ResumeLoad, StartNavigation, TunnelTest, UrbanCanyon, Open, Close
  <2>2. still /\ s \in Reckoning /\ quiet'[s] = Least(StillSamples, quiet[s] + 1)
    BY <1>1, <2>0, <2>1, SampleEffect
  <2>3. quiet[s] \in 0..StillSamples /\ quiet'[s] = quiet[s] + 1
    BY <1>1, <2>0, <2>2, TypeParts, FixNumbers DEF Least
  <2>4. quiet[s] = screen[s].stationaryCounter
    BY <1>1, <2>0, <2>2 DEF CounterIsQuiet, Reckoning
  <2>5. StillCount(s, still) = quiet'[s]
    BY <2>2, <2>4 DEF StillCount
  <2>6. quiet'[s] \in 0..StillSamples
    BY <2>2, <2>3, FixNumbers DEF Least
  <2>7. screen'[s].speed = IF quiet'[s] = StillSamples THEN "low" ELSE screen[s].speed
    <3>1. screen'[s].speed \in SpeedsAfter(s, still)
      BY <2>0, <2>1, <2>2, SampledOrLeft
    <3>2. StillCount(s, still) >= StillSamples <=> quiet'[s] = StillSamples
      BY <2>5, <2>6, FixNumbers
    <3>3. QED
      BY <2>2, <3>1, <3>2 DEF SpeedsAfter
  <2>8. ASSUME quiet'[s] = StillSamples PROVE screen'[s].position = screen[s].position
    <3>1. screen'[s].speed # "high"
      BY <2>7, <2>8
    <3>2. screen'[s].position.moved = (screen[s].position.moved \/ screen'[s].speed = "high")
          /\ (screen'[s].position.moved = screen[s].position.moved =>
                 screen'[s].position = screen[s].position)
      BY <2>0, <2>1, <2>2, SampledOrLeft
    <3>3. screen[s].position.moved \in BOOLEAN
      BY <2>0, TypeParts DEF ScreenState, Position
    <3>4. QED
      BY <3>1, <3>2, <3>3
  <2>9. QED
    BY <2>7, <2>8
<1>2. ScreensInv /\ [ScreensNext]_screenVars =>
        [\A s \in Sessions :
            Outage(s) /\ quiet'[s] \notin {quiet[s], 0} =>
               /\ screen'[s].speed = "low" <=>
                     screen[s].speed = "low" \/ quiet'[s] = StillSamples
               /\ quiet'[s] = StillSamples => screen'[s].position = screen[s].position]_screenVars
  BY <1>1
<1>3. QED
  BY <1>2, ScreensInvariance, PTL DEF ScreensSpec, StopsWhenStationary

-----------------------------------------------------------------------------
(* Saves *)

NoneIn(seq, K) == \A i \in 1..Len(seq) : seq[i] \notin K

\* The last of the elements of this kind, if there is any, is e.
LastIn(seq, K, e) ==
    \A i \in 1..Len(seq) :
        seq[i] \in K /\ (\A j \in 1..Len(seq) : seq[j] \in K => j <= i) => seq[i] = e

\* What is appended is the last of its kind and leaves other kinds alone.
LEMMA LastOfAppended ==
    ASSUME NEW S, NEW seq \in Seq(S), NEW x \in S, NEW K, NEW e
    PROVE  /\ x \in K => LastIn(Append(seq, x), K, x) /\ ~ NoneIn(Append(seq, x), K)
           /\ x \notin K => /\ NoneIn(Append(seq, x), K) <=> NoneIn(seq, K)
                            /\ LastIn(seq, K, e) => LastIn(Append(seq, x), K, e)
<1> DEFINE n == Len(seq)
           longer == Append(seq, x)
<1>1. /\ n \in Nat /\ Len(longer) = n + 1 /\ longer[n + 1] = x
      /\ \A i \in 1..n : longer[i] = seq[i]
  BY AppendProperties
<1> HIDE DEF longer, n
<1>2. n + 1 \in 1..Len(longer) /\ \A i \in 1..Len(longer) : i \in 1..n \/ i = n + 1
  BY <1>1
<1>3. \A i \in 1..n : i \in 1..Len(longer)
  BY <1>1
<1>4. ASSUME x \in K PROVE LastIn(longer, K, x) /\ ~ NoneIn(longer, K)
  <2>1. ~ NoneIn(longer, K)
    BY <1>1, <1>2, <1>4 DEF NoneIn
  <2>2. ASSUME NEW i \in 1..Len(longer), \A j \in 1..Len(longer) : longer[j] \in K => j <= i
        PROVE  longer[i] = x
    <3>1. n + 1 <= i
      BY <1>1, <1>2, <1>4, <2>2
    <3>2. i = n + 1
      BY <1>1, <1>2, <3>1
    <3>3. QED
      BY <1>1, <3>2
  <2>3. QED
    BY <2>1, <2>2 DEF LastIn
<1>5. ASSUME x \notin K PROVE NoneIn(longer, K) <=> NoneIn(seq, K)
  BY <1>1, <1>2, <1>3, <1>5 DEF NoneIn, n
<1>6. ASSUME x \notin K, LastIn(seq, K, e) PROVE LastIn(longer, K, e)
  <2> SUFFICES ASSUME NEW i \in 1..Len(longer), longer[i] \in K,
                      \A j \in 1..Len(longer) : longer[j] \in K => j <= i
               PROVE  longer[i] = e
    BY DEF LastIn
  <2>1. i \in 1..n /\ seq[i] \in K
    BY <1>1, <1>2, <1>6
  <2>2. \A j \in 1..n : seq[j] \in K => j <= i
    BY <1>1, <1>3
  <2>3. QED
    BY <1>1, <1>6, <2>1, <2>2 DEF LastIn, n
<1>7. QED
  BY <1>4, <1>5, <1>6 DEF longer

\* Taking the first leaves the last of each kind, unless it was itself the last.
LEMMA LastOfTail ==
    ASSUME NEW S, NEW seq \in Seq(S), seq # <<>>, NEW K, NEW e, LastIn(seq, K, e)
    PROVE  /\ LastIn(Tail(seq), K, e)
           /\ Head(seq) \in K /\ NoneIn(Tail(seq), K) => Head(seq) = e
           /\ Head(seq) \notin K => (NoneIn(Tail(seq), K) <=> NoneIn(seq, K))
<1> DEFINE n == Len(seq)
           rest == Tail(seq)
<1>1. /\ n \in Nat /\ Len(rest) = n - 1 /\ n # 0 /\ Head(seq) = seq[1]
      /\ \A i \in 1..Len(rest) : rest[i] = seq[i + 1]
  BY HeadTailProperties, EmptySeq
<1> HIDE DEF rest, n
<1>2. \A i \in 1..Len(rest) : i + 1 \in 1..n
  BY <1>1
<1>3. \A i \in 1..n : i = 1 \/ (i - 1 \in 1..Len(rest) /\ rest[i - 1] = seq[i])
  <2> SUFFICES ASSUME NEW i \in 1..n, i # 1
               PROVE  i - 1 \in 1..Len(rest) /\ rest[i - 1] = seq[i]
    OBVIOUS
  <2>1. i - 1 \in 1..Len(rest) /\ (i - 1) + 1 = i
    BY <1>1
  <2>2. QED
    BY <1>1, <2>1
<1>4. LastIn(rest, K, e)
  <2> SUFFICES ASSUME NEW i \in 1..Len(rest), rest[i] \in K,
                      \A j \in 1..Len(rest) : rest[j] \in K => j <= i
               PROVE  rest[i] = e
    BY DEF LastIn
  <2>1. i + 1 \in 1..n /\ seq[i + 1] = rest[i]
    BY <1>1, <1>2
  <2>2. ASSUME NEW j \in 1..n, seq[j] \in K PROVE j <= i + 1
    <3>1. CASE j = 1
      BY <1>1, <3>1
    <3>2. CASE j # 1
      <4>1. j - 1 <= i
        BY <1>3, <2>2, <3>2
      <4>2. QED
        BY <1>1, <4>1
    <3>3. QED
      BY <3>1, <3>2
  <2>3. QED
    BY <2>1, <2>2 DEF LastIn, n
<1>5. ASSUME Head(seq) \in K, NoneIn(rest, K) PROVE Head(seq) = e
  <2>1. 1 \in 1..n
    BY <1>1
  <2>2. ASSUME NEW j \in 1..n, seq[j] \in K PROVE j <= 1
    <3>1. \A i \in 1..Len(rest) : rest[i] \notin K
      BY <1>5 DEF NoneIn
    <3>2. j = 1
      BY <1>3, <2>2, <3>1
    <3>3. QED
      BY <3>2
  <2>3. QED
    BY <1>1, <1>5, <2>1, <2>2 DEF LastIn, n
<1>6. ASSUME Head(seq) \notin K PROVE NoneIn(rest, K) <=> NoneIn(seq, K)
  <2>1. ASSUME NoneIn(rest, K) PROVE NoneIn(seq, K)
    BY <1>1, <1>3, <1>6, <2>1 DEF NoneIn, n
  <2>2. ASSUME NoneIn(seq, K) PROVE NoneIn(rest, K)
    BY <1>1, <1>2, <2>2 DEF NoneIn, n
  <2>3. QED
    BY <2>1, <2>2
<1>7. QED
  BY <1>4, <1>5, <1>6 DEF rest

SaveRequests == [save : Fixes]
Writing(k) == [key : {k}, value : Fixes]

\* The last save that has not begun is of the fix last shown; if there is none,
\* the preferences in memory have the latitude of that fix.
NewestSave ==
    /\ LastIn(awaiting, SaveRequests, [save |-> latest])
    /\ latest # 0 /\ NoneIn(awaiting, SaveRequests) => prefs # Absent /\ prefs.lat = latest

\* The last write of a key is of its value in memory, which is stored if there is none.
Written(k) ==
    prefs # Absent =>
        /\ LastIn(writes, Writing(k), [key |-> k, value |-> prefs[k]])
        /\ NoneIn(writes, Writing(k)) => disk[k] = prefs[k]

\* When all latitudes are stored, the longitude in memory is of the same fix.
Paired ==
    latest # 0 /\ NoneIn(awaiting, SaveRequests) /\ NoneIn(writes, Writing("lat")) =>
        prefs.lon = prefs.lat

SavesInv == NewestSave /\ Written("lat") /\ Written("lon") /\ Paired

\* What awaits is a save or a load; what is written is a latitude or a longitude.
LEMMA KindsOfWaiting ==
    /\ \A n \in Fixes : [save |-> n] \in SaveRequests /\ [save |-> n] \in Waiting
    /\ \A s \in Screens : [load |-> s] \notin SaveRequests /\ [load |-> s] \in Waiting
    /\ \A m, n : [save |-> m] = [save |-> n] => m = n
<1>1. \A s : [load |-> s] \notin SaveRequests
  <2> SUFFICES ASSUME NEW s, [load |-> s] \in SaveRequests PROVE FALSE
    OBVIOUS
  <2>1. DOMAIN [load |-> s] = {"load"} /\ \A r \in SaveRequests : DOMAIN r = {"save"}
    BY DEF SaveRequests
  <2>2. QED
    BY <2>1
<1>2. \A m, n : [save |-> m] = [save |-> n] => m = n
  <2> SUFFICES ASSUME NEW m, NEW n, [save |-> m] = [save |-> n] PROVE m = n
    OBVIOUS
  <2>1. [save |-> m].save = m /\ [save |-> n].save = n
    OBVIOUS
  <2>2. QED
    BY <2>1
<1>3. QED
  BY <1>1, <1>2 DEF SaveRequests, Waiting

LEMMA KindsOfWrites ==
    /\ \A w \in Write : /\ w.key \in {"lat", "lon"} /\ w.value \in Fixes
                        /\ w \in Writing("lat") <=> w.key = "lat"
                        /\ w \in Writing("lon") <=> w.key = "lon"
    /\ \A k \in {"lat", "lon"}, n \in Fixes : /\ [key |-> k, value |-> n] \in Write
                                              /\ [key |-> k, value |-> n].key = k
                                              /\ [key |-> k, value |-> n].value = n
<1>1. \A w \in Write : /\ w.key \in {"lat", "lon"} /\ w.value \in Fixes
                       /\ w \in Writing("lat") <=> w.key = "lat"
                       /\ w \in Writing("lon") <=> w.key = "lon"
  BY DEF Write, Writing
<1>2. \A k \in {"lat", "lon"}, n \in Fixes : [key |-> k, value |-> n] \in Write
  BY DEF Write
<1>3. QED
  BY <1>1, <1>2

\* No save is under way at the start.
LEMMA InitSaves == ScreensInit => SavesInv
<1> SUFFICES ASSUME ScreensInit PROVE SavesInv
  OBVIOUS
<1>1. awaiting = <<[load |-> Home]>> /\ prefs = Absent /\ latest = 0 /\ Home \in Screens
  BY DEF ScreensInit, Screens
<1>2. LastIn(awaiting, SaveRequests, [save |-> latest])
  BY <1>1, KindsOfWaiting DEF LastIn
<1>3. QED
  BY <1>1, <1>2 DEF SavesInv, NewestSave, Written, Paired

\* The preferences are loaded before anything is written.
LEMMA LoadSaves ==
    ASSUME ScreensInv, SavesInv, LoadPreferences
    PROVE  SavesInv'
<1>1. /\ prefs = Absent /\ writes = <<>> /\ prefs' = disk /\ writes' = <<>>
      /\ UNCHANGED <<awaiting, disk, latest>>
  BY DEF ScreensInv, LoadedFirst, LoadPreferences
<1>2. ~ (latest # 0 /\ NoneIn(awaiting, SaveRequests))
  BY <1>1 DEF SavesInv, NewestSave
<1>3. NewestSave' /\ Paired'
  BY <1>1, <1>2 DEF SavesInv, NewestSave, Paired
<1>4. Written("lat")' /\ Written("lon")'
  BY <1>1 DEF Written, LastIn
<1>5. QED
  BY <1>3, <1>4 DEF SavesInv

\* A save that goes on writes its latitude, which nothing written before it undoes.
LEMMA ResumeSaveSaves ==
    ASSUME ScreensInv, SavesInv, NEW n \in Fixes, ResumeSave(n)
    PROVE  SavesInv'
<1> DEFINE x == [key |-> "lat", value |-> n]
<1>1. /\ prefs \in Preferences /\ prefs' \in Preferences
      /\ prefs'.lat = n /\ prefs'.lon = prefs.lon
      /\ awaiting # <<>> /\ Head(awaiting) = [save |-> n] /\ awaiting' = Tail(awaiting)
      /\ writes' = Append(writes, x) /\ UNCHANGED <<disk, latest>>
  BY ResumeSaveEffect DEF ScreensInv
<1>2. awaiting \in Seq(Waiting) /\ writes \in Seq(Write)
  BY TypeParts DEF ScreensInv
<1>3. prefs # Absent /\ prefs' # Absent
  BY <1>1, PreferencesAreThere
<1>4. x \in Write /\ x \in Writing("lat") /\ x \notin Writing("lon")
  BY KindsOfWrites
<1> HIDE DEF x
<1>5. NewestSave'
  <2>1. LastIn(awaiting, SaveRequests, [save |-> latest])
    BY DEF SavesInv, NewestSave
  <2>2. /\ LastIn(Tail(awaiting), SaveRequests, [save |-> latest])
        /\ Head(awaiting) \in SaveRequests /\ NoneIn(Tail(awaiting), SaveRequests)
              => Head(awaiting) = [save |-> latest]
    BY <1>1, <1>2, <2>1, LastOfTail
  <2>3. NoneIn(Tail(awaiting), SaveRequests) => n = latest
    BY <1>1, <2>2, KindsOfWaiting
  <2>4. QED
    BY <1>1, <1>3, <2>2, <2>3 DEF NewestSave
<1>6. LastIn(writes', Writing("lat"), x) /\ ~ NoneIn(writes', Writing("lat"))
  BY <1>1, <1>2, <1>4, LastOfAppended
<1>7. Written("lat")' /\ Paired'
  BY <1>1, <1>6 DEF Written, Paired, x
<1>8. Written("lon")'
  <2> DEFINE e == [key |-> "lon", value |-> prefs["lon"]]
  <2>1. LastIn(writes, Writing("lon"), e) /\ (NoneIn(writes, Writing("lon")) => disk["lon"] = prefs["lon"])
    BY <1>3 DEF SavesInv, Written
  <2> HIDE DEF e
  <2>2. LastIn(writes', Writing("lon"), e) /\ (NoneIn(writes', Writing("lon")) <=> NoneIn(writes, Writing("lon")))
    BY <1>1, <1>2, <1>4, <2>1, LastOfAppended
  <2>3. QED
    BY <1>1, <2>1, <2>2 DEF Written, e
<1>9. QED
  BY <1>5, <1>7, <1>8 DEF SavesInv

\* Storing a latitude brings its longitude, storing a longitude ends its save.
LEMMA StoreSaves ==
    ASSUME ScreensInv, SavesInv, StoreOldest
    PROVE  SavesInv'
<1> DEFINE w == Head(writes)
           rest == Tail(writes)
           after == [key |-> "lon", value |-> w.value]
           lat == [key |-> "lat", value |-> prefs["lat"]]
           lon == [key |-> "lon", value |-> prefs["lon"]]
<1>1. /\ writes # <<>> /\ prefs \in Preferences /\ prefs' \in Preferences
      /\ w \in Write /\ rest \in Seq(Write) /\ prefs'.lat = prefs.lat
      /\ w.key = "lat" => /\ disk'.lat = w.value /\ disk'.lon = disk.lon
                          /\ prefs'.lon = w.value /\ writes' = Append(rest, after)
      /\ w.key # "lat" => /\ disk'.lon = w.value /\ disk'.lat = disk.lat
                          /\ prefs' = prefs /\ writes' = rest
      /\ UNCHANGED <<awaiting, latest>>
  BY StoreEffect DEF ScreensInv
<1>2. writes \in Seq(Write) /\ prefs # Absent /\ prefs' # Absent
  BY <1>1, TypeParts, PreferencesAreThere DEF ScreensInv
<1>3. /\ w \in Writing("lat") <=> w.key = "lat"
      /\ w \in Writing("lon") <=> w.key = "lon"
      /\ w.key \in {"lat", "lon"}
      /\ after \in Write /\ after \in Writing("lon") /\ after \notin Writing("lat")
  BY <1>1, KindsOfWrites
<1>4. lat.value = prefs.lat /\ lon.value = prefs.lon
  OBVIOUS
<1>5. /\ LastIn(writes, Writing("lat"), lat) /\ LastIn(writes, Writing("lon"), lon)
      /\ NoneIn(writes, Writing("lat")) => disk.lat = prefs.lat
      /\ NoneIn(writes, Writing("lon")) => disk.lon = prefs.lon
  BY <1>2 DEF SavesInv, Written
<1> HIDE DEF after, lat, lon
<1>6. /\ LastIn(rest, Writing("lat"), lat)
      /\ w \in Writing("lat") /\ NoneIn(rest, Writing("lat")) => w = lat
      /\ w \notin Writing("lat") => (NoneIn(rest, Writing("lat")) <=> NoneIn(writes, Writing("lat")))
  BY <1>1, <1>2, <1>5, LastOfTail
<1>7. /\ LastIn(rest, Writing("lon"), lon)
      /\ w \in Writing("lon") /\ NoneIn(rest, Writing("lon")) => w = lon
      /\ w \notin Writing("lon") => (NoneIn(rest, Writing("lon")) <=> NoneIn(writes, Writing("lon")))
  BY <1>1, <1>2, <1>5, LastOfTail
<1> HIDE DEF w, rest
<1>8. NewestSave'
  BY <1>1, <1>2 DEF SavesInv, NewestSave
<1>9. CASE w.key = "lat"
  <2>1. /\ LastIn(writes', Writing("lon"), after) /\ ~ NoneIn(writes', Writing("lon"))
        /\ LastIn(writes', Writing("lat"), lat)
        /\ NoneIn(writes', Writing("lat")) <=> NoneIn(rest, Writing("lat"))
    <3>1. writes' = Append(rest, after) /\ rest \in Seq(Write)
      BY <1>1, <1>9
    <3>2. LastIn(Append(rest, after), Writing("lon"), after) /\ ~ NoneIn(Append(rest, after), Writing("lon"))
      BY <1>3, <3>1, LastOfAppended
    <3>3. /\ LastIn(Append(rest, after), Writing("lat"), lat)
          /\ NoneIn(Append(rest, after), Writing("lat")) <=> NoneIn(rest, Writing("lat"))
      BY <1>3, <1>6, <3>1, LastOfAppended
    <3>4. QED
      BY <3>1, <3>2, <3>3
  <2>2. NoneIn(writes', Writing("lat")) => w.value = prefs.lat
    BY <1>3, <1>4, <1>6, <1>9, <2>1
  <2>3. Written("lat")'
    BY <1>1, <1>9, <2>1, <2>2 DEF Written, lat
  <2>4. Written("lon")'
    BY <1>1, <1>9, <2>1 DEF Written, after
  <2>5. Paired'
    BY <1>1, <1>9, <2>2 DEF Paired
  <2>6. QED
    BY <1>8, <2>3, <2>4, <2>5 DEF SavesInv
<1>10. CASE w.key # "lat"
  <2>1. w.key = "lon" /\ writes' = rest /\ prefs' = prefs
    BY <1>1, <1>3, <1>10
  <2>2. NoneIn(rest, Writing("lat")) <=> NoneIn(writes, Writing("lat"))
    BY <1>3, <1>6, <1>10
  <2>3. NoneIn(rest, Writing("lon")) => w.value = prefs.lon
    BY <1>3, <1>4, <1>7, <2>1
  <2>4. Written("lat")'
    BY <1>1, <1>5, <1>6, <1>10, <2>1, <2>2 DEF Written, lat
  <2>5. Written("lon")'
    BY <1>1, <1>7, <1>10, <2>1, <2>3 DEF Written, lon
  <2>6. Paired'
    BY <1>1, <2>1, <2>2 DEF SavesInv, Paired
  <2>7. QED
    BY <1>8, <2>4, <2>5, <2>6 DEF SavesInv
<1>11. QED
  BY <1>9, <1>10

\* A load that goes on, or begins, is no save.
LEMMA LoadsAreNoSaves ==
    ASSUME ScreensInv, SavesInv, NEW s \in Screens, UNCHANGED <<prefs, writes, disk, latest>>,
           \/ awaiting # <<>> /\ Head(awaiting) = [load |-> s] /\ awaiting' = Tail(awaiting)
           \/ awaiting' = Append(awaiting, [load |-> s])
    PROVE  SavesInv'
<1> DEFINE e == [save |-> latest]
<1>1. awaiting \in Seq(Waiting) /\ [load |-> s] \in Waiting /\ [load |-> s] \notin SaveRequests
  BY TypeParts, KindsOfWaiting DEF ScreensInv
<1>2. LastIn(awaiting, SaveRequests, e)
  BY DEF SavesInv, NewestSave
<1> HIDE DEF e
<1>3. /\ LastIn(awaiting', SaveRequests, e)
      /\ NoneIn(awaiting', SaveRequests) <=> NoneIn(awaiting, SaveRequests)
  <2>1. CASE awaiting # <<>> /\ Head(awaiting) = [load |-> s] /\ awaiting' = Tail(awaiting)
    BY <1>1, <1>2, <2>1, LastOfTail
  <2>2. CASE awaiting' = Append(awaiting, [load |-> s])
    BY <1>1, <1>2, <2>2, LastOfAppended
  <2>3. QED
    BY <2>1, <2>2
<1>4. NewestSave' /\ Paired'
  BY <1>3 DEF SavesInv, NewestSave, Paired, e
<1>5. Written("lat")' /\ Written("lon")'
  BY DEF SavesInv, Written
<1>6. QED
  BY <1>4, <1>5 DEF SavesInv

\* Most steps have to do with no save.
LEMMA SavesUntouched ==
    ASSUME SavesInv, UNCHANGED <<awaiting, prefs, writes, disk, latest>>
    PROVE  SavesInv'
  BY DEF SavesInv, NewestSave, Written, Paired

\* A fix that is shown is the newest to be saved.
LEMMA SourceSaves ==
    ASSUME ScreensInv, SavesInv, NEW s \in Screens, SourceStep(s)
    PROVE  SavesInv'
<1>1. ScreensTypeOK
  BY DEF ScreensInv
<1>2. PICK new \in ScreenState : Keep(s, new) \/ \E n \in Fixes \ {0} : Show(s, n, new)
  BY <1>1, SourceEffect
<1>3. UNCHANGED <<fix, prefs, writes, disk, quiet>>
  BY <1>1, SourceEffect
<1>4. CASE Keep(s, new)
  BY <1>3, <1>4, SavesUntouched DEF Keep
<1>5. ASSUME NEW n \in Fixes \ {0}, Show(s, n, new) PROVE SavesInv'
  <2>1. awaiting' = Append(awaiting, [save |-> n]) /\ latest' = n
    BY <1>1, <1>5, ShowEffect
  <2>2. awaiting \in Seq(Waiting) /\ [save |-> n] \in Waiting /\ [save |-> n] \in SaveRequests
    BY <1>1, TypeParts, KindsOfWaiting
  <2>3. LastIn(awaiting', SaveRequests, [save |-> n]) /\ ~ NoneIn(awaiting', SaveRequests)
    BY <2>1, <2>2, LastOfAppended
  <2>4. NewestSave' /\ Paired'
    BY <2>1, <2>3 DEF NewestSave, Paired
  <2>5. Written("lat")' /\ Written("lon")'
    BY <1>3 DEF SavesInv, Written
  <2>6. QED
    BY <2>4, <2>5 DEF SavesInv
<1>6. QED
  BY <1>2, <1>4, <1>5

\* Every step keeps the saves in order.
LEMMA NextSaves == ScreensInv /\ SavesInv /\ [ScreensNext]_screenVars => SavesInv'
<1> SUFFICES ASSUME ScreensInv, SavesInv, [ScreensNext]_screenVars PROVE SavesInv'
  OBVIOUS
<1>1. CASE UNCHANGED screenVars
  BY <1>1, SavesUntouched DEF screenVars
<1>2. CASE LoadPreferences
  BY <1>2, LoadSaves
<1>3. CASE StoreOldest
  BY <1>3, StoreSaves
<1>4. ASSUME NEW n \in Fixes, ResumeSave(n) PROVE SavesInv'
  BY <1>4, ResumeSaveSaves
<1>5. ASSUME NEW s \in Screens, ResumeLoad(s) PROVE SavesInv'
  BY <1>5, LoadsAreNoSaves DEF ResumeLoad
<1>6. ASSUME NEW s \in Screens, SourceStep(s) PROVE SavesInv'
  BY <1>6, SourceSaves
<1>7. ASSUME NEW s \in Sessions, StartNavigation(s) \/ TunnelTest(s) \/ UrbanCanyon(s)
      PROVE  SavesInv'
  BY <1>7, LoadsAreNoSaves DEF StartNavigation, TunnelTest, UrbanCanyon, Open, Screens
<1>8. CASE NewFix \/ (\E still \in BOOLEAN : Sample(still)) \/ (\E s \in Sessions : Close(s))
  BY <1>8, SavesUntouched DEF NewFix, Sample, Close
<1>9. QED
  BY <1>1, <1>2, <1>3, <1>4, <1>5, <1>6, <1>7, <1>8 DEF ScreensNext, SourceStep

\* However the saves of any number of screens overlap, once they are done the
\* preferences hold the fix shown last, in memory and on the disk (_cachePosition).
THEOREM SavesSettleDown == ScreensSpec => []SavesSettle
<1>1. ScreensInv /\ SavesInv => SavesSettle
  <2> SUFFICES ASSUME ScreensInv, SavesInv, awaiting = <<>>, writes = <<>>, latest # 0
               PROVE  prefs = [lat |-> latest, lon |-> latest] /\ disk = prefs
    BY DEF SavesSettle
  <2>1. NoneIn(awaiting, SaveRequests) /\ \A k \in {"lat", "lon"} : NoneIn(writes, Writing(k))
    BY DEF NoneIn
  <2>2. prefs # Absent /\ prefs.lat = latest /\ prefs.lon = prefs.lat
    BY <2>1 DEF SavesInv, NewestSave, Paired
  <2>3. disk.lat = prefs.lat /\ disk.lon = prefs.lon
    BY <2>1, <2>2 DEF SavesInv, Written
  <2>4. prefs \in Preferences /\ disk \in Preferences
    BY <2>2, TypeParts DEF ScreensInv
  <2>5. QED
    BY <2>2, <2>3, <2>4 DEF Preferences
<1>2. ScreensSpec => []SavesInv
  BY InitSaves, NextSaves, ScreensInvariance, PTL DEF ScreensSpec
<1>3. QED
  BY <1>1, <1>2, ScreensInvariance, PTL

=============================================================================
