------------------------ MODULE SessionLifecycleProofs ------------------------
(***************************************************************************)
(* What holds of the session lifecycle for every set of connections and     *)
(* ids: type correctness, that a stopped session is still being saved, that *)
(* a connection hears only the session it holds, and that no state is       *)
(* appended to a track that was written.                                    *)
(*                                                                          *)
(* The theorems of the last two parts assume NamedIds = {}: when the server *)
(* makes up every session id, a held session is live, a live session is     *)
(* held, and the engine implements SessionPromise.                          *)
(***************************************************************************)
EXTENDS SessionLifecycle, SequenceTheorems, TLAPS

Jobs == SaveJob \cup DeleteJob

\* Every queued save and every registered object carries the id it was made for.
IdsAgree ==
    /\ \A i \in DOMAIN writeQueue :
          writeQueue[i].kind = "save" =>
             /\ writeQueue[i].object \in Created
             /\ writeQueue[i].id = object[writeQueue[i].object].id
    /\ \A id \in Ids : sessions[id] # NoObject => object[sessions[id]].id = id

Inv ==
    /\ TypeOK
    /\ IdsAgree
    /\ StoppedSessionsAreBeingSaved
    /\ ListenersBelong

-----------------------------------------------------------------------------
(* The constants and the sequences *)

\* What the assumptions say of the ids and the bounds.
LEMMA Constants ==
    /\ NoObject \notin Objects
    /\ None \notin Ids
    /\ Objects \subseteq Nat
    /\ MaxEvents \in Nat /\ MaxSessions \in Nat
  BY IdAssumption, BoundAssumption DEF NoObject, Objects, Ids

\* A job appended to the queue is the only new one.
LEMMA PendingAppend ==
    ASSUME writeQueue \in Seq(Jobs), NEW job \in Jobs,
           writeQueue' = Append(writeQueue, job)
    PROVE  /\ writeQueue' \in Seq(Jobs)
           /\ writeQueue' # <<>>
           /\ DOMAIN writeQueue' = 1..(Len(writeQueue) + 1)
           /\ \A i \in 1..Len(writeQueue) : writeQueue'[i] = writeQueue[i]
           /\ writeQueue'[Len(writeQueue) + 1] = job
           /\ writeQueue # <<>> => Head(writeQueue') = Head(writeQueue)
           /\ \A o : SavePending(o) => SavePending(o)'
           /\ \A o : job.kind = "save" /\ job.object = o => SavePending(o)'
  BY AppendProperties, LenProperties, HeadTailAppend DEF SavePending

\* The finished job is the only one to leave the queue.
LEMMA PendingTail ==
    ASSUME writeQueue \in Seq(Jobs), writeQueue # <<>>,
           writeQueue' = Tail(writeQueue)
    PROVE  /\ writeQueue' \in Seq(Jobs)
           /\ \A i \in DOMAIN writeQueue' : i + 1 \in DOMAIN writeQueue
                                            /\ writeQueue'[i] = writeQueue[i + 1]
           /\ \A o : SavePending(o) =>
                 \/ SavePending(o)'
                 \/ Head(writeQueue).kind = "save" /\ Head(writeQueue).object = o
<1>1. /\ writeQueue' \in Seq(Jobs)
      /\ Len(writeQueue') = Len(writeQueue) - 1
      /\ \A i \in 1..Len(writeQueue') : writeQueue'[i] = writeQueue[i + 1]
  BY HeadTailProperties
<1>2. /\ DOMAIN writeQueue = 1..Len(writeQueue) /\ Len(writeQueue) \in Nat
      /\ DOMAIN writeQueue' = 1..Len(writeQueue') /\ Len(writeQueue') \in Nat
  BY <1>1, LenProperties
<1>3. \A i \in DOMAIN writeQueue' : i + 1 \in DOMAIN writeQueue
                                    /\ writeQueue'[i] = writeQueue[i + 1]
  BY <1>1, <1>2
<1>4. ASSUME NEW o, SavePending(o)
      PROVE  \/ SavePending(o)'
             \/ Head(writeQueue).kind = "save" /\ Head(writeQueue).object = o
  <2>1. PICK i \in DOMAIN writeQueue :
            writeQueue[i].kind = "save" /\ writeQueue[i].object = o
    BY <1>4 DEF SavePending
  <2>2. CASE i = 1
    BY <2>1, <2>2
  <2>3. CASE i # 1
    <3>1. i - 1 \in DOMAIN writeQueue' /\ writeQueue'[i - 1] = writeQueue[i]
      BY <1>1, <1>2, <2>3
    <3>2. QED
      BY <2>1, <3>1 DEF SavePending
  <2>4. QED
    BY <2>2, <2>3
<1>5. QED
  BY <1>1, <1>3, <1>4

\* A new object is appended; the earlier ones keep their places.
LEMMA ObjectAppend ==
    ASSUME TypeOK, Len(object) < MaxSessions, NEW id \in Ids,
           object' = Append(object, [id |-> id, timer |-> "running",
                                     track |-> 0, anomalies |-> 0])
    PROVE  /\ object' \in Seq(Object)
           /\ Len(object') = Len(object) + 1
           /\ Len(object) + 1 \in Objects
           /\ Created' = Created \cup {Len(object) + 1}
           /\ \A o \in Created : object'[o] = object[o]
           /\ object'[Len(object) + 1].id = id
           /\ \A o : o = Len(object) + 1 => Running(o)'
<1> DEFINE new == [id |-> id, timer |-> "running", track |-> 0, anomalies |-> 0]
<1>1. new \in Object
  BY Constants DEF Object
<1>2. object \in Seq(Object)
  BY DEF TypeOK
<1>3. /\ object' \in Seq(Object)
      /\ Len(object') = Len(object) + 1
      /\ \A i \in 1..Len(object) : object'[i] = object[i]
      /\ object'[Len(object) + 1] = new
  BY <1>1, <1>2, AppendProperties
<1>4. /\ Len(object) \in Nat
      /\ DOMAIN object = 1..Len(object)
      /\ DOMAIN object' = 1..Len(object')
  BY <1>2, <1>3, LenProperties
<1>5. Created = 1..Len(object) /\ Created' = 1..Len(object) + 1
  BY <1>3, <1>4 DEF Created
<1>6. Len(object) + 1 \in Objects
  BY <1>4, Constants DEF Objects
<1> HIDE DEF new
<1>7. object'[Len(object) + 1].id = id /\ object'[Len(object) + 1].timer = "running"
  BY <1>3 DEF new
<1>8. \A o : o = Len(object) + 1 => Running(o)'
  BY <1>4, <1>5, <1>7 DEF Running
<1>9. QED
  BY <1>3, <1>4, <1>5, <1>6, <1>7, <1>8

\* A created object is an object.
LEMMA CreatedObject ==
    ASSUME TypeOK, NEW o \in Created
    PROVE  o \in Objects /\ object[o] \in Object
<1>1. object \in Seq(Object) /\ Len(object) <= MaxSessions /\ o \in DOMAIN object
  BY DEF TypeOK, Created
<1>2. Len(object) \in Nat /\ o \in 1..Len(object)
  BY <1>1, LenProperties
<1>3. o \in Objects
  BY <1>1, <1>2, Constants DEF Objects
<1>4. object[o] \in Object
  BY <1>1, <1>2, ElementOfSeq
<1>5. QED
  BY <1>3, <1>4

\* One object changes in place: its id stays and only its timer may stop.
LEMMA ObjectUpdate ==
    ASSUME TypeOK, NEW o \in Created, NEW new \in Object,
           new.id = object[o].id,
           object' = [object EXCEPT ![o] = new]
    PROVE  /\ object' \in Seq(Object)
           /\ Len(object') = Len(object)
           /\ Created' = Created
           /\ \A p \in Created : object'[p].id = object[p].id
           /\ \A p \in Created : p # o => object'[p] = object[p]
           /\ object'[o] = new
<1>1. object \in Seq(Object) /\ DOMAIN object = 1..Len(object) /\ o \in 1..Len(object)
  BY LenProperties DEF TypeOK, Created
<1>2. /\ object' \in Seq(Object)
      /\ Len(object') = Len(object)
      /\ \A j \in 1..Len(object) : object'[j] = IF j = o THEN new ELSE object[j]
  BY <1>1, ExceptSeq, Zenon
<1>3. DOMAIN object' = 1..Len(object')
  BY <1>2, LenProperties
<1>4. QED
  BY <1>1, <1>2, <1>3 DEF Created

-----------------------------------------------------------------------------
(* The invariant is preserved *)

\* At the start nothing is held, registered or queued.
LEMMA InitInv == Init => Inv
<1> SUFFICES ASSUME Init PROVE Inv
  OBVIOUS
<1>1. /\ object \in Seq(Object) /\ Len(object) = 0 /\ DOMAIN object = {}
      /\ writeQueue \in Seq(Jobs) /\ DOMAIN writeQueue = {}
  BY EmptySeq, LenProperties DEF Init
<1>2. TypeOK
  BY <1>1, Constants DEF Init, TypeOK, Jobs, NoRecord
<1>3. IdsAgree /\ StoppedSessionsAreBeingSaved /\ ListenersBelong
  BY <1>1 DEF Init, IdsAgree, StoppedSessionsAreBeingSaved, ListenersBelong
<1>4. QED
  BY <1>2, <1>3 DEF Inv

\* start_session with a fresh id registers a running object.
LEMMA StartNewPreserves ==
    ASSUME Inv, NEW c \in Conns, NEW id \in Ids, StartNew(c, id)
    PROVE  Inv'
<1> USE DEF Inv, storeVars
<1>1. /\ object' \in Seq(Object)
      /\ Len(object') = Len(object) + 1
      /\ Len(object) + 1 \in Objects
      /\ Created' = Created \cup {Len(object) + 1}
      /\ \A o \in Created : object'[o] = object[o]
      /\ object'[Len(object) + 1].id = id
      /\ \A o : o = Len(object) + 1 => Running(o)'
  BY ObjectAppend DEF StartNew
<1>2. Len(object') <= MaxSessions
  BY <1>1, Constants, LenProperties DEF StartNew, TypeOK
<1>3. TypeOK'
  BY <1>1, <1>2 DEF StartNew, Attach, TypeOK
<1>4. \A o \in Created : Running(o)' <=> Running(o)
  BY <1>1 DEF Running
<1>5. IdsAgree'
  BY <1>1 DEF StartNew, IdsAgree, TypeOK
<1>6. StoppedSessionsAreBeingSaved'
  BY <1>1, <1>4 DEF StartNew, StoppedSessionsAreBeingSaved, SavePending, TypeOK
<1>7. ListenersBelong'
  BY DEF StartNew, Attach, ListenersBelong, Truthy, TypeOK
<1>8. QED
  BY <1>3, <1>5, <1>6, <1>7

\* start_session with a registered id only joins it.
LEMMA StartExistingPreserves ==
    ASSUME Inv, NEW c \in Conns, NEW id \in Ids, StartExisting(c, id)
    PROVE  Inv'
<1> USE DEF Inv, storeVars
<1>1. TypeOK'
  BY DEF StartExisting, Attach, TypeOK, Created
<1>2. IdsAgree'
  BY DEF StartExisting, IdsAgree, Created
<1>3. StoppedSessionsAreBeingSaved'
  BY DEF StartExisting, StoppedSessionsAreBeingSaved, SavePending, Running, Created
<1>4. ListenersBelong'
  BY DEF StartExisting, Attach, ListenersBelong, Truthy, TypeOK
<1>5. QED
  BY <1>1, <1>2, <1>3, <1>4

\* An object changes in place without its timer changing.
LEMMA ObjectGrowsPreserves ==
    ASSUME Inv, NEW o \in Created, NEW new \in Object,
           new.id = object[o].id, new.timer = object[o].timer,
           object' = [object EXCEPT ![o] = new],
           UNCHANGED <<open, sessionId, sessions, listeners, storeVars>>
    PROVE  Inv'
<1> USE DEF Inv, storeVars
<1>1. /\ object' \in Seq(Object)
      /\ Len(object') = Len(object)
      /\ Created' = Created
      /\ \A p \in Created : object'[p].id = object[p].id
      /\ \A p \in Created : p # o => object'[p] = object[p]
      /\ object'[o] = new
  BY ObjectUpdate
<1>2. TypeOK'
  BY <1>1 DEF TypeOK
<1>3. IdsAgree'
  BY <1>1 DEF IdsAgree, TypeOK
<1>4. \A p : Running(p)' <=> Running(p)
  BY <1>1 DEF Running
<1>5. StoppedSessionsAreBeingSaved'
  BY <1>4 DEF StoppedSessionsAreBeingSaved, SavePending
<1>6. ListenersBelong'
  BY DEF ListenersBelong
<1>7. QED
  BY <1>2, <1>3, <1>5, <1>6

\* A frame with an anomaly changes one anomaly list (ingestImu).
LEMMA ImuAnomalyPreserves ==
    ASSUME Inv, NEW c \in Conns, ImuAnomaly(c)
    PROVE  Inv'
<1> DEFINE o == sessions[sessionId[c]]
           new == [object[o] EXCEPT !.anomalies = @ + 1]
<1>1. sessionId[c] \in Ids
  BY DEF Inv, ImuAnomaly, Truthy, TypeOK
<1>2. o \in Created /\ object[o] \in Object /\ object[o].anomalies < MaxEvents
  BY <1>1, ElementOfSeq, LenProperties DEF Inv, ImuAnomaly, TypeOK, Created
<1>3. new \in Object /\ new.id = object[o].id /\ new.timer = object[o].timer
  BY <1>2, Constants DEF Object
<1>4. object' = [object EXCEPT ![o] = new]
  BY DEF ImuAnomaly
<1>5. UNCHANGED <<open, sessionId, sessions, listeners, storeVars>>
  BY DEF ImuAnomaly
<1> HIDE DEF o, new
<1>6. QED
  BY <1>2, <1>3, <1>4, <1>5, ObjectGrowsPreserves

\* A tick of a broadcast timer changes one track.
LEMMA TickPreserves ==
    ASSUME Inv, NEW o \in Created, Tick(o)
    PROVE  Inv'
<1> DEFINE new == [object[o] EXCEPT !.track = @ + 1]
<1>1. object[o] \in Object /\ object[o].track < MaxEvents
  BY ElementOfSeq, LenProperties DEF Inv, Tick, TypeOK, Created
<1>2. new \in Object /\ new.id = object[o].id /\ new.timer = object[o].timer
  BY <1>1, Constants DEF Object
<1>3. object' = [object EXCEPT ![o] = new]
  BY DEF Tick
<1>4. UNCHANGED <<open, sessionId, sessions, listeners, storeVars>>
  BY DEF Tick
<1> HIDE DEF new
<1>5. QED
  BY <1>2, <1>3, <1>4, ObjectGrowsPreserves

\* The first half of stop_session and close: the connection lets go of the id
\* and the object, if there is one, is stopped with its save queued.
LEMMA EndSessionPreserves ==
    ASSUME Inv, NEW c \in Conns, NEW silent \in BOOLEAN, EndSession(c, silent),
           open' \subseteq open,
           UNCHANGED <<sessions, writing, store, saved, summarised>>
    PROVE  Inv'
<1> USE DEF Inv
<1> DEFINE id == sessionId[c]
           o == sessions[id]
<1>1. CASE ~ Truthy(id)
  <2>1. UNCHANGED <<sessionId, listeners, object, writeQueue>>
    BY <1>1 DEF EndSession
  <2>2. QED
    BY <2>1 DEF TypeOK, IdsAgree, StoppedSessionsAreBeingSaved, ListenersBelong,
                SavePending, Running, Created
<1>2. ASSUME Truthy(id) PROVE Inv'
  <2>1. /\ id \in Ids
        /\ listeners' = [listeners EXCEPT ![id] = @ \ {c}]
        /\ sessionId' = [sessionId EXCEPT ![c] = None]
        /\ StopSession(c, id, silent)
    BY <1>2 DEF EndSession, Truthy, TypeOK
  <2>2. listeners' \in [Ids -> SUBSET Conns] /\ sessionId' \in [Conns -> Ids \cup {None}]
    BY <2>1 DEF TypeOK
  <2>3. ListenersBelong'
    BY <2>1 DEF ListenersBelong, TypeOK, Truthy
  <2>4. CASE o = NoObject
    <3>1. UNCHANGED <<object, writeQueue>>
      BY <2>1, <2>4 DEF StopSession
    <3>2. QED
      BY <2>2, <2>3, <3>1 DEF TypeOK, IdsAgree, StoppedSessionsAreBeingSaved,
                              SavePending, Running, Created
  <2>5. CASE o # NoObject
    <3> DEFINE new == [object[o] EXCEPT !.timer = "cleared"]
               job == [kind |-> "save", id |-> id, object |-> o,
                       anomalyCount |-> object[o].anomalies, conn |-> c, silent |-> silent]
    <3>1. o \in Created /\ o \in Objects /\ object[o] \in Object /\ object[o].id = id
      <4>1. o \in Created /\ object[o].id = id
        BY <2>1, <2>5 DEF TypeOK, IdsAgree
      <4>2. QED
        BY <4>1, CreatedObject
    <3>2. object' = [object EXCEPT ![o] = new] /\ writeQueue' = Append(writeQueue, job)
      BY <2>1, <2>5 DEF StopSession
    <3>3. new \in Object /\ new.id = object[o].id
      BY <3>1 DEF Object
    <3>4. job \in Jobs /\ job.kind = "save" /\ job.object = o /\ job.id = id
      BY <3>1, <2>1 DEF Jobs, SaveJob, Object
    <3> HIDE DEF new, job
    <3>5. /\ object' \in Seq(Object)
          /\ Len(object') = Len(object)
          /\ Created' = Created
          /\ \A p \in Created : object'[p].id = object[p].id
          /\ \A p \in Created : p # o => object'[p] = object[p]
      BY <3>1, <3>2, <3>3, ObjectUpdate
    <3>6. /\ writeQueue' \in Seq(Jobs)
          /\ writeQueue' # <<>>
          /\ DOMAIN writeQueue' = 1..(Len(writeQueue) + 1)
          /\ \A i \in 1..Len(writeQueue) : writeQueue'[i] = writeQueue[i]
          /\ writeQueue'[Len(writeQueue) + 1] = job
          /\ writeQueue # <<>> => Head(writeQueue') = Head(writeQueue)
          /\ \A p : SavePending(p) => SavePending(p)'
          /\ \A p : p = o => SavePending(p)'
      BY <3>2, <3>4, PendingAppend DEF TypeOK, Jobs
    <3>7. TypeOK'
      BY <2>2, <3>5, <3>6 DEF TypeOK, Jobs
    <3>8. IdsAgree'
      <4>1. Len(writeQueue) \in Nat /\ DOMAIN writeQueue = 1..Len(writeQueue)
        BY LenProperties DEF TypeOK
      <4>2. ASSUME NEW i \in DOMAIN writeQueue', writeQueue'[i].kind = "save"
            PROVE  /\ writeQueue'[i].object \in Created
                   /\ writeQueue'[i].id = object[writeQueue'[i].object].id
        <5>1. CASE i = Len(writeQueue) + 1
          BY <3>1, <3>4, <3>6, <5>1
        <5>2. CASE i \in 1..Len(writeQueue)
          BY <3>6, <4>1, <4>2, <5>2 DEF IdsAgree
        <5>3. QED
          BY <3>6, <4>1, <5>1, <5>2
      <4>3. QED
        BY <3>5, <4>2 DEF IdsAgree, TypeOK
    <3>9. \A p : p # o => (Running(p)' <=> Running(p))
      BY <3>5 DEF Running
    <3>10. StoppedSessionsAreBeingSaved'
      BY <3>6, <3>9 DEF StoppedSessionsAreBeingSaved
    <3>11. QED
      BY <2>3, <3>7, <3>8, <3>10
  <2>6. QED
    BY <2>4, <2>5
<1>3. QED
  BY <1>1, <1>2

\* stop_session up to its await: the session is unheld and queued for its save.
LEMMA StopRequestedPreserves ==
    ASSUME Inv, NEW c \in Conns, StopRequested(c)
    PROVE  Inv'
  BY EndSessionPreserves DEF StopRequested

\* A closing socket ends its session in the same way.
LEMMA ConnectionClosesPreserves ==
    ASSUME Inv, NEW c \in Conns, ConnectionCloses(c)
    PROVE  Inv'
  BY EndSessionPreserves DEF ConnectionCloses

\* The running job serialises the object it was queued for.
LEMMA SaveSerialisesPreserves ==
    ASSUME Inv, SaveSerialises
    PROVE  Inv'
<1> USE DEF Inv
<1> DEFINE job == Head(writeQueue)
           o == object[job.object]
<1>1. job \in SaveJob /\ 1 \in DOMAIN writeQueue /\ job = writeQueue[1]
  <2>1. writeQueue \in Seq(Jobs) /\ writeQueue # <<>> /\ job.kind = "save"
    BY DEF SaveSerialises, TypeOK, Jobs
  <2>2. job \in Jobs
    BY <2>1, HeadTailProperties
  <2>3. job \in SaveJob
    BY <2>1, <2>2 DEF Jobs, DeleteJob
  <2>4. 1 \in DOMAIN writeQueue
    BY <2>1, EmptySeq, LenProperties
  <2>5. QED
    BY <2>3, <2>4
<1>2. job.object \in Created /\ job.object \in Objects /\ o \in Object
  BY <1>1, CreatedObject DEF IdsAgree, SaveJob
<1>3. writing' \in Record /\ writing'.object = job.object
  BY <1>1, <1>2 DEF SaveSerialises, Record, SaveJob, Object
<1>4. UNCHANGED <<open, sessionId, sessions, listeners, object, writeQueue,
                  store, saved, summarised>>
  BY DEF SaveSerialises, managerVars
<1>5. TypeOK'
  BY <1>3, <1>4 DEF TypeOK, Created, SaveSerialises
<1>6. QED
  BY <1>4, <1>5 DEF IdsAgree, StoppedSessionsAreBeingSaved, ListenersBelong,
                    SavePending, Running, Created

\* A job leaves the queue; what is registered under its id may be forgotten.
LEMMA JobLeavesPreserves ==
    ASSUME Inv, writeQueue # <<>>,
           writeQueue' = Tail(writeQueue),
           store' \in [Ids -> {NoRecord} \cup Record],
           saved' \subseteq Created, summarised' \subseteq Created,
           writing' = NoRecord,
           UNCHANGED <<open, sessionId, object>>,
           \/ Head(writeQueue).kind = "delete" /\ UNCHANGED <<sessions, listeners>>
           \/ /\ Head(writeQueue).kind = "save"
              /\ sessions' = [sessions EXCEPT ![Head(writeQueue).id] = NoObject]
              /\ listeners' = [listeners EXCEPT ![Head(writeQueue).id] = {}]
    PROVE  Inv'
<1> USE DEF Inv
<1> DEFINE job == Head(writeQueue)
<1>1. writeQueue \in Seq(Jobs)
  BY DEF TypeOK, Jobs
<1>2. /\ writeQueue' \in Seq(Jobs)
      /\ \A i \in DOMAIN writeQueue' : i + 1 \in DOMAIN writeQueue
                                       /\ writeQueue'[i] = writeQueue[i + 1]
      /\ \A o : SavePending(o) =>
            SavePending(o)' \/ (job.kind = "save" /\ job.object = o)
  BY <1>1, PendingTail
<1>3. sessions' \in [Ids -> {NoObject} \cup Created] /\ listeners' \in [Ids -> SUBSET Conns]
  BY DEF TypeOK
<1>4. TypeOK'
  BY <1>2, <1>3 DEF TypeOK, Created, Jobs
<1>5. \A id \in Ids : sessions'[id] # NoObject => sessions'[id] = sessions[id]
  BY DEF TypeOK
<1>6. IdsAgree'
  BY <1>2, <1>5 DEF IdsAgree, Created
<1>7. ListenersBelong'
  BY DEF ListenersBelong, TypeOK
<1>8. StoppedSessionsAreBeingSaved'
  <2>1. 1 \in DOMAIN writeQueue /\ job = writeQueue[1]
    BY <1>1, EmptySeq, LenProperties
  <2>2. ASSUME NEW id \in Ids, NEW o, o = sessions'[id], o # NoObject, ~ Running(o)'
        PROVE  SavePending(o)'
    <3>1. o = sessions[id] /\ ~ Running(o)
      BY <1>5, <2>2 DEF Running, Created
    <3>2. SavePending(o)
      BY <3>1, <2>2 DEF StoppedSessionsAreBeingSaved
    <3>3. ~ (job.kind = "save" /\ job.object = o)
      <4>1. SUFFICES ASSUME job.kind = "save", job.object = o PROVE FALSE
        OBVIOUS
      <4>2. job.id = id
        BY <4>1, <2>1, <2>2, <3>1 DEF IdsAgree
      <4>3. sessions'[id] = NoObject
        BY <4>1, <4>2 DEF TypeOK
      <4>4. QED
        BY <4>3, <2>2
    <3>4. QED
      BY <1>2, <3>2, <3>3
  <2>3. QED
    BY <2>2 DEF StoppedSessionsAreBeingSaved
<1>9. QED
  BY <1>4, <1>6, <1>7, <1>8

\* The finished save takes its session out of the map and its job out of the queue.
LEMMA SaveCompletesPreserves ==
    ASSUME Inv, SaveCompletes
    PROVE  Inv'
<1> USE DEF Inv
<1> DEFINE job == Head(writeQueue)
<1>1. /\ writeQueue # <<>> /\ job.kind = "save"
      /\ writing \in Record
      /\ 1 \in DOMAIN writeQueue /\ job = writeQueue[1]
  BY EmptySeq, LenProperties DEF SaveCompletes, TypeOK
<1>2. job.object \in Created
  BY <1>1 DEF IdsAgree
<1>3. /\ store' \in [Ids -> {NoRecord} \cup Record]
      /\ saved' \subseteq Created /\ summarised' \subseteq Created
  BY <1>1, <1>2 DEF SaveCompletes, TypeOK
<1>4. QED
  BY <1>1, <1>3, JobLeavesPreserves DEF SaveCompletes

\* A finished delete takes only itself out of the queue.
LEMMA DeleteCompletesPreserves ==
    ASSUME Inv, DeleteCompletes
    PROVE  Inv'
<1> USE DEF Inv
<1>1. /\ writeQueue # <<>> /\ Head(writeQueue).kind = "delete"
      /\ writing = NoRecord
  BY DEF DeleteCompletes, TypeOK
<1>2. store' \in [Ids -> {NoRecord} \cup Record]
  BY DEF DeleteCompletes, TypeOK
<1>3. QED
  BY <1>1, <1>2, JobLeavesPreserves DEF DeleteCompletes, managerVars, TypeOK

\* A queued delete is no save: what was being saved still is.
LEMMA DeleteRequestedPreserves ==
    ASSUME Inv, NEW id \in Ids, DeleteRequested(id)
    PROVE  Inv'
<1> USE DEF Inv
<1> DEFINE job == [kind |-> "delete", id |-> id]
<1>1. job \in Jobs /\ job.kind # "save"
  BY DEF Jobs, DeleteJob
<1>2. writeQueue' = Append(writeQueue, job)
  BY DEF DeleteRequested
<1> HIDE DEF job
<1>3. /\ writeQueue' \in Seq(Jobs)
      /\ writeQueue' # <<>>
      /\ DOMAIN writeQueue' = 1..(Len(writeQueue) + 1)
      /\ \A i \in 1..Len(writeQueue) : writeQueue'[i] = writeQueue[i]
      /\ writeQueue'[Len(writeQueue) + 1] = job
      /\ writeQueue # <<>> => Head(writeQueue') = Head(writeQueue)
      /\ \A o : SavePending(o) => SavePending(o)'
  BY <1>1, <1>2, PendingAppend DEF TypeOK, Jobs
<1>4. UNCHANGED <<open, sessionId, sessions, listeners, object, writing,
                  store, saved, summarised>>
  BY DEF DeleteRequested, managerVars
<1>5. TypeOK'
  BY <1>3, <1>4 DEF TypeOK, Created, Jobs
<1>6. IdsAgree'
  <2>1. Len(writeQueue) \in Nat /\ DOMAIN writeQueue = 1..Len(writeQueue)
    BY LenProperties DEF TypeOK
  <2>2. ASSUME NEW i \in DOMAIN writeQueue', writeQueue'[i].kind = "save"
        PROVE  i \in DOMAIN writeQueue /\ writeQueue'[i] = writeQueue[i]
    BY <1>1, <1>3, <2>1, <2>2
  <2>3. QED
    BY <1>4, <2>2 DEF IdsAgree, Created
<1>7. StoppedSessionsAreBeingSaved'
  BY <1>3, <1>4 DEF StoppedSessionsAreBeingSaved, Running, Created
<1>8. ListenersBelong'
  BY <1>4 DEF ListenersBelong
<1>9. QED
  BY <1>5, <1>6, <1>7, <1>8

\* After the process dies nothing is registered, queued or listened to.
LEMMA ProcessExitsPreserves ==
    ASSUME Inv, ProcessExits
    PROVE  Inv'
<1> USE DEF Inv
<1>1. /\ object' \in Seq(Object)
      /\ Len(object') = Len(object)
      /\ Created' = Created
  <2>1. object \in Seq(Object) /\ Len(object) \in Nat /\ Created = 1..Len(object)
    BY LenProperties DEF TypeOK, Created
  <2>2. \A o \in Created : [object[o] EXCEPT !.timer = "cleared"] \in Object
    BY CreatedObject DEF Object
  <2>3. object' \in [1..Len(object) -> Object]
    BY <2>1, <2>2 DEF ProcessExits
  <2>4. QED
    BY <2>1, <2>3 DEF Created
<1>2. writeQueue' \in Seq(Jobs) /\ DOMAIN writeQueue' = {}
  BY EmptySeq, LenProperties DEF ProcessExits
<1>3. TypeOK'
  BY <1>1, <1>2 DEF ProcessExits, TypeOK, Jobs
<1>4. IdsAgree' /\ StoppedSessionsAreBeingSaved' /\ ListenersBelong'
  BY <1>2 DEF ProcessExits, IdsAgree, StoppedSessionsAreBeingSaved, ListenersBelong
<1>5. QED
  BY <1>3, <1>4

\* The invariant holds in every reachable state.
THEOREM Invariance == Spec => []Inv
<1>1. Inv /\ UNCHANGED vars => Inv'
  BY DEF Inv, vars, TypeOK, IdsAgree, StoppedSessionsAreBeingSaved, ListenersBelong,
         SavePending, Running, Created
<1>2. ASSUME Inv, Next PROVE Inv'
  <2>1. ASSUME NEW c \in Conns, Client(c) PROVE Inv'
    BY <1>2, <2>1, StartNewPreserves, StartExistingPreserves, ImuAnomalyPreserves,
       StopRequestedPreserves, ConnectionClosesPreserves DEF Client
  <2>2. ASSUME NEW o \in Created, Tick(o) PROVE Inv'
    BY <1>2, <2>2, TickPreserves
  <2>3. ASSUME NEW id \in Ids, DeleteRequested(id) PROVE Inv'
    BY <1>2, <2>3, DeleteRequestedPreserves
  <2>4. CASE StoreStep
    BY <1>2, <2>4, SaveSerialisesPreserves, SaveCompletesPreserves,
       DeleteCompletesPreserves DEF StoreStep
  <2>5. CASE ProcessExits
    BY <1>2, <2>5, ProcessExitsPreserves
  <2>6. QED
    BY <1>2, <2>1, <2>2, <2>3, <2>4, <2>5 DEF Next
<1>3. QED
  BY InitInv, <1>1, <1>2, PTL DEF Spec

\* Every map, timer and queue entry of the engine keeps its type, whatever the
\* connections, the ids clients choose and the number of sessions.
THEOREM TypeCorrect == Spec => []TypeOK
<1>1. Inv => TypeOK
  BY DEF Inv
<1>2. QED
  BY Invariance, <1>1, PTL

\* A stopped session stays in the SessionManager's map only while its save is
\* queued: no interleaving of stops, joins and saves leaves a dead entry behind.
THEOREM NoDeadSession == Spec => []StoppedSessionsAreBeingSaved
<1>1. Inv => StoppedSessionsAreBeingSaved
  BY DEF Inv
<1>2. QED
  BY Invariance, <1>1, PTL

\* A connection is subscribed only to the session it holds; after it stops or
\* closes it is subscribed to none.
THEOREM NoStrayListener == Spec => []ListenersBelong
<1>1. Inv => ListenersBelong
  BY DEF Inv
<1>2. QED
  BY Invariance, <1>1, PTL

-----------------------------------------------------------------------------
(* What is written is whole *)

\* A record of an object that is stopped, and whose track it holds.
Settled(r) ==
    /\ r.object \in Created /\ ~ Running(r.object)
    /\ r.track = object[r.object].track

\* Queued saves are of stopped objects, and what is written is settled.
QueuedAreStopped ==
    \A i \in DOMAIN writeQueue :
        writeQueue[i].kind = "save" => ~ Running(writeQueue[i].object)

Whole ==
    /\ QueuedAreStopped
    /\ writing # NoRecord => Settled(writing)
    /\ \A id \in Ids : store[id] # NoRecord => Settled(store[id])

\* What a step leaves of the objects that are stopped.
StoppedStay ==
    /\ Created \subseteq Created'
    /\ \A o \in Created :
          ~ Running(o) => object'[o].timer = "cleared" /\ object'[o].track = object[o].track

\* No step starts a timer again, and only timers append to tracks.
LEMMA StepsLeaveStopped == Inv /\ [Next]_vars => StoppedStay
<1> SUFFICES ASSUME Inv, [Next]_vars PROVE StoppedStay
  OBVIOUS
<1> USE DEF Inv
<1>1. \A o \in Created : object[o] \in Object /\ (Running(o) <=> object[o].timer # "cleared")
  BY CreatedObject DEF Running, Object
<1>2. CASE UNCHANGED object
  BY <1>1, <1>2 DEF StoppedStay, Created
<1>3. ASSUME NEW c \in Conns, NEW id \in Ids, StartNew(c, id) PROVE StoppedStay
  <2>1. /\ Created' = Created \cup {Len(object) + 1}
        /\ \A o \in Created : object'[o] = object[o]
    BY <1>3, ObjectAppend DEF StartNew
  <2>2. QED
    BY <1>1, <2>1 DEF StoppedStay
<1>4. ASSUME NEW o \in Created, NEW new \in Object, new.id = object[o].id,
             object' = [object EXCEPT ![o] = new],
             Running(o) \/ (new.timer = object[o].timer /\ new.track = object[o].track)
      PROVE  StoppedStay
  <2>1. /\ Created' = Created
        /\ \A p \in Created : p # o => object'[p] = object[p]
        /\ object'[o] = new
    BY <1>4, ObjectUpdate
  <2>2. QED
    BY <1>1, <1>4, <2>1 DEF StoppedStay
<1>5. ASSUME NEW c \in Conns, ImuAnomaly(c) PROVE StoppedStay
  <2> DEFINE o == sessions[sessionId[c]]
             new == [object[o] EXCEPT !.anomalies = @ + 1]
  <2>1. sessionId[c] \in Ids
    BY <1>5 DEF ImuAnomaly, Truthy, TypeOK
  <2>2. o \in Created /\ object[o] \in Object /\ object[o].anomalies < MaxEvents
    BY <1>1, <1>5, <2>1 DEF ImuAnomaly, TypeOK
  <2>3. /\ new \in Object /\ new.id = object[o].id
        /\ new.timer = object[o].timer /\ new.track = object[o].track
    BY <2>2, Constants DEF Object
  <2>4. object' = [object EXCEPT ![o] = new]
    BY <1>5 DEF ImuAnomaly
  <2> HIDE DEF o, new
  <2>5. QED
    BY <1>4, <2>2, <2>3, <2>4
<1>6. ASSUME NEW o \in Created, Tick(o) PROVE StoppedStay
  <2> DEFINE new == [object[o] EXCEPT !.track = @ + 1]
  <2>1. new \in Object /\ new.id = object[o].id
    BY <1>1, <1>6, Constants DEF Tick, Object
  <2>2. object' = [object EXCEPT ![o] = new] /\ Running(o)
    BY <1>6 DEF Tick
  <2> HIDE DEF new
  <2>3. QED
    BY <1>4, <2>1, <2>2
<1>7. ASSUME NEW c \in Conns, NEW silent \in BOOLEAN, EndSession(c, silent) PROVE StoppedStay
  <2> DEFINE o == sessions[sessionId[c]]
             new == [object[o] EXCEPT !.timer = "cleared"]
  <2>1. CASE ~ Truthy(sessionId[c]) \/ o = NoObject
    BY <1>2, <1>7, <2>1 DEF EndSession, StopSession
  <2>2. CASE Truthy(sessionId[c]) /\ o # NoObject
    <3>1. o \in Created /\ object[o] \in Object
      BY <1>1, <2>2 DEF Truthy, TypeOK
    <3>2. new \in Object /\ new.id = object[o].id /\ new.track = object[o].track
          /\ new.timer = "cleared"
      BY <3>1 DEF Object
    <3>3. object' = [object EXCEPT ![o] = new]
      BY <1>7, <2>2 DEF EndSession, StopSession
    <3>4. Running(o) \/ new.timer = object[o].timer
      BY <1>1, <3>1, <3>2
    <3> HIDE DEF o, new
    <3>5. QED
      BY <1>4, <3>1, <3>2, <3>3, <3>4
  <2>3. QED
    BY <2>1, <2>2
<1>8. CASE ProcessExits
  BY <1>1, <1>8 DEF ProcessExits, StoppedStay, Created, Object
<1>9. CASE Next
  <2>1. ASSUME NEW c \in Conns, Client(c) PROVE StoppedStay
    BY <2>1, <1>2, <1>3, <1>5, <1>7
       DEF Client, StartExisting, StopRequested, ConnectionCloses
  <2>2. CASE StoreStep \/ \E id \in Ids : DeleteRequested(id)
    BY <2>2, <1>2
       DEF StoreStep, SaveSerialises, SaveCompletes, DeleteCompletes, DeleteRequested, managerVars
  <2>3. QED
    BY <1>6, <1>8, <1>9, <2>1, <2>2 DEF Next
<1>10. QED
  BY <1>2, <1>9 DEF vars

\* What was settled stays so.
LEMMA SettledStays ==
    ASSUME StoppedStay, NEW r, Settled(r)
    PROVE  Settled(r)'
<1> USE DEF StoppedStay
<1>1. QED
  BY DEF Settled, Running

\* A step queues at most one save, of an object it stops.
LEMMA QueuedStayStopped ==
    ASSUME Inv, Whole, [Next]_vars, StoppedStay
    PROVE  QueuedAreStopped'
<1> USE DEF Inv
<1>1. /\ writeQueue \in Seq(Jobs)
      /\ Len(writeQueue) \in Nat /\ DOMAIN writeQueue = 1..Len(writeQueue)
  BY LenProperties DEF TypeOK, Jobs
<1>2. ASSUME NEW i \in DOMAIN writeQueue, writeQueue[i].kind = "save",
             NEW o, o = writeQueue[i].object
      PROVE  ~ Running(o)'
  BY <1>2 DEF Whole, QueuedAreStopped, IdsAgree, StoppedStay, Running
<1>3. CASE UNCHANGED writeQueue
  <2>1. SUFFICES ASSUME NEW i \in DOMAIN writeQueue', writeQueue'[i].kind = "save",
                        NEW p, p = writeQueue'[i].object
                 PROVE  ~ Running(p)'
    BY DEF QueuedAreStopped, Running
  <2>2. QED
    BY <1>2, <1>3, <2>1
<1>4. ASSUME NEW job \in Jobs, writeQueue' = Append(writeQueue, job),
             NEW o, o = job.object, job.kind = "save" => ~ Running(o)'
      PROVE  QueuedAreStopped'
  <2>1. /\ DOMAIN writeQueue' = 1..(Len(writeQueue) + 1)
        /\ \A i \in 1..Len(writeQueue) : writeQueue'[i] = writeQueue[i]
        /\ writeQueue'[Len(writeQueue) + 1] = job
    BY <1>1, <1>4, PendingAppend
  <2>2. SUFFICES ASSUME NEW i \in DOMAIN writeQueue', writeQueue'[i].kind = "save",
                        NEW p, p = writeQueue'[i].object
                 PROVE  ~ Running(p)'
    BY DEF QueuedAreStopped, Running
  <2>3. CASE i = Len(writeQueue) + 1
    BY <1>4, <2>1, <2>2, <2>3
  <2>4. CASE i \in DOMAIN writeQueue
    BY <1>1, <1>2, <2>1, <2>2, <2>4
  <2>5. QED
    BY <1>1, <2>1, <2>3, <2>4
<1>5. ASSUME NEW c \in Conns, NEW silent \in BOOLEAN, EndSession(c, silent)
      PROVE  QueuedAreStopped'
  <2> DEFINE o == sessions[sessionId[c]]
             new == [object[o] EXCEPT !.timer = "cleared"]
             job == [kind |-> "save", id |-> sessionId[c], object |-> o,
                     anomalyCount |-> object[o].anomalies, conn |-> c, silent |-> silent]
  <2>1. CASE ~ Truthy(sessionId[c]) \/ o = NoObject
    BY <1>3, <1>5, <2>1 DEF EndSession, StopSession
  <2>2. CASE Truthy(sessionId[c]) /\ o # NoObject
    <3>1. o \in Created /\ o \in Objects /\ object[o] \in Object /\ sessionId[c] \in Ids
      <4>1. o \in Created /\ sessionId[c] \in Ids
        BY <2>2 DEF Truthy, TypeOK
      <4>2. QED
        BY <4>1, CreatedObject
    <3>2. new \in Object /\ new.id = object[o].id /\ new.timer = "cleared"
      BY <3>1 DEF Object
    <3>3. object' = [object EXCEPT ![o] = new] /\ writeQueue' = Append(writeQueue, job)
      BY <1>5, <2>2 DEF EndSession, StopSession
    <3>4. job \in Jobs /\ job.object = o
      BY <3>1 DEF Jobs, SaveJob, Object
    <3> HIDE DEF new, job
    <3>5. object'[o] = new
      BY <3>1, <3>2, <3>3, ObjectUpdate
    <3>6. \A p : p = o => ~ Running(p)'
      BY <3>2, <3>5 DEF Running
    <3>7. QED
      BY <1>4, <3>3, <3>4, <3>6
  <2>3. QED
    BY <2>1, <2>2
<1>6. ASSUME NEW id \in Ids, DeleteRequested(id)
      PROVE  QueuedAreStopped'
  <2> DEFINE job == [kind |-> "delete", id |-> id]
  <2>1. job \in Jobs /\ job.kind # "save" /\ writeQueue' = Append(writeQueue, job)
    BY <1>6 DEF Jobs, DeleteJob, DeleteRequested
  <2> HIDE DEF job
  <2>2. QED
    BY <1>4, <2>1
<1>7. CASE writeQueue # <<>> /\ writeQueue' = Tail(writeQueue)
  <2>1. \A i \in DOMAIN writeQueue' : i + 1 \in DOMAIN writeQueue
                                      /\ writeQueue'[i] = writeQueue[i + 1]
    BY <1>1, <1>7, PendingTail
  <2>2. SUFFICES ASSUME NEW i \in DOMAIN writeQueue', writeQueue'[i].kind = "save",
                        NEW p, p = writeQueue'[i].object
                 PROVE  ~ Running(p)'
    BY DEF QueuedAreStopped, Running
  <2>3. QED
    BY <1>2, <2>1, <2>2
<1>8. CASE ProcessExits
  BY <1>8, EmptySeq, LenProperties DEF ProcessExits, QueuedAreStopped
<1>9. CASE Next
  <2>1. ASSUME NEW c \in Conns, Client(c)
        PROVE  QueuedAreStopped'
    BY <2>1, <1>3, <1>5
       DEF Client, StartNew, StartExisting, ImuAnomaly, StopRequested, ConnectionCloses, storeVars
  <2>2. CASE StoreStep
    BY <2>2, <1>3, <1>7
       DEF StoreStep, SaveSerialises, SaveCompletes, DeleteCompletes, TypeOK
  <2>3. CASE \E o \in Created : Tick(o)
    BY <2>3, <1>3 DEF Tick, storeVars
  <2>4. QED
    BY <1>6, <1>8, <1>9, <2>1, <2>2, <2>3 DEF Next
<1>10. QED
  BY <1>3, <1>9 DEF vars

\* What is written, and what is being written, stays settled.
LEMMA WholePreserved == Inv /\ Whole /\ [Next]_vars => Whole'
<1> SUFFICES ASSUME Inv, Whole, [Next]_vars PROVE Whole'
  OBVIOUS
<1> USE DEF Inv
<1>1. StoppedStay
  BY StepsLeaveStopped
<1>2. QueuedAreStopped'
  BY <1>1, QueuedStayStopped
<1>3. \A r : Settled(r) => Settled(r)'
  BY <1>1, SettledStays
<1>4. ASSUME UNCHANGED <<writing, store>> PROVE Whole'
  BY <1>2, <1>3, <1>4 DEF Whole, Settled
<1>5. CASE SaveSerialises
  <2> DEFINE job == Head(writeQueue)
  <2>1. 1 \in DOMAIN writeQueue /\ job = writeQueue[1] /\ job.kind = "save"
    BY <1>5, EmptySeq, LenProperties DEF SaveSerialises, TypeOK
  <2>2. job.object \in Created /\ ~ Running(job.object)
    BY <2>1 DEF IdsAgree, Whole, QueuedAreStopped
  <2>3. Settled(writing')
    BY <1>5, <2>2 DEF SaveSerialises, Settled
  <2>4. UNCHANGED <<object, store>>
    BY <1>5 DEF SaveSerialises, managerVars
  <2>5. \A r : Settled(r)' <=> Settled(r)
    BY <2>4 DEF Settled, Running, Created
  <2>6. QED
    BY <1>2, <2>3, <2>4, <2>5 DEF Whole, Settled, Running, Created
<1>6. CASE SaveCompletes
  <2>1. /\ writing' = NoRecord
        /\ \A id \in Ids : store'[id] = writing \/ store'[id] = store[id]
        /\ writing # NoRecord
    BY <1>6 DEF SaveCompletes, TypeOK
  <2>2. ASSUME NEW id \in Ids, NEW r, r = store'[id], r # NoRecord PROVE Settled(r)'
    BY <1>3, <2>1, <2>2 DEF Whole
  <2>3. QED
    BY <1>2, <2>1, <2>2 DEF Whole, Settled, Running
<1>7. CASE DeleteCompletes
  <2>1. /\ writing' = writing
        /\ \A id \in Ids : store'[id] = NoRecord \/ store'[id] = store[id]
    BY <1>7 DEF DeleteCompletes, TypeOK
  <2>2. ASSUME NEW id \in Ids, NEW r, r = store'[id], r # NoRecord PROVE Settled(r)'
    BY <1>3, <2>1, <2>2 DEF Whole
  <2>3. ASSUME NEW r, r = writing', r # NoRecord PROVE Settled(r)'
    BY <1>3, <2>1, <2>3 DEF Whole
  <2>4. QED
    BY <1>2, <2>2, <2>3 DEF Whole, Settled, Running
<1>8. CASE ProcessExits
  <2>1. writing' = NoRecord /\ store' = store
    BY <1>8 DEF ProcessExits
  <2>2. ASSUME NEW id \in Ids, NEW r, r = store'[id], r # NoRecord PROVE Settled(r)'
    BY <1>3, <2>1, <2>2 DEF Whole
  <2>3. QED
    BY <1>2, <2>1, <2>2 DEF Whole, Settled, Running
<1>9. CASE Next
  <2>1. ASSUME NEW c \in Conns, Client(c) PROVE UNCHANGED <<writing, store>>
    BY <2>1
       DEF Client, StartNew, StartExisting, ImuAnomaly, StopRequested, ConnectionCloses, storeVars
  <2>2. CASE (\E o \in Created : Tick(o)) \/ \E id \in Ids : DeleteRequested(id)
    BY <1>4, <2>2 DEF Tick, DeleteRequested, storeVars
  <2>3. QED
    BY <1>4, <1>5, <1>6, <1>7, <1>8, <1>9, <2>1, <2>2 DEF Next, StoreStep
<1>10. QED
  BY <1>4, <1>9 DEF vars

\* Whoever names whatever session how often: no state is appended to a track after
\* it was written.
THEOREM WholeTracks == Spec => []TrackComplete
<1>1. Init => Whole
  BY EmptySeq DEF Init, Whole, QueuedAreStopped
<1>2. Inv /\ Whole => TrackComplete
  BY DEF Whole, Settled, TrackComplete
<1>3. QED
  BY Invariance, WholePreserved, <1>1, <1>2, PTL DEF Spec

-----------------------------------------------------------------------------
(* One connection is one session, when the server makes up the ids *)

\* What the held ids, the objects and the queue know of each other.
Held(c) == sessionId[c] # None

OneToOne ==
    /\ \A o \in Created : object[o].id = o
    /\ \A c \in Conns : Held(c) => /\ c \in open
                                   /\ sessions[sessionId[c]] = sessionId[c]
                                   /\ Running(sessionId[c])
    /\ \A c, d \in Conns : Held(c) /\ sessionId[c] = sessionId[d] => c = d
    /\ \A o \in Created : Running(o) => \E c \in Conns : sessionId[c] = o
    /\ \A i \in DOMAIN writeQueue :
          writeQueue[i].kind = "save" => ~ Running(writeQueue[i].object)

GInv == Inv /\ OneToOne

\* Without chosen ids every id is the number of an object.
LEMMA OnlyGenerated ==
    ASSUME NamedIds = {}
    PROVE  /\ Ids = Objects
           /\ \A id : Truthy(id) <=> id # None
  BY IdAssumption DEF Ids, Truthy

\* At the start no connection holds anything.
LEMMA InitOneToOne == Init => OneToOne
<1>1. Init => DOMAIN object = {} /\ DOMAIN writeQueue = {}
  BY DEF Init
<1>2. QED
  BY <1>1 DEF Init, OneToOne, Held, Created

\* A new object has an id that nobody holds yet.
LEMMA StartNewOneToOne ==
    ASSUME NamedIds = {}, GInv, NEW c \in Conns, NEW id \in Ids, StartNew(c, id)
    PROVE  OneToOne'
<1> USE DEF GInv, Inv
<1>1. /\ object' \in Seq(Object)
      /\ Len(object') = Len(object) + 1
      /\ Len(object) + 1 \in Objects
      /\ Created' = Created \cup {Len(object) + 1}
      /\ \A o \in Created : object'[o] = object[o]
      /\ object'[Len(object) + 1].id = id
      /\ \A o : o = Len(object) + 1 => Running(o)'
  BY ObjectAppend DEF StartNew
<1>2. id = Len(object) + 1 /\ id \notin Created /\ id # None
  <2>1. Len(object) \in Nat /\ Created = 1..Len(object)
    BY LenProperties DEF TypeOK, Created
  <2>2. QED
    BY <1>1, <2>1, Constants DEF StartNew
<1>3. /\ sessionId[c] = None
      /\ sessionId' = [sessionId EXCEPT ![c] = id]
      /\ sessions' = [sessions EXCEPT ![id] = id]
      /\ UNCHANGED <<open, writeQueue>>
      /\ c \in open
  BY <1>2, OnlyGenerated DEF StartNew, Attach, storeVars
<1>4. \A o \in Created : Running(o)' <=> Running(o)
  BY <1>1 DEF Running
<1>5. \A d \in Conns : sessionId[d] # id
  BY <1>2 DEF OneToOne, Held, Running
<1>6. \A o \in Created' : object'[o].id = o
  BY <1>1, <1>2 DEF OneToOne
<1>7. ASSUME NEW d \in Conns, Held(d)'
      PROVE  /\ d \in open'
             /\ sessions'[sessionId'[d]] = sessionId'[d]
             /\ Running(sessionId[d])'
  <2>1. CASE d = c
    BY <1>1, <1>2, <1>3, <2>1 DEF TypeOK
  <2>2. CASE d # c
    <3>1. sessionId'[d] = sessionId[d] /\ Held(d)
      BY <1>3, <1>7, <2>2 DEF Held, TypeOK
    <3>2. sessionId[d] \in Created /\ sessionId[d] \in Ids /\ d \in open /\ Running(sessionId[d])
          /\ sessions[sessionId[d]] = sessionId[d]
      BY <3>1 DEF OneToOne, Held, TypeOK, Running
    <3>3. \A o : o = sessionId[d] => Running(o)'
      BY <1>4, <3>2
    <3>4. QED
      BY <1>2, <1>3, <3>1, <3>2, <3>3 DEF TypeOK
  <2>3. QED
    BY <2>1, <2>2
<1>8. \A d, e \in Conns : Held(d)' /\ sessionId'[d] = sessionId'[e] => d = e
  BY <1>3, <1>5 DEF OneToOne, Held, TypeOK
<1>9. ASSUME NEW o \in Created', Running(o)'
      PROVE  \E d \in Conns : sessionId'[d] = o
  <2>1. CASE o = id
    BY <1>3, <2>1 DEF TypeOK
  <2>2. CASE o \in Created
    <3>1. Running(o)
      BY <1>4, <1>9, <2>2
    <3>2. PICK d \in Conns : sessionId[d] = o
      BY <2>2, <3>1 DEF OneToOne
    <3>3. o # None
      BY <2>2, CreatedObject, Constants, OnlyGenerated
    <3>4. sessionId'[d] = o
      BY <1>3, <3>2, <3>3 DEF TypeOK
    <3>5. QED
      BY <3>4
  <2>3. QED
    BY <1>1, <1>2, <2>1, <2>2
<1>10. ASSUME NEW i \in DOMAIN writeQueue', NEW o, o = writeQueue'[i].object,
              writeQueue'[i].kind = "save"
       PROVE  ~ Running(o)'
  BY <1>3, <1>4, <1>10 DEF OneToOne, IdsAgree
<1>11. QED
  BY <1>6, <1>7, <1>8, <1>9, <1>10 DEF OneToOne

\* No id is ever registered when a connection without a session asks for it.
LEMMA NothingToJoin ==
    ASSUME NamedIds = {}, NEW c, NEW id, StartExisting(c, id)
    PROVE  FALSE
  BY DEF StartExisting

\* Growing an object disturbs neither ids nor timers.
LEMMA GrowsOneToOne ==
    ASSUME GInv, NEW o \in Created, NEW new \in Object,
           new.id = object[o].id, new.timer = object[o].timer,
           object' = [object EXCEPT ![o] = new],
           UNCHANGED <<open, sessionId, sessions, writeQueue>>
    PROVE  OneToOne'
<1> USE DEF GInv, Inv
<1>1. /\ Created' = Created
      /\ \A p \in Created : object'[p].id = object[p].id
      /\ \A p \in Created : p # o => object'[p] = object[p]
      /\ object'[o] = new
  BY ObjectUpdate
<1>2. \A p : Running(p)' <=> Running(p)
  BY <1>1 DEF Running
<1>3. QED
  BY <1>1, <1>2 DEF OneToOne, Held

\* Nothing that OneToOne speaks of changes.
LEMMA StutterOneToOne ==
    ASSUME OneToOne, UNCHANGED <<open, sessionId, sessions, object, writeQueue>>
    PROVE  OneToOne'
  BY DEF OneToOne, Held, Running, Created

\* stop_session and close release the only holder and stop the session.
LEMMA EndSessionOneToOne ==
    ASSUME NamedIds = {}, GInv, NEW c \in Conns, NEW silent \in BOOLEAN,
           EndSession(c, silent), open \ {c} \subseteq open',
           UNCHANGED sessions
    PROVE  OneToOne'
<1> USE DEF GInv, Inv
<1> DEFINE o == sessionId[c]
<1>1. CASE ~ Held(c)
  <2>1. UNCHANGED <<sessionId, listeners, object, writeQueue>>
    BY <1>1, OnlyGenerated DEF EndSession, Held
  <2>2. QED
    BY <1>1, <2>1 DEF OneToOne, Held, Running, Created
<1>2. CASE Held(c)
  <2>1. o \in Created /\ o \in Ids /\ sessions[o] = o /\ Running(o) /\ o # NoObject
    <3>1. sessions[o] = o /\ Running(o) /\ o \in Ids
      BY <1>2 DEF OneToOne, Held, TypeOK
    <3>2. QED
      BY <3>1, CreatedObject, Constants DEF Running
  <2> DEFINE new == [object[o] EXCEPT !.timer = "cleared"]
             job == [kind |-> "save", id |-> o, object |-> o,
                     anomalyCount |-> object[o].anomalies, conn |-> c, silent |-> silent]
  <2>2. /\ sessionId' = [sessionId EXCEPT ![c] = None]
        /\ object' = [object EXCEPT ![o] = new]
        /\ writeQueue' = Append(writeQueue, job)
    BY <1>2, <2>1, OnlyGenerated DEF EndSession, StopSession, Held
  <2>3. new \in Object /\ new.id = object[o].id /\ new.timer = "cleared"
    BY <2>1, CreatedObject DEF Object
  <2>4. job \in Jobs /\ job.object = o
    BY <2>1, CreatedObject DEF Jobs, SaveJob, Object
  <2> HIDE DEF new, job
  <2>5. /\ Created' = Created
        /\ \A p \in Created : object'[p].id = object[p].id
        /\ \A p \in Created : p # o => object'[p] = object[p]
        /\ object'[o] = new
    BY <2>1, <2>2, <2>3, ObjectUpdate
  <2>6. /\ \A p : p # o => (Running(p)' <=> Running(p))
        /\ \A p : p = o => ~ Running(p)'
    BY <2>3, <2>5 DEF Running
  <2>7. \A d \in Conns : sessionId'[d] = IF d = c THEN None ELSE sessionId[d]
    BY <2>2 DEF TypeOK
  <2>8. \A d \in Conns : d # c /\ Held(d) => sessionId[d] # o
    BY <1>2 DEF OneToOne
  <2>9. \A d \in Conns : Held(d)' => d # c /\ Held(d)
    BY <2>7 DEF Held
  <2>10. ASSUME NEW d \in Conns, NEW id, id = sessionId'[d], Held(d)'
         PROVE  d \in open' /\ sessions'[id] = id /\ Running(id)'
    BY <2>6, <2>7, <2>8, <2>9, <2>10 DEF OneToOne
  <2>11. \A d, e \in Conns : Held(d)' /\ sessionId'[d] = sessionId'[e] => d = e
    BY <2>7, <2>9 DEF OneToOne, Held
  <2>12. ASSUME NEW p \in Created', Running(p)'
         PROVE  \E d \in Conns : sessionId'[d] = p
    <3>1. p # o /\ Running(p) /\ p \in Created
      BY <2>5, <2>6, <2>12
    <3>2. PICK d \in Conns : sessionId[d] = p
      BY <3>1 DEF OneToOne
    <3>3. d # c
      BY <3>1, <3>2
    <3>4. QED
      BY <2>7, <3>2, <3>3
  <2>13. ASSUME NEW i \in DOMAIN writeQueue', NEW p, p = writeQueue'[i].object,
                writeQueue'[i].kind = "save"
         PROVE  ~ Running(p)'
    <3>1. /\ DOMAIN writeQueue' = 1..(Len(writeQueue) + 1)
          /\ \A k \in 1..Len(writeQueue) : writeQueue'[k] = writeQueue[k]
          /\ writeQueue'[Len(writeQueue) + 1] = job
      BY <2>2, <2>4, PendingAppend DEF TypeOK, Jobs
    <3>2. Len(writeQueue) \in Nat /\ DOMAIN writeQueue = 1..Len(writeQueue)
      BY LenProperties DEF TypeOK
    <3>3. CASE i = Len(writeQueue) + 1
      BY <2>4, <2>6, <2>13, <3>1, <3>3
    <3>4. CASE i \in DOMAIN writeQueue
      BY <2>6, <2>13, <3>1, <3>2, <3>4 DEF OneToOne
    <3>5. QED
      BY <3>1, <3>2, <3>3, <3>4
  <2>14. \A p \in Created' : object'[p].id = p
    BY <2>5 DEF OneToOne
  <2>15. QED
    BY <2>10, <2>11, <2>12, <2>13, <2>14 DEF OneToOne
<1>3. QED
  BY <1>1, <1>2

\* A finished save forgets an id that no connection holds any more.
LEMMA SaveCompletesOneToOne ==
    ASSUME GInv, SaveCompletes
    PROVE  OneToOne'
<1> USE DEF GInv, Inv
<1> DEFINE job == Head(writeQueue)
<1>1. /\ writeQueue # <<>> /\ job.kind = "save"
      /\ 1 \in DOMAIN writeQueue /\ job = writeQueue[1]
      /\ writeQueue \in Seq(Jobs)
  BY EmptySeq, LenProperties DEF SaveCompletes, TypeOK, Jobs
<1>2. /\ writeQueue' = Tail(writeQueue)
      /\ sessions' = [sessions EXCEPT ![job.id] = NoObject]
      /\ UNCHANGED <<open, sessionId, object>>
  BY DEF SaveCompletes
<1>3. \A i \in DOMAIN writeQueue' : i + 1 \in DOMAIN writeQueue
                                    /\ writeQueue'[i] = writeQueue[i + 1]
  BY <1>1, <1>2, PendingTail
<1>4. job.id = job.object /\ ~ Running(job.object)
  BY <1>1 DEF OneToOne, IdsAgree
<1>5. \A p : Running(p)' <=> Running(p)
  BY <1>2 DEF Running, Created
<1>6. ASSUME NEW d \in Conns, NEW id, id = sessionId[d], Held(d)
      PROVE  d \in open' /\ sessions'[id] = id /\ Running(id)'
  <2>1. Running(id) /\ sessions[id] = id /\ d \in open /\ id \in Ids
    BY <1>6 DEF OneToOne, Held, TypeOK
  <2>2. id # job.id
    BY <1>4, <2>1
  <2>3. QED
    BY <1>2, <1>5, <2>1, <2>2 DEF TypeOK
<1>7. QED
  BY <1>2, <1>3, <1>5, <1>6 DEF OneToOne, Held, Created

\* A delete, asked for or done, leaves the connections alone.
LEMMA DeleteOneToOne ==
    ASSUME GInv, (\E id \in Ids : DeleteRequested(id)) \/ DeleteCompletes
    PROVE  OneToOne'
<1> USE DEF GInv, Inv
<1>1. /\ UNCHANGED <<open, sessionId, sessions, object>>
      /\ writeQueue \in Seq(Jobs)
  BY DEF DeleteRequested, DeleteCompletes, managerVars, TypeOK, Jobs
<1>2. ASSUME NEW i \in DOMAIN writeQueue', writeQueue'[i].kind = "save"
      PROVE  \E k \in DOMAIN writeQueue : writeQueue'[i] = writeQueue[k]
  <2>1. CASE DeleteCompletes
    BY <1>1, <1>2, <2>1, PendingTail DEF DeleteCompletes
  <2>2. CASE \E id \in Ids : DeleteRequested(id)
    <3>1. PICK id \in Ids : DeleteRequested(id)
      BY <2>2
    <3> DEFINE job == [kind |-> "delete", id |-> id]
    <3>2. job \in Jobs /\ job.kind # "save" /\ writeQueue' = Append(writeQueue, job)
      BY <3>1 DEF Jobs, DeleteJob, DeleteRequested
    <3> HIDE DEF job
    <3>3. /\ DOMAIN writeQueue' = 1..(Len(writeQueue) + 1)
          /\ \A k \in 1..Len(writeQueue) : writeQueue'[k] = writeQueue[k]
          /\ writeQueue'[Len(writeQueue) + 1] = job
      BY <1>1, <3>2, PendingAppend
    <3>4. Len(writeQueue) \in Nat /\ DOMAIN writeQueue = 1..Len(writeQueue)
      BY <1>1, LenProperties
    <3>5. i \in DOMAIN writeQueue
      BY <1>2, <3>2, <3>3, <3>4
    <3>6. QED
      BY <3>3, <3>4, <3>5
  <2>3. QED
    BY <2>1, <2>2
<1>3. \A p : Running(p)' <=> Running(p)
  BY <1>1 DEF Running, Created
<1>4. QED
  BY <1>1, <1>2, <1>3 DEF OneToOne, Held, Created

\* After the process dies nothing is held and nothing runs.
LEMMA ProcessExitsOneToOne ==
    ASSUME GInv, ProcessExits
    PROVE  OneToOne'
<1>1. /\ Created' = Created
      /\ \A o \in Created : object'[o].id = object[o].id /\ object'[o].timer = "cleared"
  <2>1. \A o \in Created : object[o] \in Object
    BY CreatedObject DEF GInv, Inv
  <2>2. QED
    BY <2>1 DEF ProcessExits, Created, Object
<1>2. \A c \in Conns : ~ Held(c)'
  BY DEF ProcessExits, Held
<1>3. DOMAIN writeQueue' = {}
  BY EmptySeq, LenProperties DEF ProcessExits
<1>4. \A o : ~ Running(o)'
  BY <1>1 DEF Running
<1>5. QED
  BY <1>1, <1>2, <1>3, <1>4 DEF GInv, OneToOne, ProcessExits, Held

\* Every step keeps connections and running objects in correspondence.
LEMMA NextOneToOne ==
    ASSUME NamedIds = {}, GInv, Next
    PROVE  OneToOne'
<1>1. ASSUME NEW c \in Conns, NEW id \in Ids, StartNew(c, id) \/ StartExisting(c, id)
      PROVE  OneToOne'
  BY <1>1, StartNewOneToOne, NothingToJoin
<1>2. ASSUME NEW c \in Conns, ImuAnomaly(c) PROVE OneToOne'
  <2> DEFINE o == sessions[sessionId[c]]
             new == [object[o] EXCEPT !.anomalies = @ + 1]
  <2>1. sessionId[c] \in Ids
    BY <1>2 DEF GInv, Inv, ImuAnomaly, Truthy, TypeOK
  <2>2. o \in Created /\ object[o] \in Object /\ object[o].anomalies < MaxEvents
    BY <1>2, <2>1, CreatedObject DEF GInv, Inv, ImuAnomaly, TypeOK
  <2>3. new \in Object /\ new.id = object[o].id /\ new.timer = object[o].timer
    BY <2>2, Constants DEF Object
  <2>4. object' = [object EXCEPT ![o] = new]
    BY <1>2 DEF ImuAnomaly
  <2>5. UNCHANGED <<open, sessionId, sessions, writeQueue>>
    BY <1>2 DEF ImuAnomaly, storeVars
  <2> HIDE DEF o, new
  <2>6. QED
    BY <2>2, <2>3, <2>4, <2>5, GrowsOneToOne
<1>3. ASSUME NEW o \in Created, Tick(o) PROVE OneToOne'
  <2> DEFINE new == [object[o] EXCEPT !.track = @ + 1]
  <2>1. object[o] \in Object /\ object[o].track < MaxEvents
    BY <1>3, CreatedObject DEF GInv, Inv, Tick
  <2>2. new \in Object /\ new.id = object[o].id /\ new.timer = object[o].timer
    BY <2>1, Constants DEF Object
  <2>3. object' = [object EXCEPT ![o] = new]
    BY <1>3 DEF Tick
  <2>4. UNCHANGED <<open, sessionId, sessions, writeQueue>>
    BY <1>3 DEF Tick, storeVars
  <2> HIDE DEF new
  <2>5. QED
    BY <2>2, <2>3, <2>4, GrowsOneToOne
<1>4. ASSUME NEW c \in Conns, StopRequested(c) \/ ConnectionCloses(c) PROVE OneToOne'
  <2>1. PICK silent \in BOOLEAN : EndSession(c, silent)
    BY <1>4 DEF StopRequested, ConnectionCloses
  <2>2. open \ {c} \subseteq open' /\ UNCHANGED sessions
    BY <1>4 DEF StopRequested, ConnectionCloses
  <2>3. QED
    BY <2>1, <2>2, EndSessionOneToOne
<1>5. CASE SaveSerialises
  BY <1>5, StutterOneToOne DEF SaveSerialises, managerVars, GInv
<1>6. CASE SaveCompletes
  BY <1>6, SaveCompletesOneToOne
<1>7. CASE (\E id \in Ids : DeleteRequested(id)) \/ DeleteCompletes
  BY <1>7, DeleteOneToOne
<1>8. CASE ProcessExits
  BY <1>8, ProcessExitsOneToOne
<1>9. QED
  BY <1>1, <1>2, <1>3, <1>4, <1>5, <1>6, <1>7, <1>8 DEF Next, Client, StoreStep

\* With generated ids the two invariants hold together in every reachable state.
THEOREM GeneratedInvariance ==
    ASSUME NamedIds = {}
    PROVE  Spec => []GInv
<1>1. OneToOne /\ UNCHANGED vars => OneToOne'
  BY StutterOneToOne DEF vars
<1>2. Inv /\ OneToOne /\ [Next]_vars => OneToOne'
  BY <1>1, NextOneToOne DEF GInv
<1>3. Spec => []OneToOne
  BY InitOneToOne, Invariance, <1>2, PTL DEF Spec
<1>4. QED
  BY Invariance, <1>3, PTL DEF GInv

\* When the server makes up the ids, a connection that holds a session id holds
\* a registered session whose broadcast timer runs.
THEOREM GeneratedHeldIsLive ==
    ASSUME NamedIds = {}
    PROVE  Spec => []HeldSessionIsLive
<1>1. GInv => HeldSessionIsLive
  <2> SUFFICES ASSUME GInv, NEW c \in open, sessionId[c] # None
               PROVE  Running(sessions[sessionId[c]])
    BY DEF HeldSessionIsLive
  <2>1. c \in Conns
    BY DEF GInv, Inv, TypeOK
  <2>2. QED
    BY <2>1 DEF GInv, OneToOne, Held
<1>2. QED
  BY GeneratedInvariance, <1>1, PTL

\* When the server makes up the ids, every running session is held by an open
\* connection: none is silently left running.
THEOREM GeneratedRunningIsHeld ==
    ASSUME NamedIds = {}
    PROVE  Spec => []RunningSessionIsHeld
<1>1. GInv => RunningSessionIsHeld
  <2> SUFFICES ASSUME GInv, NEW o \in Created, Running(o)
               PROVE  \E c \in open : sessionId[c] = object[o].id
    BY DEF RunningSessionIsHeld
  <2>1. PICK c \in Conns : sessionId[c] = o
    BY DEF GInv, OneToOne
  <2>2. o # None
    BY CreatedObject, Constants DEF GInv, Inv, Ids
  <2>3. c \in open /\ object[o].id = o
    BY <2>1, <2>2 DEF GInv, OneToOne, Held
  <2>4. QED
    BY <2>1, <2>3
<1>2. QED
  BY GeneratedInvariance, <1>1, PTL

-----------------------------------------------------------------------------
(* The refinement of the promise *)

\* A session is saved once, as it was when it ended, under its own number.
Once ==
    /\ \A o \in saved : ~ Running(o) /\ ~ SavePending(o)
    /\ \A i, j \in DOMAIN writeQueue :
          /\ writeQueue[i].kind = "save" /\ writeQueue[j].kind = "save"
          /\ writeQueue[i].object = writeQueue[j].object
          => i = j
    /\ writing # NoRecord => writing.anomalies = object[writing.object].anomalies
    /\ \A id \in Ids : store[id] # NoRecord => store[id].object = id /\ id \in saved

\* What the refinement rests on.
PInv == GInv /\ Whole /\ Once

\* The sessions begun are the numbers up to the last one.
LEMMA CreatedAreNumbers ==
    ASSUME Inv
    PROVE  /\ Len(object) \in Nat /\ Created = 1..Len(object)
           /\ None \notin Created /\ None \notin Conns
<1>1. object \in Seq(Object)
  BY DEF Inv, TypeOK
<1>2. Len(object) \in Nat /\ Created = 1..Len(object)
  BY <1>1, LenProperties DEF Created
<1>3. QED
  BY <1>2, IdAssumption

\* Who holds a session, before a step and after it.
LEMMA HolderIs ==
    ASSUME GInv, NEW o \in Created
    PROVE  /\ \A c \in Conns : sessionId[c] = o => Holder(o) = c
           /\ (\A c \in Conns : sessionId[c] # o) => Holder(o) = None
           /\ Holder(o) \in Conns \cup {None}
<1>1. object[o].id = o /\ o # None
  BY CreatedAreNumbers DEF GInv, OneToOne
<1>2. \A c, d \in Conns : sessionId[c] = o /\ sessionId[d] = o => c = d
  BY <1>1 DEF GInv, OneToOne, Held
<1>3. QED
  BY <1>1, <1>2 DEF Holder

\* The same after a step.
LEMMA HolderIsNext ==
    ASSUME GInv', NEW o \in Created', o # None
    PROVE  /\ \A c \in Conns : sessionId'[c] = o => Holder(o)' = c
           /\ (\A c \in Conns : sessionId'[c] # o) => Holder(o)' = None
           /\ Holder(o)' \in Conns \cup {None}
<1>1. object'[o].id = o
  BY DEF GInv, OneToOne
<1>2. \A c, d \in Conns : sessionId'[c] = o /\ sessionId'[d] = o => c = d
  BY DEF GInv, OneToOne, Held
<1>3. QED
  BY <1>1, <1>2 DEF Holder

\* A function that goes one further is the other one with its last value appended.
LEMMA OneFurther ==
    ASSUME NEW n \in Nat, NEW S, NEW f \in [1..n -> S], NEW g \in [1..(n + 1) -> S],
           \A i \in 1..n : g[i] = f[i]
    PROVE  g = Append(f, g[n + 1])
<1>1. f \in Seq(S) /\ Len(f) = n /\ g \in Seq(S) /\ Len(g) = n + 1 /\ g[n + 1] \in S
  OBVIOUS
<1> DEFINE h == Append(f, g[n + 1])
<1>2. /\ h \in Seq(S) /\ Len(h) = n + 1
      /\ \A i \in 1..n : h[i] = f[i]
      /\ h[n + 1] = g[n + 1]
  BY <1>1, AppendProperties
<1> HIDE DEF h
<1>3. \A i \in 1..(n + 1) : h[i] = g[i]
  BY <1>2
<1>4. h = g
  BY <1>1, <1>2, <1>3, SeqEqual
<1>5. QED
  BY <1>4 DEF h

\* What the refinement mapping gives the four variables of the promise.
PhaseMap == [o \in Created |-> Phase(o)]
HolderMap == [o \in Created |-> Holder(o)]
ContentMap == [o \in Created |-> <<object[o].track, object[o].anomalies>>]
DiskMap == {<<store[id].object, <<store[id].track, store[id].anomalies>>>> :
                id \in {i \in Ids : store[i] # NoRecord}}
MapVars == <<PhaseMap, HolderMap, ContentMap, DiskMap>>

\* The variables of the promise are these.
LEMMA MappedVars ==
    /\ Promise!promiseVars = MapVars
    /\ Promise!promiseVars' = MapVars'
    /\ Promise!Sessions = Created
  BY DEF Promise!promiseVars, Promise!Sessions, MapVars, PhaseMap, HolderMap, ContentMap, DiskMap

Phases == {"recorded", "live", "ending", "lost"}

\* Every phase is one of four, before a step and after it.
LEMMA PhaseIs ==
    /\ \A o : Phase(o) \in Phases
    /\ \A o : Phase(o)' \in Phases
  BY DEF Phase, Phases

\* A start begins a session in the hands of its connection.
LEMMA StartNewBegins ==
    ASSUME NamedIds = {}, PInv, GInv', NEW c \in Conns, NEW id \in Ids, StartNew(c, id)
    PROVE  Once' /\ Promise!Begin(c)
<1> USE DEF PInv, GInv, Inv
<1> DEFINE n == Len(object)
<1>1. /\ n \in Nat /\ Created = 1..n
      /\ Created' = 1..(n + 1)
      /\ \A o \in Created : object'[o] = object[o]
      /\ object'[n + 1] = [id |-> id, timer |-> "running", track |-> 0, anomalies |-> 0]
  <2>1. n \in Nat /\ Created = 1..n /\ object \in Seq(Object)
    BY CreatedAreNumbers DEF TypeOK
  <2>2. Created' = Created \cup {n + 1} /\ \A o \in Created : object'[o] = object[o]
    BY ObjectAppend DEF StartNew
  <2>3. object'[n + 1] = [id |-> id, timer |-> "running", track |-> 0, anomalies |-> 0]
    BY <2>1 DEF StartNew
  <2>4. QED
    BY <2>1, <2>2, <2>3
<1>2. /\ id = n + 1 /\ id \notin Created /\ sessionId[c] = None
      /\ sessionId' = [sessionId EXCEPT ![c] = id]
      /\ UNCHANGED <<writeQueue, writing, store, saved>>
  BY <1>1, OnlyGenerated DEF StartNew, Attach, storeVars
<1>3. /\ \A o : Running(o)' <=> Running(o) \/ o = id
      /\ \A o : SavePending(o)' <=> SavePending(o)
      /\ saved \subseteq Created
      /\ \A i \in DOMAIN writeQueue : writeQueue[i].kind = "save" => writeQueue[i].object \in Created
  BY <1>1, <1>2 DEF Running, SavePending, TypeOK, IdsAgree
<1>4. Once'
  <2>1. writing # NoRecord => writing.object \in Created
    BY DEF Whole, Settled
  <2>2. QED
    BY <1>1, <1>2, <1>3, <2>1 DEF Once
<1>5. /\ \A o \in Created : Phase(o)' = Phase(o)
      /\ \A o : o = id => Phase(o)' = "live"
  BY <1>2, <1>3 DEF Phase
<1>6. \A o \in Created : Holder(o) # c
  <2>1. \A o \in Created : sessionId[c] # o
    BY <1>2, CreatedAreNumbers
  <2>2. \A o \in Created : \A d \in Conns : sessionId[d] = o => Holder(o) = d
    BY HolderIs
  <2>3. \A o \in Created : (\A d \in Conns : sessionId[d] # o) => Holder(o) = None
    BY HolderIs
  <2>4. QED
    BY <2>1, <2>2, <2>3, CreatedAreNumbers
<1>7. ASSUME NEW o \in Created PROVE Holder(o)' = Holder(o)
  <2>1. o \in Created' /\ o # None /\ o # id
    BY <1>1, <1>2, CreatedAreNumbers
  <2>2. \A d \in Conns : sessionId'[d] = o <=> sessionId[d] = o
    BY <1>2, <2>1 DEF TypeOK
  <2>3. CASE \E d \in Conns : sessionId[d] = o
    BY <2>1, <2>2, <2>3, HolderIs, HolderIsNext
  <2>4. CASE \A d \in Conns : sessionId[d] # o
    BY <2>1, <2>2, <2>4, HolderIs, HolderIsNext
  <2>5. QED
    BY <2>3, <2>4
<1>8. ASSUME NEW o, o = id PROVE Holder(o)' = c
  <2>1. o \in Created' /\ o # None /\ sessionId'[c] = o
    BY <1>1, <1>2, <1>8, OnlyGenerated, Constants DEF TypeOK
  <2>2. QED
    BY <2>1, HolderIsNext
<1>9. PhaseMap' = Append(PhaseMap, "live")
  <2>1. PhaseMap \in [1..n -> Phases] /\ PhaseMap' \in [1..(n + 1) -> Phases]
    BY <1>1, PhaseIs DEF PhaseMap
  <2>2. \A i \in 1..n : PhaseMap'[i] = PhaseMap[i]
    BY <1>1, <1>5 DEF PhaseMap
  <2>3. PhaseMap'[n + 1] = "live"
    BY <1>1, <1>2, <1>5 DEF PhaseMap
  <2>4. QED
    BY <1>1, <2>1, <2>2, <2>3, OneFurther
<1>10. HolderMap' = Append(HolderMap, c)
  <2>1. HolderMap \in [1..n -> Conns \cup {None}]
    BY <1>1, HolderIs DEF HolderMap
  <2>2. \A i \in 1..n : HolderMap'[i] = HolderMap[i]
    BY <1>1, <1>7 DEF HolderMap
  <2>3. HolderMap'[n + 1] = c
    BY <1>1, <1>2, <1>8 DEF HolderMap
  <2>4. HolderMap' = [o \in 1..(n + 1) |-> Holder(o)']
    BY <1>1 DEF HolderMap
  <2>5. HolderMap' \in [1..(n + 1) -> Conns \cup {None}]
    <3>1. \A i \in 1..(n + 1) : HolderMap'[i] \in Conns \cup {None}
      BY <1>1, <2>1, <2>2, <2>3
    <3>2. QED
      BY <2>4, <3>1
  <2>6. QED
    BY <1>1, <2>1, <2>2, <2>3, <2>5, OneFurther
<1>11. ContentMap' = Append(ContentMap, <<0, 0>>)
  <2> DEFINE Pair(o) == <<object[o].track, object[o].anomalies>>
  <2>1. \A o \in Created : Pair(o) \in Nat \X Nat
    BY CreatedObject, Constants DEF Object
  <2>2. ContentMap \in [1..n -> Nat \X Nat]
    BY <1>1, <2>1 DEF ContentMap
  <2>3. \A i \in 1..n : ContentMap'[i] = ContentMap[i]
    BY <1>1 DEF ContentMap
  <2>4. ContentMap'[n + 1] = <<0, 0>>
    BY <1>1 DEF ContentMap
  <2>5. ContentMap' \in [1..(n + 1) -> Nat \X Nat]
    <3>0. <<0, 0>> \in Nat \X Nat
      OBVIOUS
    <3>1. ASSUME NEW i \in 1..(n + 1) PROVE ContentMap'[i] \in Nat \X Nat
      <4>1. CASE i = n + 1
        BY <2>4, <3>0, <4>1
      <4>2. CASE i \in 1..n
        BY <2>2, <2>3, <4>2
      <4>3. QED
        BY <1>1, <4>1, <4>2
    <3>2. ContentMap' = [o \in 1..(n + 1) |-> ContentMap'[o]]
      BY <1>1 DEF ContentMap
    <3>3. QED
      BY <3>1, <3>2
  <2>6. QED
    BY <1>1, <2>2, <2>3, <2>4, <2>5, OneFurther
<1>12. DiskMap' = DiskMap
  BY <1>2 DEF DiskMap
<1>13. Promise!Begin(c)
  <2>1. \A s \in Created : HolderMap[s] # c
    BY <1>6 DEF HolderMap
  <2>2. QED
    BY <1>9, <1>10, <1>11, <1>12, <2>1
       DEF Promise!Begin, Promise!Sessions, PhaseMap, HolderMap, ContentMap, DiskMap
<1>14. QED
  BY <1>4, <1>13

\* A step that leaves phases, holders, contents and records alone.
LEMMA NothingMapped ==
    ASSUME PInv, GInv', UNCHANGED <<object, sessionId, store, saved>>,
           \A o \in Created : SavePending(o)' <=> SavePending(o)
    PROVE  UNCHANGED MapVars
<1>1. Created' = Created /\ \A o : Running(o)' <=> Running(o)
  BY DEF Created, Running
<1>2. PhaseMap' = PhaseMap
  BY <1>1 DEF PhaseMap, Phase
<1>3. HolderMap' = HolderMap
  BY DEF HolderMap, Holder, Created
<1>4. ContentMap' = ContentMap /\ DiskMap' = DiskMap
  BY DEF ContentMap, DiskMap, Created
<1>5. QED
  BY <1>2, <1>3, <1>4 DEF MapVars

\* What stop_session and close do to a session that is held.
LEMMA EndSessionEnds ==
    ASSUME NamedIds = {}, PInv, GInv', NEW c \in Conns, NEW silent \in BOOLEAN,
           EndSession(c, silent), UNCHANGED <<sessions, writing, store, saved>>
    PROVE  Once' /\ (UNCHANGED MapVars \/ \E s \in Created : Promise!End(s))
<1> USE DEF PInv, GInv, Inv
<1> DEFINE o == sessionId[c]
<1>1. CASE ~ Held(c)
  <2>1. UNCHANGED <<sessionId, listeners, object, writeQueue>>
    BY <1>1, OnlyGenerated DEF EndSession, Held
  <2>2. UNCHANGED MapVars
    BY <2>1, NothingMapped DEF SavePending
  <2>3. QED
    BY <2>1, <2>2 DEF Once, Running, Created, SavePending
<1>2. CASE Held(c)
  <2>1. o \in Created /\ o \in Ids /\ sessions[o] = o /\ Running(o) /\ o # NoObject
    <3>1. sessions[o] = o /\ Running(o) /\ o \in Ids
      BY <1>2 DEF OneToOne, Held, TypeOK
    <3>2. QED
      BY <3>1, CreatedObject, Constants DEF Running
  <2> DEFINE new == [object[o] EXCEPT !.timer = "cleared"]
             job == [kind |-> "save", id |-> o, object |-> o,
                     anomalyCount |-> object[o].anomalies, conn |-> c, silent |-> silent]
  <2>2. /\ sessionId' = [sessionId EXCEPT ![c] = None]
        /\ object' = [object EXCEPT ![o] = new]
        /\ writeQueue' = Append(writeQueue, job)
    BY <1>2, <2>1, OnlyGenerated DEF EndSession, StopSession, Held
  <2>3. /\ new \in Object /\ new.id = object[o].id /\ new.timer = "cleared"
        /\ new.track = object[o].track /\ new.anomalies = object[o].anomalies
    BY <2>1, CreatedObject DEF Object
  <2>4. job \in Jobs /\ job.object = o /\ job.kind = "save"
    BY <2>1, CreatedObject DEF Jobs, SaveJob, Object
  <2> HIDE DEF new, job
  <2>5. /\ Created' = Created
        /\ \A p \in Created : p # o => object'[p] = object[p]
        /\ object'[o] = new
    BY <2>1, <2>2, <2>3, ObjectUpdate
  <2>6. /\ \A p : p # o => (Running(p)' <=> Running(p))
        /\ \A p : p = o => ~ Running(p)'
    BY <2>3, <2>5 DEF Running
  <2>7. /\ Len(writeQueue) \in Nat /\ DOMAIN writeQueue = 1..Len(writeQueue)
        /\ DOMAIN writeQueue' = 1..(Len(writeQueue) + 1)
        /\ \A k \in 1..Len(writeQueue) : writeQueue'[k] = writeQueue[k]
        /\ writeQueue'[Len(writeQueue) + 1] = job
    BY <2>2, <2>4, PendingAppend, LenProperties DEF TypeOK, Jobs
  <2>8. /\ \A p : p # o => (SavePending(p)' <=> SavePending(p))
        /\ \A p : p = o => SavePending(p)'
    <3>1. ASSUME NEW p, SavePending(p) \/ p = o PROVE SavePending(p)'
      BY <2>4, <2>7, <3>1 DEF SavePending
    <3>2. ASSUME NEW p, p # o, SavePending(p)' PROVE SavePending(p)
      <4>1. PICK i \in DOMAIN writeQueue' : writeQueue'[i].kind = "save" /\ writeQueue'[i].object = p
        BY <3>2 DEF SavePending
      <4>2. i # Len(writeQueue) + 1
        BY <2>4, <2>7, <3>2, <4>1
      <4>3. i \in DOMAIN writeQueue /\ writeQueue'[i] = writeQueue[i]
        BY <2>7, <4>1, <4>2
      <4>4. QED
        BY <4>1, <4>3 DEF SavePending
    <3>3. QED
      BY <3>1, <3>2
  <2>9. o \notin saved /\ \A i \in DOMAIN writeQueue : writeQueue[i].kind = "save" => writeQueue[i].object # o
    BY <2>1 DEF Once, OneToOne
  <2>10. Once'
    <3>1. \A p \in saved' : ~ Running(p)' /\ ~ SavePending(p)'
      BY <2>6, <2>8, <2>9 DEF Once
    <3>2. ASSUME NEW i \in DOMAIN writeQueue', NEW j \in DOMAIN writeQueue',
                 writeQueue'[i].kind = "save", writeQueue'[j].kind = "save",
                 writeQueue'[i].object = writeQueue'[j].object
          PROVE  i = j
      <4>1. CASE i \in DOMAIN writeQueue /\ j \in DOMAIN writeQueue
        BY <2>7, <3>2, <4>1 DEF Once
      <4>2. CASE i = Len(writeQueue) + 1 \/ j = Len(writeQueue) + 1
        BY <2>4, <2>7, <2>9, <3>2, <4>2
      <4>3. QED
        BY <2>7, <4>1, <4>2
    <3>3. writing # NoRecord => writing.object \in Created
      BY DEF Whole, Settled
    <3>4. writing' # NoRecord => writing'.anomalies = object'[writing'.object].anomalies
      BY <2>3, <2>5, <3>3 DEF Once
    <3>5. QED
      BY <3>1, <3>2, <3>4 DEF Once
  <2>11. /\ \A p \in Created : p # o => Phase(p)' = Phase(p)
         /\ \A p : p = o => Phase(p)' = "ending"
         /\ Phase(o) = "live"
    BY <2>1, <2>6, <2>8, <2>9 DEF Phase
  <2>12. ASSUME NEW p \in Created, p # o PROVE Holder(p)' = Holder(p)
    <3>1. p \in Created' /\ p # None
      BY <2>5, CreatedAreNumbers
    <3>2. \A d \in Conns : sessionId'[d] = p <=> sessionId[d] = p
      BY <2>2, <2>12, <3>1 DEF TypeOK
    <3>3. CASE \E d \in Conns : sessionId[d] = p
      BY <3>1, <3>2, <3>3, HolderIs, HolderIsNext
    <3>4. CASE \A d \in Conns : sessionId[d] # p
      BY <3>1, <3>2, <3>4, HolderIs, HolderIsNext
    <3>5. QED
      BY <3>3, <3>4
  <2>13. ASSUME NEW p, p = o PROVE Holder(p)' = None
    <3>1. p \in Created' /\ p # None
      BY <2>1, <2>5, <2>13, CreatedAreNumbers
    <3>2. \A d \in Conns : sessionId'[d] # p
      BY <1>2, <2>2, <2>13, <3>1 DEF TypeOK, OneToOne, Held
    <3>3. QED
      BY <3>1, <3>2, HolderIsNext
  <2>14. PhaseMap' = [PhaseMap EXCEPT ![o] = "ending"] /\ PhaseMap[o] = "live"
    BY <2>1, <2>5, <2>11 DEF PhaseMap
  <2>15. HolderMap' = [HolderMap EXCEPT ![o] = None]
    BY <2>1, <2>5, <2>12, <2>13 DEF HolderMap
  <2>16. ContentMap' = ContentMap /\ DiskMap' = DiskMap
    <3>1. \A p \in Created : object'[p].track = object[p].track /\ object'[p].anomalies = object[p].anomalies
      BY <2>3, <2>5
    <3>2. QED
      BY <2>5, <3>1 DEF ContentMap, DiskMap
  <2>17. Promise!End(o)
    BY <2>14, <2>15, <2>16 DEF Promise!End, PhaseMap, HolderMap, ContentMap, DiskMap
  <2>18. QED
    BY <2>1, <2>10, <2>17
<1>3. QED
  BY <1>1, <1>2

\* A running object that gathers a state or an anomaly is a session that grows.
LEMMA ObjectGrows ==
    ASSUME NamedIds = {}, PInv, GInv', NEW o \in Created, Running(o), NEW new \in Object,
           new.id = object[o].id, new.timer = object[o].timer,
           object' = [object EXCEPT ![o] = new],
           UNCHANGED <<open, sessionId, sessions, storeVars>>,
           \/ new.track = object[o].track + 1 /\ new.anomalies = object[o].anomalies
           \/ new.track = object[o].track /\ new.anomalies = object[o].anomalies + 1
    PROVE  Once' /\ Promise!Grow(o)
<1> USE DEF PInv, GInv, Inv
<1>1. /\ Created' = Created
      /\ \A p \in Created : p # o => object'[p] = object[p]
      /\ \A p \in Created : object'[p].id = object[p].id
      /\ object'[o] = new
  BY ObjectUpdate
<1>2. UNCHANGED <<writeQueue, writing, store, saved>>
  BY DEF storeVars
<1>3. /\ \A p : Running(p)' <=> Running(p)
      /\ \A p : SavePending(p)' <=> SavePending(p)
  BY <1>1, <1>2 DEF Running, SavePending
<1>4. Once'
  <2>1. writing # NoRecord => writing.object \in Created /\ writing.object # o
    BY DEF Whole, Settled
  <2>2. QED
    BY <1>1, <1>2, <1>3, <2>1 DEF Once
<1>5. PhaseMap' = PhaseMap /\ PhaseMap[o] = "live"
  BY <1>1, <1>2, <1>3 DEF PhaseMap, Phase, Once
<1>6. HolderMap' = HolderMap /\ DiskMap' = DiskMap
  BY <1>1, <1>2 DEF HolderMap, Holder, DiskMap
<1>7. \E k \in {1, 2} : ContentMap' = [ContentMap EXCEPT ![o][k] = @ + 1]
  <2> DEFINE t == object[o].track
             a == object[o].anomalies
  <2>1. ContentMap[o] = <<t, a>>
    BY DEF ContentMap
  <2>2. [<<t, a>> EXCEPT ![1] = @ + 1] = <<t + 1, a>> /\ [<<t, a>> EXCEPT ![2] = @ + 1] = <<t, a + 1>>
    OBVIOUS
  <2>3. ContentMap' = [ContentMap EXCEPT ![o] = <<new.track, new.anomalies>>]
    <3>1. \A p \in Created : p # o => ContentMap'[p] = ContentMap[p]
      BY <1>1 DEF ContentMap
    <3>2. ContentMap'[o] = <<new.track, new.anomalies>>
      BY <1>1 DEF ContentMap
    <3>3. /\ ContentMap' = [p \in Created |-> ContentMap'[p]]
          /\ ContentMap = [p \in Created |-> ContentMap[p]]
      BY <1>1 DEF ContentMap
    <3> HIDE DEF ContentMap
    <3>4. QED
      BY <3>1, <3>2, <3>3
  <2>4. CASE new.track = t + 1 /\ new.anomalies = a
    BY <2>1, <2>2, <2>3, <2>4
  <2>5. CASE new.track = t /\ new.anomalies = a + 1
    BY <2>1, <2>2, <2>3, <2>5
  <2>6. QED
    BY <2>4, <2>5
<1>8. Promise!Grow(o)
  BY <1>5, <1>6, <1>7 DEF Promise!Grow, PhaseMap, HolderMap, ContentMap, DiskMap
<1>9. QED
  BY <1>4, <1>8

\* The death of the process is the crash of the promise.
LEMMA ProcessExitsCrashes ==
    ASSUME NamedIds = {}, PInv, GInv', ProcessExits
    PROVE  Once' /\ Promise!Crash
<1> USE DEF PInv, GInv, Inv
<1>1. /\ Created' = Created
      /\ \A o \in Created : /\ object'[o].timer = "cleared"
                            /\ object'[o].track = object[o].track
                            /\ object'[o].anomalies = object[o].anomalies
  <2>1. \A o \in Created : object[o] \in Object
    BY CreatedObject
  <2>2. QED
    BY <2>1 DEF ProcessExits, Created, Object
<1>2. DOMAIN writeQueue' = {} /\ writing' = NoRecord /\ UNCHANGED <<store, saved>>
  BY EmptySeq, LenProperties DEF ProcessExits
<1>3. \A o : ~ Running(o)' /\ ~ SavePending(o)'
  BY <1>1, <1>2 DEF Running, SavePending
<1>4. Once'
  BY <1>2, <1>3 DEF Once
<1>5. PhaseMap' = [s \in Created |-> IF PhaseMap[s] = "recorded" THEN "recorded" ELSE "lost"]
  <2>1. \A o \in Created : Phase(o)' = IF Phase(o) = "recorded" THEN "recorded" ELSE "lost"
    BY <1>2, <1>3 DEF Phase
  <2>2. QED
    BY <1>1, <2>1 DEF PhaseMap
<1>6. HolderMap' = [s \in Created |-> None]
  <2>1. ASSUME NEW o \in Created PROVE Holder(o)' = None
    <3>1. o \in Created' /\ o # None /\ \A c \in Conns : sessionId'[c] # o
      BY <1>1, CreatedAreNumbers DEF ProcessExits
    <3>2. QED
      BY <3>1, HolderIsNext
  <2>2. QED
    BY <1>1, <2>1 DEF HolderMap
<1>7. ContentMap' = ContentMap /\ DiskMap' = DiskMap
  BY <1>1, <1>2 DEF ContentMap, DiskMap
<1>8. Promise!Crash
  BY <1>5, <1>6, <1>7
     DEF Promise!Crash, Promise!Sessions, PhaseMap, HolderMap, ContentMap, DiskMap
<1>9. QED
  BY <1>4, <1>8

\* Serialising a record changes nothing the promise speaks of.
LEMMA SaveSerialisesIsHidden ==
    ASSUME PInv, GInv', SaveSerialises
    PROVE  Once' /\ UNCHANGED MapVars
<1>1. UNCHANGED <<object, sessionId, writeQueue, store, saved>>
  BY DEF SaveSerialises, managerVars
<1>2. \A o : (SavePending(o)' <=> SavePending(o)) /\ (Running(o)' <=> Running(o))
  BY <1>1 DEF SavePending, Running, Created
<1>3. writing'.anomalies = object[writing'.object].anomalies
  BY DEF SaveSerialises
<1>4. Once'
  BY <1>1, <1>2, <1>3 DEF PInv, Once
<1>5. QED
  BY <1>1, <1>2, <1>4, NothingMapped

\* Nor does a delete that is asked for.
LEMMA DeleteRequestedIsHidden ==
    ASSUME PInv, GInv', NEW id \in Ids, DeleteRequested(id)
    PROVE  Once' /\ UNCHANGED MapVars
<1> USE DEF PInv, GInv, Inv
<1> DEFINE job == [kind |-> "delete", id |-> id]
<1>1. UNCHANGED <<object, sessionId, writing, store, saved>>
  BY DEF DeleteRequested, managerVars
<1>2. job \in Jobs /\ job.kind # "save" /\ writeQueue' = Append(writeQueue, job)
  BY DEF Jobs, DeleteJob, DeleteRequested
<1> HIDE DEF job
<1>3. /\ DOMAIN writeQueue = 1..Len(writeQueue) /\ Len(writeQueue) \in Nat
      /\ DOMAIN writeQueue' = 1..(Len(writeQueue) + 1)
      /\ \A k \in 1..Len(writeQueue) : writeQueue'[k] = writeQueue[k]
      /\ writeQueue'[Len(writeQueue) + 1] = job
  BY <1>2, PendingAppend, LenProperties DEF TypeOK, Jobs
<1>4. \A i \in DOMAIN writeQueue' : writeQueue'[i].kind = "save" =>
          i \in DOMAIN writeQueue /\ writeQueue'[i] = writeQueue[i]
  BY <1>2, <1>3
<1>5. \A o : SavePending(o)' <=> SavePending(o)
  <2>1. \A o : SavePending(o)' => SavePending(o)
    BY <1>4 DEF SavePending
  <2>2. \A o : SavePending(o) => SavePending(o)'
    BY <1>3 DEF SavePending
  <2>3. QED
    BY <2>1, <2>2
<1>6. \A o : Running(o)' <=> Running(o)
  BY <1>1 DEF Running, Created
<1>7. Once'
  <2>1. \A o \in saved' : ~ Running(o)' /\ ~ SavePending(o)'
    BY <1>1, <1>5, <1>6 DEF Once
  <2>2. \A i, j \in DOMAIN writeQueue' :
          /\ writeQueue'[i].kind = "save" /\ writeQueue'[j].kind = "save"
          /\ writeQueue'[i].object = writeQueue'[j].object
          => i = j
    BY <1>4 DEF Once
  <2>3. QED
    BY <1>1, <2>1, <2>2 DEF Once
<1>8. QED
  BY <1>1, <1>5, <1>7, NothingMapped

\* The job that leaves the queue was the only one for its object, and the others
\* keep their order.
LEMMA JobLeavesOnce ==
    ASSUME PInv, writeQueue # <<>>, writeQueue' = Tail(writeQueue)
    PROVE  /\ \A o : SavePending(o)' => SavePending(o)
           /\ \A o : SavePending(o) /\ ~ SavePending(o)'
                        => Head(writeQueue).kind = "save" /\ Head(writeQueue).object = o
           /\ \A o : Head(writeQueue).kind = "save" /\ Head(writeQueue).object = o
                        => SavePending(o) /\ ~ SavePending(o)'
           /\ \A i, j \in DOMAIN writeQueue' :
                 /\ writeQueue'[i].kind = "save" /\ writeQueue'[j].kind = "save"
                 /\ writeQueue'[i].object = writeQueue'[j].object
                 => i = j
<1> USE DEF PInv, GInv, Inv
<1>1. /\ writeQueue \in Seq(Jobs) /\ writeQueue' \in Seq(Jobs)
      /\ 1 \in DOMAIN writeQueue /\ Head(writeQueue) = writeQueue[1]
  BY EmptySeq, LenProperties DEF TypeOK, Jobs
<1>2. \A i \in DOMAIN writeQueue' : /\ i \in Nat /\ i >= 1
                                    /\ i + 1 \in DOMAIN writeQueue
                                    /\ writeQueue'[i] = writeQueue[i + 1]
  <2>1. \A i \in DOMAIN writeQueue' : i \in Nat /\ i >= 1
    BY <1>1, LenProperties
  <2>2. QED
    BY <1>1, <2>1, PendingTail
<1>3. \A o : SavePending(o)' => SavePending(o)
  BY <1>2 DEF SavePending
<1>4. \A o : SavePending(o) /\ ~ SavePending(o)'
                => Head(writeQueue).kind = "save" /\ Head(writeQueue).object = o
  BY <1>1, PendingTail
<1>5. ASSUME NEW o, Head(writeQueue).kind = "save", Head(writeQueue).object = o
      PROVE  SavePending(o) /\ ~ SavePending(o)'
  <2>1. SavePending(o)
    BY <1>1, <1>5 DEF SavePending
  <2>2. ASSUME NEW i \in DOMAIN writeQueue', writeQueue'[i].kind = "save",
               writeQueue'[i].object = o
        PROVE  FALSE
    <3>1. i + 1 = 1
      BY <1>1, <1>2, <1>5, <2>2 DEF Once
    <3>2. QED
      BY <1>2, <3>1
  <2>3. QED
    BY <2>1, <2>2 DEF SavePending
<1>6. ASSUME NEW i \in DOMAIN writeQueue', NEW j \in DOMAIN writeQueue',
             writeQueue'[i].kind = "save", writeQueue'[j].kind = "save",
             writeQueue'[i].object = writeQueue'[j].object
      PROVE  i = j
  <2>1. i + 1 = j + 1
    BY <1>2, <1>6 DEF Once
  <2>2. QED
    BY <1>2, <2>1
<1>7. QED
  BY <1>3, <1>4, <1>5, <1>6

\* A finished save persists the session it was queued for, as it is.
LEMMA SaveCompletesPersists ==
    ASSUME PInv, GInv', SaveCompletes
    PROVE  Once' /\ \E s \in Created : Promise!Persist(s)
<1> USE DEF PInv, GInv, Inv
<1> DEFINE job == Head(writeQueue)
           o == job.object
<1>1. /\ writing # NoRecord /\ writing.object = o
      /\ writeQueue # <<>> /\ job.kind = "save"
      /\ 1 \in DOMAIN writeQueue /\ job = writeQueue[1]
  BY EmptySeq, LenProperties DEF SaveCompletes, TypeOK
<1>2. /\ o \in Created /\ job.id = o /\ o \in Ids /\ ~ Running(o)
      /\ object[o].id = o
  <2>1. o \in Created /\ job.id = o /\ ~ Running(o) /\ object[o].id = o
    BY <1>1 DEF IdsAgree, OneToOne
  <2>2. o \in Ids
    BY <2>1, CreatedObject DEF Ids
  <2>3. QED
    BY <2>1, <2>2
<1>3. /\ writeQueue' = Tail(writeQueue) /\ writing' = NoRecord
      /\ store' = [store EXCEPT ![o] = writing]
      /\ saved' = saved \cup {o}
      /\ UNCHANGED <<sessionId, object>>
  BY <1>2 DEF SaveCompletes
<1>4. /\ \A p : SavePending(p)' => SavePending(p)
      /\ \A p : p # o => (SavePending(p)' <=> SavePending(p))
      /\ SavePending(o)
      /\ \A p : p = o => ~ SavePending(p)'
  BY <1>1, <1>3, JobLeavesOnce
<1>5. Created' = Created /\ \A p : Running(p)' <=> Running(p)
  BY <1>3 DEF Running, Created
<1>6. o \notin saved /\ store[o] = NoRecord
  BY <1>2, <1>4 DEF Once
<1>7. Once'
  <2>1. \A p \in saved' : ~ Running(p)' /\ ~ SavePending(p)'
    BY <1>2, <1>3, <1>4, <1>5 DEF Once
  <2>2. ASSUME NEW id \in Ids, store'[id] # NoRecord
        PROVE  store'[id].object = id /\ id \in saved'
    <3>1. CASE id = o
      BY <1>1, <1>3, <3>1 DEF TypeOK
    <3>2. CASE id # o
      BY <1>3, <2>2, <3>2 DEF TypeOK, Once
    <3>3. QED
      BY <3>1, <3>2
  <2>3. QED
    BY <1>1, <1>3, <2>1, <2>2, JobLeavesOnce DEF Once
<1>8. PhaseMap' = [PhaseMap EXCEPT ![o] = "recorded"] /\ PhaseMap[o] = "ending"
  <2>1. \A p \in Created : p # o => Phase(p)' = Phase(p)
    BY <1>3, <1>4, <1>5 DEF Phase
  <2>2. Phase(o) = "ending" /\ \A p : p = o => Phase(p)' = "recorded"
    BY <1>2, <1>3, <1>4, <1>6 DEF Phase
  <2>3. QED
    BY <1>2, <1>5, <2>1, <2>2 DEF PhaseMap
<1>9. HolderMap' = HolderMap /\ ContentMap' = ContentMap
  BY <1>3 DEF HolderMap, Holder, ContentMap, Created
<1>10. DiskMap' = DiskMap \cup {<<o, ContentMap[o]>>}
  <2> DEFINE Entry(r) == <<r.object, <<r.track, r.anomalies>>>>
  <2>1. Entry(writing) = <<o, ContentMap[o]>>
    BY <1>1, <1>2 DEF ContentMap, Whole, Settled, Once
  <2>2. /\ DiskMap = {Entry(store[id]) : id \in {i \in Ids : store[i] # NoRecord}}
        /\ DiskMap' = {Entry(store'[id]) : id \in {i \in Ids : store'[i] # NoRecord}}
    BY DEF DiskMap
  <2>3. {i \in Ids : store'[i] # NoRecord} = {i \in Ids : store[i] # NoRecord} \cup {o}
    BY <1>1, <1>2, <1>3 DEF TypeOK
  <2>4. \A id \in {i \in Ids : store[i] # NoRecord} : store'[id] = store[id]
    BY <1>3, <1>6 DEF TypeOK
  <2>5. store'[o] = writing
    BY <1>2, <1>3 DEF TypeOK
  <2> HIDE DEF Entry
  <2>6. QED
    BY <2>1, <2>2, <2>3, <2>4, <2>5
<1>11. \E s \in Created : Promise!Persist(s)
  BY <1>2, <1>8, <1>9, <1>10
     DEF Promise!Persist, PhaseMap, HolderMap, ContentMap, DiskMap
<1>12. QED
  BY <1>7, <1>11

\* A finished delete discards the record, if the session ever was.
LEMMA DeleteCompletesDiscards ==
    ASSUME PInv, GInv', DeleteCompletes
    PROVE  Once' /\ (UNCHANGED MapVars \/ \E s \in Created : Promise!Discard(s))
<1> USE DEF PInv, GInv, Inv
<1> DEFINE id == Head(writeQueue).id
<1>1. /\ writeQueue # <<>> /\ Head(writeQueue).kind # "save"
      /\ writeQueue' = Tail(writeQueue)
      /\ store' = [store EXCEPT ![id] = NoRecord]
      /\ UNCHANGED <<sessionId, object, writing, saved>>
  BY DEF DeleteCompletes, managerVars
<1>2. \A p : SavePending(p)' <=> SavePending(p)
  BY <1>1, JobLeavesOnce
<1>3. Created' = Created /\ \A p : Running(p)' <=> Running(p)
  BY <1>1 DEF Running, Created
<1>4. \A i \in Ids : store'[i] = IF i = id THEN NoRecord ELSE store[i]
  BY <1>1 DEF TypeOK
<1> HIDE DEF id
<1>5. Once'
  <2>1. \A p \in saved' : ~ Running(p)' /\ ~ SavePending(p)'
    BY <1>1, <1>2, <1>3 DEF Once
  <2>2. \A i \in Ids : store'[i] # NoRecord => store'[i].object = i /\ i \in saved'
    BY <1>1, <1>4 DEF Once
  <2>3. QED
    BY <1>1, <2>1, <2>2, JobLeavesOnce DEF Once
<1>6. PhaseMap' = PhaseMap /\ HolderMap' = HolderMap /\ ContentMap' = ContentMap
  <2>1. \A p : Phase(p)' = Phase(p)
    BY <1>1, <1>2, <1>3 DEF Phase
  <2>2. QED
    BY <1>1, <1>3, <2>1 DEF PhaseMap, HolderMap, Holder, ContentMap
<1>7. CASE id \in Created
  <2> DEFINE Entry(r) == <<r.object, <<r.track, r.anomalies>>>>
             Kept == {i \in Ids : store[i] # NoRecord}
  <2>1. /\ DiskMap = {Entry(store[i]) : i \in Kept}
        /\ DiskMap' = {Entry(store'[i]) : i \in {j \in Ids : store'[j] # NoRecord}}
    BY DEF DiskMap
  <2>2. {j \in Ids : store'[j] # NoRecord} = Kept \ {id}
    BY <1>4
  <2>3. \A i \in Kept \ {id} : store'[i] = store[i]
    BY <1>4
  <2>4. \A i \in Kept : Entry(store[i])[1] = i
    BY DEF Once
  <2> HIDE DEF Entry, Kept
  <2>5. DiskMap' = {entry \in DiskMap : entry[1] # id}
    BY <2>1, <2>2, <2>3, <2>4
  <2>6. \E s \in Created : Promise!Discard(s)
    BY <1>6, <1>7, <2>5 DEF Promise!Discard, PhaseMap, HolderMap, ContentMap, DiskMap
  <2>7. QED
    BY <1>5, <2>6
<1>8. CASE id \notin Created
  <2>1. \A i \in Ids : i = id => store[i] = NoRecord
    BY <1>8 DEF Once, TypeOK
  <2>2. \A i \in Ids : store'[i] = store[i]
    BY <1>4, <2>1
  <2>3. {i \in Ids : store'[i] # NoRecord} = {i \in Ids : store[i] # NoRecord}
    BY <2>2
  <2>4. DiskMap' = DiskMap
    BY <2>2, <2>3 DEF DiskMap
  <2>5. QED
    BY <1>5, <1>6, <2>4 DEF MapVars
<1>9. QED
  BY <1>7, <1>8

\* An anomaly that a frame reveals makes the session of its connection grow.
LEMMA ImuAnomalyGrows ==
    ASSUME NamedIds = {}, PInv, GInv', NEW c \in Conns, ImuAnomaly(c)
    PROVE  Once' /\ \E s \in Created : Promise!Grow(s)
<1> USE DEF PInv, GInv, Inv
<1> DEFINE o == sessionId[c]
           new == [object[o] EXCEPT !.anomalies = @ + 1]
<1>1. Held(c)
  BY OnlyGenerated DEF ImuAnomaly, Held
<1>2. sessions[o] = o /\ Running(o) /\ o \in Created
  BY <1>1 DEF OneToOne, Running
<1>3. object[o] \in Object /\ object[o].anomalies < MaxEvents
  BY <1>2, CreatedObject DEF ImuAnomaly
<1>4. /\ new \in Object /\ new.id = object[o].id /\ new.timer = object[o].timer
      /\ new.track = object[o].track /\ new.anomalies = object[o].anomalies + 1
  BY <1>3, Constants DEF Object
<1>5. object' = [object EXCEPT ![o] = new]
  BY <1>2 DEF ImuAnomaly
<1>6. UNCHANGED <<open, sessionId, sessions, storeVars>>
  BY DEF ImuAnomaly
<1> HIDE DEF o, new
<1>7. QED
  BY <1>2, <1>4, <1>5, <1>6, ObjectGrows

\* A tick of the broadcast timer makes its session grow.
LEMMA TickGrows ==
    ASSUME NamedIds = {}, PInv, GInv', NEW o \in Created, Tick(o)
    PROVE  Once' /\ \E s \in Created : Promise!Grow(s)
<1> USE DEF PInv, GInv, Inv
<1> DEFINE new == [object[o] EXCEPT !.track = @ + 1]
<1>1. Running(o) /\ object[o] \in Object /\ object[o].track < MaxEvents
  BY CreatedObject DEF Tick
<1>2. /\ new \in Object /\ new.id = object[o].id /\ new.timer = object[o].timer
      /\ new.track = object[o].track + 1 /\ new.anomalies = object[o].anomalies
  BY <1>1, Constants DEF Object
<1>3. object' = [object EXCEPT ![o] = new] /\ UNCHANGED <<open, sessionId, sessions, storeVars>>
  BY DEF Tick
<1> HIDE DEF new
<1>4. QED
  BY <1>1, <1>2, <1>3, ObjectGrows

\* Every step of the engine is a step of the promise, or none.
LEMMA EveryStepKeepsPromise ==
    ASSUME NamedIds = {}, PInv, GInv', [Next]_vars
    PROVE  Once' /\ [Promise!PromiseNext]_(Promise!promiseVars)
<1> USE DEF PInv
<1>1. ASSUME NEW c \in Conns, Client(c)
      PROVE  Once' /\ (UNCHANGED MapVars \/ Promise!PromiseNext)
  <2>1. ASSUME NEW id \in Ids, StartNew(c, id) \/ StartExisting(c, id)
        PROVE  Once' /\ Promise!PromiseNext
    BY <2>1, NothingToJoin, StartNewBegins DEF Promise!PromiseNext
  <2>2. CASE ImuAnomaly(c)
    BY <2>2, ImuAnomalyGrows, MappedVars DEF Promise!PromiseNext
  <2>3. CASE StopRequested(c) \/ ConnectionCloses(c)
    <3>1. PICK silent \in BOOLEAN : EndSession(c, silent)
      BY <2>3 DEF StopRequested, ConnectionCloses
    <3>2. UNCHANGED <<sessions, writing, store, saved>>
      BY <2>3 DEF StopRequested, ConnectionCloses
    <3>3. Once' /\ (UNCHANGED MapVars \/ \E s \in Created : Promise!End(s))
      BY <3>1, <3>2, EndSessionEnds
    <3>4. QED
      BY <3>3, MappedVars DEF Promise!PromiseNext
  <2>4. QED
    BY <1>1, <2>1, <2>2, <2>3 DEF Client
<1>2. ASSUME NEW o \in Created, Tick(o) PROVE Once' /\ Promise!PromiseNext
  BY <1>2, TickGrows, MappedVars DEF Promise!PromiseNext
<1>3. ASSUME NEW id \in Ids, DeleteRequested(id) PROVE Once' /\ UNCHANGED MapVars
  BY <1>3, DeleteRequestedIsHidden
<1>4. CASE StoreStep
  <2>1. CASE SaveSerialises
    BY <2>1, SaveSerialisesIsHidden, MappedVars
  <2>2. CASE SaveCompletes
    BY <2>2, SaveCompletesPersists, MappedVars DEF Promise!PromiseNext
  <2>3. CASE DeleteCompletes
    <3>1. Once' /\ (UNCHANGED MapVars \/ \E s \in Created : Promise!Discard(s))
      BY <2>3, DeleteCompletesDiscards
    <3>2. QED
      BY <3>1, MappedVars DEF Promise!PromiseNext
  <2>4. QED
    BY <1>4, <2>1, <2>2, <2>3 DEF StoreStep
<1>5. CASE ProcessExits
  BY <1>5, ProcessExitsCrashes DEF Promise!PromiseNext
<1>6. CASE UNCHANGED vars
  <2>1. UNCHANGED <<object, sessionId, writeQueue, writing, store, saved>>
    BY <1>6 DEF vars
  <2>2. \A o : (SavePending(o)' <=> SavePending(o)) /\ (Running(o)' <=> Running(o))
    BY <2>1 DEF SavePending, Running, Created
  <2>3. Once'
    BY <2>1, <2>2 DEF Once
  <2>4. UNCHANGED MapVars
    BY <2>1, <2>2, NothingMapped
  <2>5. QED
    BY <2>3, <2>4, MappedVars
<1>7. QED
  BY <1>1, <1>2, <1>3, <1>4, <1>5, <1>6, MappedVars DEF Next

\* Before the first session nothing is promised, and nothing is recorded.
LEMMA InitPromises == Init => Once /\ Promise!PromiseInit
<1> SUFFICES ASSUME Init PROVE Once /\ Promise!PromiseInit
  OBVIOUS
<1>1. DOMAIN writeQueue = {} /\ Created = {}
  BY DEF Init, Created
<1>2. Once
  BY <1>1 DEF Init, Once
<1>3. PhaseMap = <<>> /\ HolderMap = <<>> /\ ContentMap = <<>>
  BY <1>1 DEF PhaseMap, HolderMap, ContentMap
<1>4. DiskMap = {}
  BY DEF Init, DiskMap
<1>5. QED
  BY <1>2, <1>3, <1>4 DEF Promise!PromiseInit, PhaseMap, HolderMap, ContentMap, DiskMap

\* When the server makes up the ids, one connection is one session: it begins in
\* the connection's hands, ends once, and is recorded once, exactly as it ended.
THEOREM GeneratedRefinement ==
    ASSUME NamedIds = {}
    PROVE  Spec => KeepsPromise
<1>1. Init => Whole
  BY EmptySeq DEF Init, Whole, QueuedAreStopped
<1>2. GInv /\ Whole /\ Once /\ GInv' /\ [Next]_vars
        => Once' /\ [Promise!PromiseNext]_(Promise!promiseVars)
  BY EveryStepKeepsPromise DEF PInv
<1>3. Spec => []Whole
  BY Invariance, WholePreserved, <1>1, PTL DEF Spec
<1>4. Spec => []GInv
  BY GeneratedInvariance
<1>5. QED
  BY InitPromises, <1>2, <1>3, <1>4, PTL DEF Spec, KeepsPromise, Promise!PromiseSpec

=============================================================================
