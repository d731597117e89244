------------------------- MODULE ModelRegistryProofs -------------------------
(***************************************************************************)
(* What holds of the model registry for any number of requests and           *)
(* versions, whatever fails: at most one version is active, it is replaced    *)
(* in one step, and every version nobody contended for has its binary.        *)
(***************************************************************************)
EXTENDS ModelRegistry, TLAPS

\* The kind of a request is known from the place it is at.
KindAtPlace ==
    \A q \in Requests :
        /\ at[q] \in {"checked", "committed", "failed"} => Kind(q) = "upload"
        /\ at[q] = "probing" => Kind(q) = "rollback"
        /\ at[q] \in {"found", "removed"} => Kind(q) = "delete"
        /\ at[q] \in {"stored", "waiting", "ready"} => Kind(q) \in {"upload", "rollback"}

\* Only a request that activates a version looks for one to deactivate.
VictimsAreReplaced ==
    \A q \in Requests :
        /\ at[q] = "idle" => victim[q] = None
        /\ at[q] \in {"stored", "waiting"} \/ victim[q] # None =>
              (Kind(q) = "upload" => request[q].active)

Version(q) == request[q].version
Writer(q) == InFlight(q) /\ Kind(q) \in {"upload", "delete"}

\* Two writers of a version at once are on record.
WritersAreContested ==
    \A p, q \in Requests :
        p # q /\ Writer(p) /\ Writer(q) /\ Version(p) = Version(q) => Version(q) \in contested

\* An upload that nobody contends with finds no row of its version until it
\* commits its own, and from its upload on the binary is the one it stored.
UploadsAreAlone ==
    \A q \in Requests :
        Writer(q) /\ Kind(q) = "upload" /\ Version(q) \notin contested =>
            /\ at[q] # "committed" => \A row \in rows : row.version # Version(q)
            /\ at[q] \in {"stored", "waiting", "ready", "committed"} =>
                  binaries[Version(q)] = q

\* A delete that nobody contends with removes the only row of its version.
DeletesAreAlone ==
    \A q \in Requests :
        Writer(q) /\ Kind(q) = "delete" /\ Version(q) \notin contested =>
            \A row \in rows : row.version = Version(q) =>
                at[q] = "found" /\ row.id = request[q].id

Inv ==
    /\ TypeOK
    /\ Allowed(rows)
    /\ KindAtPlace
    /\ VictimsAreReplaced
    /\ WritersAreContested
    /\ UploadsAreAlone
    /\ DeletesAreAlone
    /\ BinariesBehindRows

-----------------------------------------------------------------------------
(* Requests and tables *)

\* What a request of each kind carries.
LEMMA RequestFields ==
    ASSUME TypeOK, NEW q \in Requests
    PROVE  /\ Kind(q) \in {"upload", "rollback", "delete", "none"}
           /\ Kind(q) = "none" <=> at[q] = "idle"
           /\ Kind(q) # "none" => Version(q) \in Versions
           /\ Kind(q) = "upload" => request[q] \in Upload
           /\ Kind(q) \in {"rollback", "delete"} => request[q].id \in Requests
<1>1. request[q] \in Upload \cup Existing \cup {NoRequest}
  BY DEF TypeOK
<1>2. Kind(q) = "none" <=> at[q] = "idle"
  BY DEF TypeOK
<1>3. CASE request[q] \in Upload
  BY <1>2, <1>3 DEF Upload, Kind, Version
<1>4. CASE request[q] \in Existing
  BY <1>2, <1>4 DEF Existing, Kind, Version
<1>5. CASE request[q] = NoRequest
  BY <1>2, <1>5 DEF NoRequest, Kind, Version
<1>6. QED
  BY <1>1, <1>3, <1>4, <1>5

\* Deactivation keeps every row's id and version, and the other rows' activity.
LEMMA Deactivated ==
    ASSUME NEW table \in SUBSET Row, NEW id
    PROVE  /\ WithActive(table, {id}, FALSE) \in SUBSET Row
           /\ \A r \in WithActive(table, {id}, FALSE) :
                 \E s \in table : r.id = s.id /\ r.version = s.version
           /\ \A s \in table : \E r \in WithActive(table, {id}, FALSE) :
                 r.id = s.id /\ (s.id # id => r.active = s.active)
<1> DEFINE new(row) == IF row.id \in {id} THEN [row EXCEPT !.active = FALSE] ELSE row
<1>1. \A row \in table :
        /\ new(row) \in Row
        /\ new(row).id = row.id /\ new(row).version = row.version
        /\ new(row).active = IF row.id = id THEN FALSE ELSE row.active
  BY DEF Row
<1>2. WithActive(table, {id}, FALSE) = {new(row) : row \in table}
  BY DEF WithActive
<1> HIDE DEF new
<1>3. QED
  BY <1>1, <1>2

\* Activation keeps every row's id and version, and activates its target.
LEMMA Activated ==
    ASSUME NEW table \in SUBSET Row, NEW id
    PROVE  /\ WithActive(table, {id}, TRUE) \in SUBSET Row
           /\ \A r \in WithActive(table, {id}, TRUE) :
                 \E s \in table : r.id = s.id /\ r.version = s.version
           /\ \A s \in table : s.id = id => \E r \in WithActive(table, {id}, TRUE) : r.active
<1> DEFINE new(row) == IF row.id \in {id} THEN [row EXCEPT !.active = TRUE] ELSE row
<1>1. \A row \in table :
        /\ new(row) \in Row
        /\ new(row).id = row.id /\ new(row).version = row.version
        /\ new(row).active = IF row.id = id THEN TRUE ELSE row.active
  BY DEF Row
<1>2. WithActive(table, {id}, TRUE) = {new(row) : row \in table}
  BY DEF WithActive
<1> HIDE DEF new
<1>3. QED
  BY <1>1, <1>2

\* A row's id names its upload, so that it has one row.
LEMMA RowFields ==
    ASSUME TypeOK
    PROVE  /\ \A row \in rows : /\ row.id \in Requests /\ row.version \in Versions
                                /\ row.active \in BOOLEAN
                                /\ Kind(row.id) = "upload" /\ Version(row.id) = row.version
           /\ Allowed(rows) => \A r, s \in rows : r.id = s.id => r = s
<1>1. \A row \in rows : row \in Row /\ Kind(row.id) = "upload" /\ Version(row.id) = row.version
  BY DEF TypeOK, Version
<1>2. \A row \in rows : row.id \in Requests /\ row.version \in Versions /\ row.active \in BOOLEAN
  BY <1>1 DEF Row
<1>3. QED
  BY <1>1, <1>2 DEF Allowed

-----------------------------------------------------------------------------
\* The registry starts empty.
LEMMA InitInv == Init => Inv
<1> SUFFICES ASSUME Init PROVE Inv
  OBVIOUS
<1>1. TypeOK
  BY DEF Init, TypeOK, NoRequest, Kind
<1>2. Allowed(rows) /\ BinariesBehindRows
  BY DEF Init, Allowed, ActiveIn, BinariesBehindRows
<1>3. KindAtPlace /\ VictimsAreReplaced
  BY DEF Init, KindAtPlace, VictimsAreReplaced
<1>4. WritersAreContested /\ UploadsAreAlone /\ DeletesAreAlone
  BY DEF Init, WritersAreContested, UploadsAreAlone, DeletesAreAlone, Writer, InFlight
<1>5. QED
  BY <1>1, <1>2, <1>3, <1>4 DEF Inv

-----------------------------------------------------------------------------
(* Steps that leave the table alone *)

\* The steps that only move a request on.
MovesOn(q) ==
    \/ Deactivate(q) \/ LockVictim(q) \/ RegisterConflicts(q) \/ Refresh(q)
    \/ ProbeBinary(q) \/ RollbackConflicts(q)
    \/ DatabaseFails(q) \/ RefreshFails(q) \/ Abandon(q)

\* A request that moves on starts no writer and claims nothing new.
LEMMA MovesOnInv ==
    ASSUME Inv, NEW q \in Requests, MovesOn(q)
    PROVE  Inv'
<1> USE RegistryAssumption, RequestFields
    DEF Inv, Go, TypeOK, Kind, MovesOn, Deactivate, LockVictim, RegisterConflicts, Refresh, ProbeBinary,
         RollbackConflicts, DatabaseFails, RefreshFails, Abandon
<1>1. rows' = rows /\ request' = request /\ binaries' = binaries
  OBVIOUS
<1>2. TypeOK'
  BY RowFields DEF KindAtPlace, InFlight, ActiveIn, Ids, Version
<1>3. KindAtPlace' /\ VictimsAreReplaced'
  BY DEF KindAtPlace, VictimsAreReplaced
<1>4. WritersAreContested'
  BY DEF Version, WritersAreContested, Writer, InFlight
<1>5. UploadsAreAlone' /\ DeletesAreAlone'
  BY DEF Version, Writer, InFlight, KindAtPlace, UploadsAreAlone, DeletesAreAlone
<1>6. Allowed(rows)' /\ BinariesBehindRows'
  BY <1>1 DEF Allowed, ActiveIn, BinariesBehindRows
<1>7. QED
  BY <1>2, <1>3, <1>4, <1>5, <1>6

\* A binary is written or deleted by a request that, unless contested, is the
\* only one concerned with its version, which has no row.
LEMMA BinaryInv ==
    ASSUME Inv, NEW q \in Requests, StoreBinary(q) \/ CleanUp(q) \/ DeleteBinary(q)
    PROVE  Inv'
<1> USE RegistryAssumption, RequestFields
    DEF Inv, Go, TypeOK, Kind, StoreBinary, CleanUp, DeleteBinary
<1>1. rows' = rows /\ request' = request
  OBVIOUS
<1>2. TypeOK'
  BY RowFields DEF KindAtPlace, Version
<1>3. KindAtPlace' /\ VictimsAreReplaced'
  BY DEF KindAtPlace, VictimsAreReplaced
<1>4. WritersAreContested'
  BY DEF Version, WritersAreContested, Writer, InFlight
<1>5. UploadsAreAlone' /\ DeletesAreAlone'
  BY DEF Version, Writer, InFlight, KindAtPlace, WritersAreContested, UploadsAreAlone,
         DeletesAreAlone
<1>6. Allowed(rows)'
  BY <1>1 DEF Allowed, ActiveIn
<1>7. BinariesBehindRows'
  BY RowFields DEF BinariesBehindRows, Version, Writer, InFlight, KindAtPlace,
                   UploadsAreAlone, DeletesAreAlone
<1>8. QED
  BY <1>2, <1>3, <1>4, <1>5, <1>6, <1>7

\* A request starts; a writer is on record if it meets another one.
LEMMA StartInv ==
    ASSUME Inv, NEW q \in Requests,
           \/ \E upload \in Upload : Register(q, upload)
           \/ \E target \in rows : Rollback(q, target) \/ Delete(q, target)
    PROVE  Inv'
<1> USE RegistryAssumption, RequestFields, RowFields DEF Inv, Go, TypeOK, Kind
<1>1. ASSUME NEW upload \in Upload, Register(q, upload) PROVE Inv'
  <2> USE <1>1 DEF Register, Contend, Upload
  <2>1. TypeOK'
    BY DEF Row, NoRequest
  <2>2. KindAtPlace' /\ VictimsAreReplaced'
    BY DEF KindAtPlace, VictimsAreReplaced
  <2>3. WritersAreContested'
    BY DEF Version, WritersAreContested, Writer, InFlight
  <2>4. UploadsAreAlone' /\ DeletesAreAlone'
    BY DEF Version, Writer, InFlight, KindAtPlace, UploadsAreAlone, DeletesAreAlone
  <2>5. Allowed(rows)' /\ BinariesBehindRows'
    BY DEF Allowed, ActiveIn, BinariesBehindRows
  <2>6. QED
    BY <2>1, <2>2, <2>3, <2>4, <2>5
<1>2. ASSUME NEW target \in rows, Rollback(q, target) PROVE Inv'
  <2> USE <1>2 DEF Rollback, Existing
  <2>1. TypeOK'
    BY DEF Row, NoRequest
  <2>2. KindAtPlace' /\ VictimsAreReplaced'
    BY DEF KindAtPlace, VictimsAreReplaced
  <2>3. WritersAreContested'
    BY DEF Version, WritersAreContested, Writer, InFlight
  <2>4. UploadsAreAlone' /\ DeletesAreAlone'
    BY DEF Version, Writer, InFlight, KindAtPlace, UploadsAreAlone, DeletesAreAlone
  <2>5. Allowed(rows)' /\ BinariesBehindRows'
    BY DEF Allowed, ActiveIn, BinariesBehindRows
  <2>6. QED
    BY <2>1, <2>2, <2>3, <2>4, <2>5
<1>3. ASSUME NEW target \in rows, Delete(q, target) PROVE Inv'
  <2> USE <1>3 DEF Delete, Contend, Existing
  <2>1. TypeOK'
    BY DEF Row, NoRequest
  <2>2. KindAtPlace' /\ VictimsAreReplaced'
    BY DEF KindAtPlace, VictimsAreReplaced
  <2>3. WritersAreContested'
    BY DEF Version, WritersAreContested, Writer, InFlight
  <2>4. UploadsAreAlone' /\ DeletesAreAlone'
    BY DEF Version, Writer, InFlight, KindAtPlace, UploadsAreAlone, DeletesAreAlone,
           Allowed
  <2>5. Allowed(rows)' /\ BinariesBehindRows'
    BY DEF Allowed, ActiveIn, BinariesBehindRows
  <2>6. QED
    BY <2>1, <2>2, <2>3, <2>4, <2>5
<1>4. QED
  BY <1>1, <1>2, <1>3

-----------------------------------------------------------------------------
(* Steps that change the table *)

\* The table an upload leaves behind: the old rows, and one of its own.
LEMMA RegisteredRows ==
    ASSUME Inv, NEW q \in Requests, Kind(q) = "upload"
    PROVE  /\ Registered(q) \subseteq Row
           /\ \A r \in Registered(q) :
                 \/ r.id = q /\ r.version = Version(q)
                 \/ \E s \in rows : r.id = s.id /\ r.version = s.version
           /\ ~ request[q].active =>
                 \A s \in ActiveIn(rows) : \E r \in Registered(q) : r.active
<1> DEFINE new == [id |-> q, version |-> request[q].version, active |-> request[q].active]
<1>1. new \in Row
  BY RequestFields DEF Inv, Upload, Row
<1>2. new.id = q /\ new.version = Version(q)
  BY DEF Version
<1>3. rows \in SUBSET Row
  BY DEF Inv, TypeOK
<1> DEFINE quiet == WithActive(rows, {victim[q]}, FALSE)
<1>4. Registered(q) = quiet \cup {new}
  BY DEF Registered
<1>5. ~ request[q].active => \A s \in rows : s.id # victim[q]
  BY RowFields, RegistryAssumption DEF Inv, VictimsAreReplaced
<1>6. /\ quiet \in SUBSET Row
      /\ \A r \in quiet : \E s \in rows : r.id = s.id /\ r.version = s.version
      /\ \A s \in rows : \E r \in quiet : r.id = s.id /\ (s.id # victim[q] => r.active = s.active)
  BY <1>3, Deactivated
<1> HIDE DEF new, quiet
<1>7. QED
  BY <1>1, <1>2, <1>4, <1>5, <1>6 DEF ActiveIn

\* The table a rollback leaves behind: the old rows, its target active.
LEMMA RolledBackRows ==
    ASSUME Inv, NEW q \in Requests
    PROVE  /\ RolledBack(q) \subseteq Row
           /\ \A r \in RolledBack(q) : \E s \in rows : r.id = s.id /\ r.version = s.version
           /\ request[q].id \in Ids(rows) => \E r \in RolledBack(q) : r.active
<1> DEFINE quiet == WithActive(rows, {victim[q]}, FALSE)
<1>1. rows \in SUBSET Row
  BY DEF Inv, TypeOK
<1>2. /\ quiet \in SUBSET Row
      /\ \A r \in quiet : \E s \in rows : r.id = s.id /\ r.version = s.version
      /\ \A s \in rows : \E r \in quiet : r.id = s.id
  BY <1>1, Deactivated
<1> DEFINE target == request[q].id
           loud == WithActive(quiet, {target}, TRUE)
<1>3. RolledBack(q) = loud
  BY DEF RolledBack
<1> HIDE DEF quiet, target
<1>4. target \in Ids(rows) => \E r \in quiet : r.id = target
  BY <1>2 DEF Ids
<1>5. /\ loud \in SUBSET Row
      /\ \A r \in loud : \E s \in quiet : r.id = s.id /\ r.version = s.version
      /\ \A s \in quiet : s.id = target => \E r \in loud : r.active
  BY <1>2, Activated
<1> HIDE DEF loud
<1>6. /\ loud \subseteq Row
      /\ \A r \in loud : \E s \in rows : r.id = s.id /\ r.version = s.version
      /\ target \in Ids(rows) => \E r \in loud : r.active
  BY <1>2, <1>4, <1>5
<1>7. QED
  BY <1>3, <1>6 DEF target

\* An upload that commits was alone with its version, or is contested.
LEMMA RegisterCommitsInv ==
    ASSUME Inv, NEW q \in Requests, RegisterCommits(q)
    PROVE  Inv'
<1> USE RegistryAssumption, RequestFields, RowFields DEF Inv, Go, TypeOK, Kind
<1>1. /\ rows' = Registered(q) /\ Allowed(rows')
      /\ at[q] = "ready" /\ at' = [at EXCEPT ![q] = "committed"]
      /\ UNCHANGED <<binaries, request, victim, contested>>
      /\ Kind(q) = "upload"
  BY DEF RegisterCommits
<1>2. /\ rows' \subseteq Row
      /\ \A r \in rows' : \/ r.id = q /\ r.version = Version(q)
                          \/ \E s \in rows : r.id = s.id /\ r.version = s.version
  BY <1>1, RegisteredRows
<1>3. TypeOK'
  BY <1>1, <1>2 DEF Version
<1>4. KindAtPlace' /\ VictimsAreReplaced'
  BY <1>1 DEF KindAtPlace, VictimsAreReplaced
<1>5. WritersAreContested'
  BY <1>1 DEF Version, WritersAreContested, Writer, InFlight
<1>6. UploadsAreAlone' /\ DeletesAreAlone'
  BY <1>1, <1>2 DEF Version, Writer, InFlight, KindAtPlace, WritersAreContested,
                    UploadsAreAlone, DeletesAreAlone
<1>7. BinariesBehindRows'
  BY <1>1, <1>2 DEF BinariesBehindRows, Version, Writer, InFlight, UploadsAreAlone
<1>8. QED
  BY <1>1, <1>3, <1>4, <1>5, <1>6, <1>7

\* A rollback only moves the mark of the active version.
LEMMA RollbackCommitsInv ==
    ASSUME Inv, NEW q \in Requests, RollbackCommits(q)
    PROVE  Inv'
<1> USE RegistryAssumption, RequestFields, RowFields DEF Inv, Go, TypeOK, Kind
<1>1. /\ rows' = RolledBack(q) /\ Allowed(rows')
      /\ at[q] = "ready" /\ at' = [at EXCEPT ![q] = "done"]
      /\ UNCHANGED <<binaries, request, victim, contested>>
  BY DEF RollbackCommits
<1>2. /\ rows' \subseteq Row
      /\ \A r \in rows' : \E s \in rows : r.id = s.id /\ r.version = s.version
  BY <1>1, RolledBackRows
<1>3. TypeOK'
  BY <1>1, <1>2 DEF Version
<1>4. KindAtPlace' /\ VictimsAreReplaced'
  BY <1>1 DEF KindAtPlace, VictimsAreReplaced
<1>5. WritersAreContested'
  BY <1>1 DEF Version, WritersAreContested, Writer, InFlight
<1>6. UploadsAreAlone' /\ DeletesAreAlone'
  BY <1>1, <1>2 DEF Version, Writer, InFlight, UploadsAreAlone, DeletesAreAlone
<1>7. BinariesBehindRows'
  BY <1>1, <1>2 DEF BinariesBehindRows
<1>8. QED
  BY <1>1, <1>3, <1>4, <1>5, <1>6, <1>7

\* The row goes and with it, unless contested, the last of its version.
LEMMA DeleteCommitsInv ==
    ASSUME Inv, NEW q \in Requests, DeleteCommits(q)
    PROVE  Inv'
<1> USE RegistryAssumption, RequestFields, RowFields
    DEF Inv, Go, TypeOK, Kind, DeleteCommits
<1>1. TypeOK'
  OBVIOUS
<1>2. KindAtPlace' /\ VictimsAreReplaced'
  BY DEF KindAtPlace, VictimsAreReplaced
<1>3. WritersAreContested'
  BY DEF Version, WritersAreContested, Writer, InFlight
<1>4. UploadsAreAlone' /\ DeletesAreAlone'
  BY DEF Version, Writer, InFlight, UploadsAreAlone, DeletesAreAlone
<1>5. Allowed(rows)' /\ BinariesBehindRows'
  BY DEF Allowed, ActiveIn, BinariesBehindRows
<1>6. QED
  BY <1>1, <1>2, <1>3, <1>4, <1>5

\* Every step keeps the invariant.
LEMMA NextInv == Inv /\ [Next]_vars => Inv'
<1> SUFFICES ASSUME Inv, [Next]_vars PROVE Inv'
  OBVIOUS
<1>1. ASSUME NEW q \in Requests,
             \/ \E upload \in Upload : Register(q, upload)
             \/ \E target \in rows : Rollback(q, target) \/ Delete(q, target)
      PROVE  Inv'
  BY <1>1, StartInv
<1>2. ASSUME NEW q \in Requests, Step(q) \/ DatabaseFails(q) \/ RefreshFails(q) \/ Abandon(q)
      PROVE  Inv'
  BY <1>2, MovesOnInv, BinaryInv, RegisterCommitsInv, RollbackCommitsInv, DeleteCommitsInv
     DEF Step, MovesOn
<1>3. CASE UNCHANGED vars
  BY <1>3 DEF vars, Inv, TypeOK, Allowed, ActiveIn, KindAtPlace, VictimsAreReplaced,
              WritersAreContested, UploadsAreAlone, DeletesAreAlone, BinariesBehindRows,
              Writer, InFlight, Kind, Version
<1>4. QED
  BY <1>1, <1>2, <1>3 DEF Next

\* A step that leaves no version active has deleted the active one.
LEMMA NextReplaces ==
    Inv /\ [Next]_vars =>
        (ActiveIn(rows) # {} /\ ActiveIn(rows') = {} => Ids(ActiveIn(rows)) \cap Ids(rows') = {})
<1> SUFFICES ASSUME Inv, [Next]_vars, ActiveIn(rows) # {}, ActiveIn(rows') = {}
             PROVE  Ids(ActiveIn(rows)) \cap Ids(rows') = {}
  OBVIOUS
<1>1. rows' # rows
  OBVIOUS
<1>2. PICK q \in Requests : RegisterCommits(q) \/ RollbackCommits(q) \/ DeleteCommits(q)
  BY <1>1 DEF Next, Step, vars, Register, StoreBinary, Deactivate, LockVictim, RegisterConflicts,
     Refresh, CleanUp, Rollback, ProbeBinary, RollbackConflicts, Delete, DeleteBinary,
     DatabaseFails, RefreshFails, Abandon
<1>3. CASE RegisterCommits(q)
  <2>1. /\ rows' = Registered(q) /\ Kind(q) = "upload"
    BY <1>3 DEF RegisterCommits
  <2>2. CASE request[q].active
    <3>1. [id |-> q, version |-> request[q].version, active |-> request[q].active]
            \in ActiveIn(rows')
      BY <2>1, <2>2 DEF Registered, ActiveIn
    <3>2. QED
      BY <3>1
  <2>3. CASE ~ request[q].active
    BY <2>1, <2>3, RegisteredRows DEF ActiveIn
  <2>4. QED
    BY <2>2, <2>3
<1>4. CASE RollbackCommits(q)
  BY <1>4, RolledBackRows DEF RollbackCommits, ActiveIn
<1>5. CASE DeleteCommits(q)
  BY <1>5 DEF DeleteCommits, ActiveIn, Ids
<1>6. QED
  BY <1>2, <1>3, <1>4, <1>5

-----------------------------------------------------------------------------
\* The registry's invariant.
THEOREM Invariance == Spec => []Inv
<1>1. QED
  BY InitInv, NextInv, PTL DEF Spec

\* Rows, binaries and requests are of their kind, and rows and binaries belong
\* to uploads of their version, for any number of requests.
THEOREM TypeCorrect == Spec => []TypeOK
<1>1. Inv => TypeOK
  BY DEF Inv
<1>2. QED
  BY Invariance, <1>1, PTL

\* register_model and rollback_model never leave two versions active.
THEOREM AtMostOneActive == Spec => []OneActive
<1>1. Inv => OneActive
  BY DEF Inv, Allowed, OneActive
<1>2. QED
  BY Invariance, <1>1, PTL

\* Unless contested, every registered version has the binary of its upload.
THEOREM NoRowWithoutBinary == Spec => []BinariesBehindRows
<1>1. Inv => BinariesBehindRows
  BY DEF Inv
<1>2. QED
  BY Invariance, <1>1, PTL

\* An active version is only replaced, or deleted with its row.
THEOREM Replaced == Spec => ActiveIsReplaced
<1>1. Inv /\ [Next]_vars =>
        [ActiveIn(rows) # {} /\ ActiveIn(rows') = {}
            => Ids(ActiveIn(rows)) \cap Ids(rows') = {}]_vars
  BY NextReplaces
<1>2. QED
  BY Invariance, <1>1, PTL DEF Spec, ActiveIsReplaced
=============================================================================
