---------------------------- MODULE ModelRegistry ----------------------------
(***************************************************************************)
(* The registry of models of one type: its table model_versions and the     *)
(* object storage behind it, used by concurrent requests of administrators  *)
(* (backend/app/services/model_registry_service.py).  A request gives up     *)
(* control at every statement it sends to the database and at every call of  *)
(* the storage.  The database is PostgreSQL at READ COMMITTED: a statement   *)
(* sees the rows committed when it starts and waits for the rows it updates; *)
(* a deadlock it breaks by failing one of the transactions.                  *)
(***************************************************************************)
CONSTANTS
    Requests,  \* the requests; the id of an uploaded model is its request
    Versions,  \* version labels
    None       \* no request, no binary

ASSUME RegistryAssumption == None \notin Requests

VARIABLES
    rows,      \* the committed rows of model_versions
    binaries,  \* whose bytes are stored under the key of each version
    request,   \* what each request asks for
    at,        \* where each request is in its code
    victim,    \* the active row a request is about to deactivate
    contested  \* history: versions that two writers of binaries had in hand
               \* at once, or whose registration failed after its commit

vars == <<rows, binaries, request, at, victim, contested>>

Row == [id : Requests, version : Versions, active : BOOLEAN]
Upload == [kind : {"upload"}, version : Versions, active : BOOLEAN]
Existing == [kind : {"rollback", "delete"}, version : Versions, id : Requests]
NoRequest == [kind |-> "none"]

Init ==
    /\ rows = {}
    /\ binaries = [v \in Versions |-> None]
    /\ request = [q \in Requests |-> NoRequest]
    /\ at = [q \in Requests |-> "idle"]
    /\ victim = [q \in Requests |-> None]
    /\ contested = {}

Kind(q) == request[q].kind
InFlight(q) == at[q] \notin {"idle", "done"}
Go(q, place) == at' = [at EXCEPT ![q] = place]

ActiveIn(table) == {row \in table : row.active}
Ids(table) == {row.id : row \in table}

\* The rows with these ones (by id) activated or deactivated.
WithActive(table, ids, value) ==
    {IF row.id \in ids THEN [row EXCEPT !.active = value] ELSE row : row \in table}

\* A transaction holds the row it has deactivated until it ends.
Locked(id, q) == \E p \in Requests \ {q} : at[p] = "ready" /\ victim[p] = id

\* A writer of a version's binary starts while another one is at work.
Contend(q, version) ==
    contested' = IF \E p \in Requests \ {q} :
                        /\ InFlight(p)
                        /\ Kind(p) \in {"upload", "delete"} /\ request[p].version = version
                 THEN contested \cup {version} ELSE contested

-----------------------------------------------------------------------------
(* register_model *)

\* Slip: a duplicate is cleaned up like any other failure.
RegisterCleansDuplicates(q, upload) ==
    /\ at[q] = "idle"
    /\ request' = [request EXCEPT ![q] = upload]
    /\ Contend(q, upload.version)
    /\ Go(q, IF \E row \in rows : row.version = upload.version THEN "failed" ELSE "checked")
    /\ UNCHANGED <<rows, binaries, victim>>

\* The request looks for a duplicate of its version.
Register(q, upload) ==
    /\ at[q] = "idle"
    /\ request' = [request EXCEPT ![q] = upload]
    /\ Contend(q, upload.version)
    /\ Go(q, IF \E row \in rows : row.version = upload.version THEN "done" ELSE "checked")
    /\ UNCHANGED <<rows, binaries, victim>>

\* Slip: the storage key leaves the version out.
StoreBinaryOneKey(q) ==
    /\ at[q] = "checked"
    /\ binaries' = [v \in Versions |-> q]
    /\ Go(q, IF request[q].active THEN "stored" ELSE "ready")
    /\ UNCHANGED <<rows, request, victim, contested>>

\* The binary is stored; a model to be activated goes on to deactivate others.
StoreBinary(q) ==
    /\ at[q] = "checked"
    /\ binaries' = [binaries EXCEPT ![request[q].version] = q]
    /\ Go(q, IF request[q].active THEN "stored" ELSE "ready")
    /\ UNCHANGED <<rows, request, victim, contested>>

\* UPDATE ... SET is_active = false WHERE is_active finds the active row.
Deactivate(q) ==
    /\ at[q] = "stored"
    /\ IF ActiveIn(rows) = {}
       THEN Go(q, "ready") /\ UNCHANGED victim
       ELSE /\ \E row \in ActiveIn(rows) : victim' = [victim EXCEPT ![q] = row.id]
            /\ Go(q, "waiting")
    /\ UNCHANGED <<rows, binaries, request, contested>>

\* Slip: the deactivation is committed by itself.
LockVictimCommitting(q) ==
    /\ at[q] = "waiting"
    /\ ~ Locked(victim[q], q)
    /\ rows' = WithActive(rows, {victim[q]}, FALSE)
    /\ victim' = [victim EXCEPT ![q] = None]
    /\ Go(q, "ready")
    /\ UNCHANGED <<binaries, request, contested>>

\* It waits until nobody else holds that row, and leaves it alone if it is no
\* longer active; rows activated meanwhile it does not see.
LockVictim(q) ==
    /\ at[q] = "waiting"
    /\ ~ Locked(victim[q], q)
    /\ victim' = [victim EXCEPT ![q] = IF @ \in Ids(ActiveIn(rows)) THEN @ ELSE None]
    /\ Go(q, "ready")
    /\ UNCHANGED <<rows, binaries, request, contested>>

\* Slip: the table has no index on active rows.
AllowedAnyActive(table) == \A r, s \in table : r.version = s.version => r = s

\* The constraints of model_versions: a version is registered once, and at most
\* one row is active (uq_active_model_per_type).
Allowed(table) ==
    /\ \A r, s \in table : r.version = s.version => r = s
    /\ \A r, s \in ActiveIn(table) : r = s


\* The table after this upload.
Registered(q) ==
    WithActive(rows, {victim[q]}, FALSE)
        \cup {[id |-> q, version |-> request[q].version, active |-> request[q].active]}

RegisterCommits(q) ==
    /\ at[q] = "ready" /\ Kind(q) = "upload"
    /\ Allowed(Registered(q))
    /\ rows' = Registered(q)
    /\ Go(q, "committed")
    /\ UNCHANGED <<binaries, request, victim, contested>>

RegisterConflicts(q) ==
    /\ at[q] = "ready" /\ Kind(q) = "upload"
    /\ ~ Allowed(Registered(q))
    /\ Go(q, "failed")
    /\ UNCHANGED <<rows, binaries, request, victim, contested>>

\* The row is read back and answered.
Refresh(q) ==
    /\ at[q] = "committed"
    /\ Go(q, "done")
    /\ UNCHANGED <<rows, binaries, request, victim, contested>>

\* The handler of every database error deletes the binary under the key.
CleanUp(q) ==
    /\ at[q] = "failed"
    /\ binaries' = [binaries EXCEPT ![request[q].version] = None]
    /\ Go(q, "done")
    /\ UNCHANGED <<rows, request, victim, contested>>

-----------------------------------------------------------------------------
(* rollback_model *)

\* The target is read; one that is active already, or absent, ends the request.
Rollback(q, target) ==
    /\ at[q] = "idle"
    /\ request' = [request EXCEPT ![q] = [kind |-> "rollback", version |-> target.version,
                                          id |-> target.id]]
    /\ Go(q, IF target.active THEN "done" ELSE "probing")
    /\ UNCHANGED <<rows, binaries, victim, contested>>

ProbeBinary(q) ==
    /\ at[q] = "probing"
    /\ Go(q, IF binaries[request[q].version] = None THEN "done" ELSE "stored")
    /\ UNCHANGED <<rows, binaries, request, victim, contested>>

\* The table after this rollback.
RolledBack(q) ==
    WithActive(WithActive(rows, {victim[q]}, FALSE), {request[q].id}, TRUE)

RollbackCommits(q) ==
    /\ at[q] = "ready" /\ Kind(q) = "rollback"
    /\ request[q].id \in Ids(rows) /\ ~ Locked(request[q].id, q)
    /\ Allowed(RolledBack(q))
    /\ rows' = RolledBack(q)
    /\ Go(q, "done")
    /\ UNCHANGED <<binaries, request, victim, contested>>

\* The target is gone, or another version was activated meanwhile.
RollbackConflicts(q) ==
    /\ at[q] = "ready" /\ Kind(q) = "rollback"
    /\ ~ Locked(request[q].id, q)
    /\ request[q].id \in Ids(rows) => ~ Allowed(RolledBack(q))
    /\ Go(q, "done")
    /\ UNCHANGED <<rows, binaries, request, victim, contested>>

-----------------------------------------------------------------------------
(* delete_model *)

\* The target is read; an active one is refused.
Delete(q, target) ==
    /\ at[q] = "idle"
    /\ request' = [request EXCEPT ![q] = [kind |-> "delete", version |-> target.version,
                                          id |-> target.id]]
    /\ Contend(q, target.version)
    /\ Go(q, IF target.active THEN "done" ELSE "found")
    /\ UNCHANGED <<rows, binaries, victim>>

\* DELETE ... WHERE id waits for the row and takes it as it is by then; that it
\* finds none is only a warning.
DeleteCommits(q) ==
    /\ at[q] = "found"
    /\ ~ Locked(request[q].id, q)
    /\ rows' = {row \in rows : row.id # request[q].id}
    /\ Go(q, "removed")
    /\ UNCHANGED <<binaries, request, victim, contested>>

DeleteBinary(q) ==
    /\ at[q] = "removed"
    /\ binaries' = [binaries EXCEPT ![request[q].version] = None]
    /\ Go(q, "done")
    /\ UNCHANGED <<rows, request, victim, contested>>

-----------------------------------------------------------------------------
(* Faults *)

\* A database error before the commit.
DatabaseFails(q) ==
    /\ at[q] \in {"stored", "waiting", "ready"} /\ Kind(q) = "upload"
    /\ Go(q, "failed")
    /\ UNCHANGED <<rows, binaries, request, victim, contested>>

\* The row cannot be read back after the commit; the handler cleans up.
RefreshFails(q) ==
    /\ at[q] = "committed"
    /\ contested' = contested \cup {request[q].version}
    /\ Go(q, "failed")
    /\ UNCHANGED <<rows, binaries, request, victim>>

\* The process dies, or the storage or the database fails where nothing is
\* undone; the transaction, if any, is rolled back.
Abandon(q) ==
    /\ InFlight(q)
    /\ Go(q, "done")
    /\ UNCHANGED <<rows, binaries, request, victim, contested>>

-----------------------------------------------------------------------------
Step(q) ==
    \/ StoreBinary(q) \/ Deactivate(q) \/ LockVictim(q)
    \/ RegisterCommits(q) \/ RegisterConflicts(q) \/ Refresh(q) \/ CleanUp(q)
    \/ ProbeBinary(q) \/ RollbackCommits(q) \/ RollbackConflicts(q)
    \/ DeleteCommits(q) \/ DeleteBinary(q)

Next ==
    \E q \in Requests :
        \/ \E upload \in Upload : Register(q, upload)
        \/ \E target \in rows : Rollback(q, target) \/ Delete(q, target)
        \/ Step(q)
        \/ DatabaseFails(q) \/ RefreshFails(q) \/ Abandon(q)

Spec == Init /\ [][Next]_vars

-----------------------------------------------------------------------------
(* Properties *)

\* Everything is of its kind; a row and a binary belong to an upload of their
\* version (build_storage_key).
TypeOK ==
    /\ rows \subseteq Row
    /\ binaries \in [Versions -> Requests \cup {None}]
    /\ request \in [Requests -> Upload \cup Existing \cup {NoRequest}]
    /\ at \in [Requests -> {"idle", "checked", "stored", "waiting", "ready", "committed",
                            "failed", "probing", "found", "removed", "done"}]
    /\ victim \in [Requests -> Requests \cup {None}]
    /\ contested \subseteq Versions
    /\ \A q \in Requests : Kind(q) = "none" <=> at[q] = "idle"
    /\ \A row \in rows : Kind(row.id) = "upload" /\ request[row.id].version = row.version
    /\ \A v \in Versions : binaries[v] # None =>
          Kind(binaries[v]) = "upload" /\ request[binaries[v]].version = v

\* Whatever requests overlap, at most one version is active (rollback_model:
\* "ensuring only one active version per model_type").
OneActive == \A r, s \in ActiveIn(rows) : r = s

\* Uploads and rollbacks replace the active version in one step: it never goes
\* away but with its row, deleted (register_model: "Atomically deactivate").
ActiveIsReplaced ==
    [][ActiveIn(rows) # {} /\ ActiveIn(rows') = {} => Ids(ActiveIn(rows)) \cap Ids(rows') = {}]_vars

\* Every registered version has its own binary in storage, with the bytes its
\* checksum was computed from, unless writers of that version overlapped or its
\* registration failed after its commit (register_model, delete_model).
BinariesBehindRows ==
    \A row \in rows : row.version \notin contested => binaries[row.version] = row.id

\* Only inactive versions are deleted (delete_model: "Cannot delete model version
\* ... because it is currently active").
DeletedWereInactive ==
    [][\A row \in rows : row.active => row.id \in Ids(rows')]_vars

=============================================================================
