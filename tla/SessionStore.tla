---------------------------- MODULE SessionStore ----------------------------
(***************************************************************************)
(* The file behind the session store (backend/src/services/sessionStore.ts) *)
(* at the grain of its file system calls.  Saves and deletes run one after  *)
(* the other through enqueueWrite; list, detail and dashboard requests read  *)
(* whenever they like.  fs.writeFile truncates the file before it fills it,  *)
(* and ensureDataFile, which every access goes through, may itself write.    *)
(***************************************************************************)
EXTENDS Naturals, Sequences

CONSTANTS
    Ids,          \* session ids
    Jobs,         \* saves and deletes; the record a save writes is the job itself
    Readers,      \* requests that only read
    Absent,       \* an id without a record
    Missing,      \* the file does not exist
    Truncated,    \* the file is empty: a write has begun
    Garbage,      \* the file is not JSON: two writes have overlapped
    EarlyReaders  \* whether requests may come before there is a file

ASSUME StoreAssumption ==
    /\ Jobs \cap Readers = {} /\ Absent \notin Jobs
    /\ EarlyReaders \in BOOLEAN

VARIABLES
    file,     \* what DATA_FILE holds
    queue,    \* writeQueue: the jobs not finished, the first one running
    request,  \* what each job was submitted to do
    at,       \* where each job and reader is in its code
    seen,     \* what each of them got from readAll
    kept,     \* history: what the finished jobs amount to since a write was cut short
    during    \* history: what was stored while each reader was at work

vars == <<file, queue, request, at, seen, kept, during>>

Actors == Jobs \cup Readers
Maps == [Ids -> Jobs \cup {Absent}]
NoRecords == [id \in Ids |-> Absent]
Request == [kind : {"save", "delete"}, id : Ids]
NoRequest == [kind |-> "none"]

ASSUME FileAssumption ==
    /\ Missing # Truncated /\ Missing # Garbage /\ Truncated # Garbage
    /\ Maps \cap {Missing, Truncated, Garbage} = {}

InJob(j) == at[j] \notin {"idle", "queued", "done"}

Init ==
    /\ file \in {NoRecords, Missing}
    /\ queue = <<>>
    /\ request = [j \in Jobs |-> NoRequest]
    /\ at = [a \in Actors |-> "idle"]
    /\ seen = [a \in Actors |-> NoRecords]
    /\ kept = NoRecords
    /\ during = [r \in Readers |-> {}]

\* A reader at work has met this state of the store too.
Witness(stored) ==
    during' = [r \in Readers |->
                  IF at[r] \in {"idle", "done"} THEN during[r] ELSE during[r] \cup {stored}]

-----------------------------------------------------------------------------
(* Requests *)

Submit(j, r) ==
    /\ at[j] = "idle"
    /\ request' = [request EXCEPT ![j] = r]
    /\ at' = [at EXCEPT ![j] = "queued"]
    /\ queue' = Append(queue, j)
    /\ UNCHANGED <<file, seen, kept, during>>

\* Slip: the job does not wait for the one before it.
StartJobAtOnce(j) ==
    /\ at[j] = "queued"
    /\ at' = [at EXCEPT ![j] = "access"]
    /\ UNCHANGED <<file, queue, request, seen, kept, during>>

\* enqueueWrite runs a job when the one before it has settled.
StartJob(j) ==
    /\ at[j] = "queued"
    /\ queue # <<>> /\ j = Head(queue)
    /\ at' = [at EXCEPT ![j] = "access"]
    /\ UNCHANGED <<file, queue, request, seen, kept, during>>

StartReader(r) ==
    /\ at[r] \in {"idle", "done"}
    /\ EarlyReaders \/ file # Missing
    /\ at' = [at EXCEPT ![r] = "access"]
    /\ during' = [during EXCEPT ![r] = {kept}]
    /\ UNCHANGED <<file, queue, request, seen, kept>>

-----------------------------------------------------------------------------
(* ensureDataFile and readAll *)

AccessFound(a) ==
    /\ at[a] = "access"
    /\ file # Missing
    /\ at' = [at EXCEPT ![a] = "read"]
    /\ UNCHANGED <<file, queue, request, seen, kept, during>>

AccessMissing(a) ==
    /\ at[a] = "access"
    /\ file = Missing
    /\ at' = [at EXCEPT ![a] = "create"]
    /\ UNCHANGED <<file, queue, request, seen, kept, during>>

\* writeFile opens the file and truncates it, whatever it holds by now.
CreateFile(a) ==
    /\ at[a] = "create"
    /\ file' = Truncated
    /\ at' = [at EXCEPT ![a] = "createFill"]
    /\ UNCHANGED <<queue, request, seen, kept, during>>

\* The text lands in an empty file as it is; over a different text of another
\* writer it replaces all of it or leaves a tail of it behind.
Fill(data) ==
    IF file \in {Truncated, data} THEN file' = data ELSE file' \in {data, Garbage}

CreateFill(a) ==
    /\ at[a] = "createFill"
    /\ Fill(NoRecords)
    /\ at' = [at EXCEPT ![a] = "read"]
    /\ UNCHANGED <<queue, request, seen, kept, during>>

\* Slip: what cannot be parsed is answered with what was read before.
ParsedStale(a) == IF file \in Maps THEN file ELSE seen[a]

\* A file that does not parse reads as no sessions at all.
Parsed(a) == IF file \in Maps THEN file ELSE NoRecords

\* A job goes on to write unless it deletes what is not there.
ReadAll(a) ==
    /\ at[a] = "read"
    /\ seen' = [seen EXCEPT ![a] = Parsed(a)]
    /\ at' = [at EXCEPT ![a] = IF a \in Readers THEN "done"
                               ELSE IF /\ request[a].kind = "delete"
                                       /\ Parsed(a)[request[a].id] = Absent
                               THEN "settle" ELSE "reaccess"]
    /\ UNCHANGED <<file, queue, request, kept, during>>

-----------------------------------------------------------------------------
(* writeAll and the end of a job *)

\* ensureDataFile again: nothing removes the file, so it is found.
Reaccess(j) ==
    /\ at[j] = "reaccess"
    /\ at' = [at EXCEPT ![j] = "truncate"]
    /\ UNCHANGED <<file, queue, request, seen, kept, during>>

Truncate(j) ==
    /\ at[j] = "truncate"
    /\ file' = Truncated
    /\ at' = [at EXCEPT ![j] = "fill"]
    /\ UNCHANGED <<queue, request, seen, kept, during>>

\* Slip: the other sessions are not written back.
EditedAlone(j, records) ==
    [NoRecords EXCEPT ![request[j].id] = IF request[j].kind = "save" THEN j ELSE Absent]

\* The session list with the job's record put in, or taken out.
Edited(j, records) ==
    [records EXCEPT ![request[j].id] = IF request[j].kind = "save" THEN j ELSE Absent]

\* The job's promise settles and the next job may start.
Settle(j) ==
    /\ at' = [at EXCEPT ![j] = "done"]
    /\ queue' = Tail(queue)

FillJob(j) ==
    /\ at[j] = "fill"
    /\ Fill(Edited(j, seen[j]))
    /\ Settle(j)
    /\ kept' = Edited(j, kept)
    /\ Witness(kept')
    /\ UNCHANGED <<request, seen>>

\* deleteSession found nothing to delete.
NothingToDelete(j) ==
    /\ at[j] = "settle"
    /\ Settle(j)
    /\ kept' = Edited(j, kept)
    /\ Witness(kept')
    /\ UNCHANGED <<file, request, seen>>

-----------------------------------------------------------------------------
(* Faults *)

\* A write cut short between its truncation and its text leaves no records.
CutShort == kept' = IF file \in Maps THEN kept ELSE NoRecords

\* Slip: a failed write keeps its place in the queue.
DeleteFailsStuck(j) ==
    /\ at[j] \in {"truncate", "fill"}
    /\ request[j].kind = "delete"
    /\ at' = [at EXCEPT ![j] = "done"]
    /\ CutShort
    /\ Witness(kept')
    /\ UNCHANGED <<file, queue, request, seen>>

\* The write of a delete fails: the request is answered with an error and the
\* queue goes on, the rejection being caught.
DeleteFails(j) ==
    /\ at[j] \in {"truncate", "fill"}
    /\ request[j].kind = "delete"
    /\ Settle(j)
    /\ CutShort
    /\ Witness(kept')
    /\ UNCHANGED <<file, request, seen>>

\* The process dies, by a signal or because the write of a save failed and
\* nobody handles its rejection.  The file stays as it is; a request that was
\* being read may be made again.
ProcessDies ==
    /\ \E a \in Actors : at[a] \notin {"idle", "done"}
    /\ queue' = <<>>
    /\ at' = [a \in Actors |-> IF at[a] \in {"idle", "done"} THEN at[a]
                               ELSE IF a \in Readers THEN "idle" ELSE "done"]
    /\ CutShort
    /\ UNCHANGED <<file, request, seen, during>>

-----------------------------------------------------------------------------
Job(j) ==
    \/ StartJob(j) \/ Reaccess(j) \/ Truncate(j) \/ FillJob(j) \/ NothingToDelete(j)

FileAccess(a) ==
    \/ AccessFound(a) \/ AccessMissing(a) \/ CreateFile(a) \/ CreateFill(a) \/ ReadAll(a)

Next ==
    \/ \E j \in Jobs, r \in Request : Submit(j, r)
    \/ \E r \in Readers : StartReader(r)
    \/ \E j \in Jobs : Job(j) \/ DeleteFails(j)
    \/ \E a \in Actors : FileAccess(a)
    \/ ProcessDies

Spec == Init /\ [][Next]_vars

\* File system calls return, so a job or a reader in its code moves on.
FairSpec == Spec /\ \A j \in Jobs : WF_vars(Job(j)) /\ WF_vars(FileAccess(j))

-----------------------------------------------------------------------------
(* Properties *)

\* Each job and reader is at a known point of its code and only the head of the
\* queue is past its start (enqueueWrite).
TypeOK ==
    /\ file \in Maps \cup {Missing, Truncated, Garbage}
    /\ queue \in Seq(Jobs)
    /\ request \in [Jobs -> Request \cup {NoRequest}]
    /\ at \in [Actors -> {"idle", "queued", "access", "create", "createFill", "read",
                          "settle", "reaccess", "truncate", "fill", "done"}]
    /\ seen \in [Actors -> Maps]
    /\ kept \in Maps
    /\ during \in [Readers -> SUBSET Maps]
    /\ \A j \in Jobs : InJob(j) => queue # <<>> /\ j = Head(queue)

\* What a reader is answered is what was stored at some time while it was at
\* work, or nothing at all: never a mixture, and never an older state
\* (readAll's fallback to an empty list when the file is half written).
AnswersAreCurrent ==
    \A r \in Readers : at[r] = "done" => seen[r] \in during[r] \cup {NoRecords}

\* Between writes the file amounts to the saves and deletes that have finished
\* since a write was last cut short (the comment on enqueueWrite: "Serializes
\* writes so two sessions ending at the same instant can't clobber each other").
RecordsKept ==
    \/ \E a \in Actors : at[a] \in {"fill", "createFill"}
    \/ kept = IF file \in Maps THEN file ELSE NoRecords

\* Every submitted job ends, those behind a failed one too.
JobsEnd == \A j \in Jobs : (at[j] = "queued") ~> (at[j] = "done")

\* What the store holds: while a job rewrites the file, what that job has read.
Stored ==
    IF file \in Maps THEN file
    ELSE IF \E j \in Jobs : at[j] = "fill" THEN seen[CHOOSE j \in Jobs : at[j] = "fill"]
    ELSE NoRecords

\* The jobs not finished, with what they were submitted to do.
Backlog ==
    [i \in 1..Len(queue) |->
        [job |-> queue[i], kind |-> request[queue[i]].kind, id |-> request[queue[i]].id]]

\* The refinement mapping onto the promise.
Promise == INSTANCE RecordStore WITH records <- Stored, backlog <- Backlog

\* If no request comes before there is a file, the queue of read-modify-write
\* jobs implements the atomic map: each job takes effect whole, in order.
ImplementsStore == Promise!StoreSpec

=============================================================================
