-------------------------- MODULE SessionStoreProofs --------------------------
(***************************************************************************)
(* What holds of the session store for every set of ids, jobs and readers   *)
(* if no request comes before there is a file: nobody but the running job   *)
(* writes, readers are answered with what is stored, and the queue of jobs   *)
(* implements the atomic store.                                              *)
(***************************************************************************)
EXTENDS SessionStore, SequenceTheorems, TLAPS

\* The points of a job that has read and not yet written.
HasRead == {"settle", "reaccess", "truncate", "fill"}

\* The points of a job that come after the file was found or created.
HasFile == HasRead \cup {"createFill", "read"}

\* Only a job creates the file, queued jobs have been submitted, and the file is
\* truncated exactly by the job about to fill it.
Shape ==
    /\ TypeOK
    /\ file # Garbage
    /\ \A r \in Readers : at[r] \in {"idle", "access", "read", "done"}
    /\ file = Missing => \A r \in Readers : at[r] \in {"idle", "done"}
    /\ \A j \in Jobs : at[j] \in HasFile => file # Missing
    /\ \A j \in Jobs : at[j] = "create" => file = Missing
    /\ \A j \in Jobs : at[j] \in {"createFill", "fill"} => file = Truncated
    /\ \A j \in Jobs : at[j] # "idle" => request[j] \in Request
    /\ \A i \in 1..Len(queue) : at[queue[i]] # "idle"
    /\ \A j \in Jobs : at[j] = "settle" =>
          request[j].kind = "delete" /\ seen[j][request[j].id] = Absent

\* The file is what the finished jobs amount to, save for the running job, which
\* has read exactly that.
Current ==
    /\ file \in Maps => kept = file
    /\ file \notin Maps /\ kept # NoRecords => \E j \in Jobs : at[j] = "fill"
    /\ \A j \in Jobs : at[j] \in HasRead => seen[j] = kept

\* A reader at work has met the present state.
Met == \A r \in Readers : at[r] \in {"access", "read"} => kept \in during[r]

Inv == Shape /\ Current /\ Met /\ AnswersAreCurrent

-----------------------------------------------------------------------------
\* What a job writes is a map from ids to records.
LEMMA EditedType ==
    ASSUME NEW j \in Jobs, request[j] \in Request, NEW records \in Maps
    PROVE  Edited(j, records) \in Maps
  BY DEF Edited, Maps, Request

\* The jobs that remain after the first has settled.
LEMMA SettledQueue ==
    ASSUME queue \in Seq(Jobs), queue # <<>>, queue' = Tail(queue)
    PROVE  /\ queue' \in Seq(Jobs)
           /\ Len(queue') = Len(queue) - 1
           /\ \A i \in 1..Len(queue') : i + 1 \in 1..Len(queue) /\ queue'[i] = queue[i + 1]
<1>1. /\ queue' \in Seq(Jobs)
      /\ Len(queue') = Len(queue) - 1
      /\ \A i \in 1..Len(queue') : queue'[i] = queue[i + 1]
  BY HeadTailProperties
<1>2. Len(queue) \in Nat
  BY LenProperties
<1>3. QED
  BY <1>1, <1>2

\* At most one job is past its start.
LEMMA OneInJob ==
    ASSUME TypeOK, NEW j \in Jobs, NEW k \in Jobs, InJob(j), InJob(k)
    PROVE  j = k
  BY DEF TypeOK

\* The store starts empty and current.
LEMMA InitInv == Init => Inv
<1> SUFFICES ASSUME Init PROVE Inv
  OBVIOUS
<1>1. NoRecords \in Maps
  BY DEF NoRecords, Maps
<1>2. queue \in Seq(Jobs) /\ Len(queue) = 0
  BY EmptySeq DEF Init
<1>3. Actors = Jobs \cup Readers
  BY DEF Actors
<1>4. TypeOK
  BY <1>1, <1>2, <1>3 DEF Init, TypeOK, InJob
<1>5. Shape
  BY <1>1, <1>2, <1>3, <1>4, FileAssumption DEF Init, Shape, HasFile, HasRead
<1>6. Current /\ Met /\ AnswersAreCurrent
  BY <1>1, <1>3, FileAssumption DEF Init, Current, HasRead, Met, AnswersAreCurrent
<1>7. QED
  BY <1>5, <1>6 DEF Inv

-----------------------------------------------------------------------------
(* The steps *)

\* A submitted job joins the end of the queue and touches nothing else.
LEMMA SubmitPreserves ==
    ASSUME Inv, NEW j \in Jobs, NEW r \in Request, Submit(j, r)
    PROVE  Inv'
<1> USE DEF Inv, Shape, HasFile, HasRead
<1>1. /\ queue' \in Seq(Jobs) /\ queue' # <<>>
      /\ queue # <<>> => Head(queue') = Head(queue)
      /\ Len(queue') = Len(queue) + 1
      /\ \A i \in 1..Len(queue) : queue'[i] = queue[i]
      /\ queue'[Len(queue) + 1] = j
  BY AppendProperties, HeadTailAppend DEF Submit, TypeOK
<1>2. Len(queue) \in Nat
  BY LenProperties DEF TypeOK
<1>3. j \in Actors /\ Jobs \subseteq Actors /\ j \notin Readers /\ Readers \subseteq Actors
  BY StoreAssumption DEF Actors
<1>4. TypeOK'
  BY <1>1, <1>3 DEF Submit, TypeOK, InJob
<1>5. \A i \in 1..Len(queue') : at'[queue'[i]] # "idle"
  <2>1. \A i \in 1..Len(queue) : queue[i] \in Jobs
    BY ElementOfSeq DEF TypeOK
  <2>2. QED
    BY <1>1, <1>2, <1>3, <2>1 DEF Submit, TypeOK
<1>6. Shape'
  BY <1>3, <1>4, <1>5 DEF Submit, TypeOK
<1>7. Current' /\ Met' /\ AnswersAreCurrent'
  BY <1>3 DEF Submit, TypeOK, Current, Met, AnswersAreCurrent, NoRecords
<1>8. QED
  BY <1>6, <1>7

\* A reader that starts has met the present state.
LEMMA StartReaderPreserves ==
    ASSUME ~ EarlyReaders, Inv, NEW r \in Readers, StartReader(r)
    PROVE  Inv'
<1> USE DEF Inv, Shape, HasFile, HasRead
<1>1. r \in Actors /\ r \notin Jobs /\ Jobs \subseteq Actors /\ Readers \subseteq Actors
  BY StoreAssumption DEF Actors
<1>2. TypeOK'
  BY <1>1 DEF StartReader, TypeOK, InJob
<1>3. \A i \in 1..Len(queue) : queue[i] \in Jobs
  BY ElementOfSeq DEF TypeOK
<1>4. Shape'
  BY <1>1, <1>2, <1>3 DEF StartReader, TypeOK
<1>5. Current' /\ Met' /\ AnswersAreCurrent'
  BY <1>1 DEF StartReader, TypeOK, Current, Met, AnswersAreCurrent, NoRecords
<1>6. QED
  BY <1>4, <1>5

\* A step that moves one actor on, within its code, and changes no data.
LEMMA MovePreserves ==
    ASSUME Inv, NEW a \in Actors, NEW next,
           at' = [at EXCEPT ![a] = next],
           UNCHANGED <<file, queue, request, seen, kept, during>>,
           \/ /\ a \in Jobs /\ at[a] = "queued" /\ a = Head(queue) /\ queue # <<>>
              /\ next = "access"
           \/ at[a] = "access" /\ file # Missing /\ next = "read"
           \/ a \in Jobs /\ at[a] = "access" /\ file = Missing /\ next = "create"
           \/ a \in Jobs /\ at[a] = "reaccess" /\ next = "truncate"
    PROVE  Inv'
<1> USE DEF Inv, Shape, HasFile, HasRead
<1>1. /\ Jobs \subseteq Actors /\ Readers \subseteq Actors /\ Jobs \cap Readers = {}
      /\ a \in Jobs \/ a \in Readers
  BY StoreAssumption DEF Actors
<1>2. TypeOK'
  BY <1>1 DEF TypeOK, InJob
<1>3. \A i \in 1..Len(queue) : queue[i] \in Jobs
  BY ElementOfSeq DEF TypeOK
<1>4. Shape'
  BY <1>1, <1>2, <1>3 DEF TypeOK
<1>5. Current' /\ Met' /\ AnswersAreCurrent'
  BY <1>1 DEF TypeOK, Current, Met, AnswersAreCurrent, NoRecords
<1>6. QED
  BY <1>4, <1>5

\* A reader is answered with the present state, or with nothing while a job is
\* writing.
LEMMA ReaderReadsPreserves ==
    ASSUME Inv, NEW r \in Readers, ReadAll(r)
    PROVE  Inv'
<1> USE DEF Inv, Shape, HasFile, HasRead
<1>1. r \in Actors /\ r \notin Jobs /\ Jobs \subseteq Actors /\ Readers \subseteq Actors
  BY StoreAssumption DEF Actors
<1>2. Parsed(r) \in Maps
  BY DEF Parsed, Maps, NoRecords
<1>3. at' = [at EXCEPT ![r] = "done"]
  BY DEF ReadAll
<1>4. TypeOK'
  BY <1>1, <1>2, <1>3 DEF ReadAll, TypeOK, InJob
<1>5. \A i \in 1..Len(queue) : queue[i] \in Jobs
  BY ElementOfSeq DEF TypeOK
<1>6. Shape'
  BY <1>1, <1>3, <1>4, <1>5 DEF ReadAll, TypeOK
<1>7. Parsed(r) \in {kept, NoRecords}
  BY DEF Parsed, Current
<1>8. AnswersAreCurrent'
  <2>1. kept \in during[r]
    BY DEF ReadAll, Met
  <2>2. seen'[r] \in during'[r] \cup {NoRecords}
    BY <1>1, <1>7, <2>1 DEF ReadAll, TypeOK
  <2>3. \A q \in Readers \ {r} : at'[q] = at[q] /\ seen'[q] = seen[q] /\ during'[q] = during[q]
    BY <1>1 DEF ReadAll, TypeOK
  <2>4. NoRecords' = NoRecords
    BY DEF NoRecords
  <2>5. QED
    BY <2>2, <2>3, <2>4 DEF AnswersAreCurrent
<1>9. Current'
  BY <1>1, <1>3 DEF ReadAll, TypeOK, Current, NoRecords, Maps
<1>10. Met'
  BY <1>1, <1>3 DEF ReadAll, TypeOK, Met
<1>11. QED
  BY <1>6, <1>8, <1>9, <1>10

\* A job reads the present state: no other job is writing.
LEMMA JobReadsPreserves ==
    ASSUME Inv, NEW j \in Jobs, ReadAll(j)
    PROVE  Inv'
<1> USE DEF Inv, Shape, HasFile, HasRead
<1>1. /\ j \in Actors /\ j \notin Readers /\ Jobs \subseteq Actors /\ Readers \subseteq Actors
      /\ j = Head(queue) /\ queue # <<>>
  BY StoreAssumption DEF Actors, TypeOK, InJob, ReadAll
<1>2. Parsed(j) \in Maps
  BY DEF Parsed, Maps, NoRecords
<1>3. PICK next \in {"settle", "reaccess"} :
         /\ at' = [at EXCEPT ![j] = next]
         /\ next = "settle" =>
               request[j].kind = "delete" /\ Parsed(j)[request[j].id] = Absent
  BY <1>1 DEF ReadAll
<1>4. TypeOK'
  BY <1>1, <1>2, <1>3 DEF ReadAll, TypeOK, InJob
<1>5. \A i \in 1..Len(queue) : queue[i] \in Jobs
  BY ElementOfSeq DEF TypeOK
<1>6. Shape'
  BY <1>1, <1>3, <1>4, <1>5 DEF ReadAll, TypeOK
<1>7. \A k \in Jobs : k # j => at[k] \notin HasRead
  BY <1>1 DEF TypeOK, InJob, HasRead
<1>8. at[j] \notin HasRead
  BY DEF ReadAll, HasRead
<1>9. Parsed(j) = kept
  BY <1>7, <1>8 DEF Current, Parsed
<1>10. AnswersAreCurrent'
  BY <1>1, <1>3 DEF ReadAll, TypeOK, AnswersAreCurrent, NoRecords
<1>11. Current'
  BY <1>1, <1>3, <1>7, <1>9 DEF ReadAll, TypeOK, Current, HasRead
<1>12. Met'
  BY <1>1, <1>3 DEF ReadAll, TypeOK, Met
<1>13. QED
  BY <1>6, <1>10, <1>11, <1>12

\* Only the running job creates the file, and nothing is recorded yet.
LEMMA CreatePreserves ==
    ASSUME Inv, NEW j \in Jobs, CreateFile(j) \/ CreateFill(j)
    PROVE  Inv'
<1> USE DEF Inv, Shape, HasFile, HasRead
<1>1. /\ j \in Actors /\ j \notin Readers /\ Jobs \subseteq Actors /\ Readers \subseteq Actors
      /\ j = Head(queue) /\ queue # <<>> /\ at[j] \in {"create", "createFill"}
  BY StoreAssumption DEF Actors, TypeOK, InJob, CreateFile, CreateFill
<1>2. PICK next \in {"createFill", "read"} : at' = [at EXCEPT ![j] = next]
  BY DEF CreateFile, CreateFill
<1>3. UNCHANGED <<queue, request, seen, kept, during>>
  BY DEF CreateFile, CreateFill
<1>4. \A k \in Jobs : k # j => at[k] \in {"idle", "queued", "done"}
  BY <1>1 DEF TypeOK, InJob
<1>5. NoRecords \in Maps /\ NoRecords' = NoRecords /\ Maps' = Maps
  BY DEF NoRecords, Maps
<1>6. /\ file \notin Maps /\ kept = NoRecords
      /\ at[j] = "createFill" => file = Truncated
      /\ at[j] = "create" => file = Missing
  BY <1>1, <1>4, FileAssumption DEF Current, TypeOK
<1>7. \/ next = "createFill" /\ file' = Truncated
      \/ next = "read" /\ file' = NoRecords
  BY <1>1, <1>2, <1>6 DEF CreateFile, CreateFill, Fill, TypeOK
<1>8. TypeOK'
  BY <1>1, <1>2, <1>3, <1>5, <1>7 DEF TypeOK, InJob
<1>9. \A i \in 1..Len(queue) : queue[i] \in Jobs
  BY ElementOfSeq DEF TypeOK
<1>10. Shape'
  BY <1>1, <1>2, <1>3, <1>4, <1>5, <1>7, <1>8, <1>9, FileAssumption DEF TypeOK
<1>11. Current'
  BY <1>1, <1>2, <1>3, <1>4, <1>5, <1>6, <1>7, FileAssumption DEF Current, TypeOK
<1>12. Met' /\ AnswersAreCurrent'
  BY <1>1, <1>2, <1>3, <1>5 DEF Met, AnswersAreCurrent, TypeOK
<1>13. QED
  BY <1>10, <1>11, <1>12

\* The job about to fill the file is the one that empties it.
LEMMA TruncatePreserves ==
    ASSUME Inv, NEW j \in Jobs, Truncate(j)
    PROVE  Inv'
<1> USE DEF Inv, Shape, HasFile, HasRead
<1>1. /\ j \in Actors /\ j \notin Readers /\ Jobs \subseteq Actors /\ Readers \subseteq Actors
      /\ j = Head(queue) /\ queue # <<>>
  BY StoreAssumption DEF Actors, TypeOK, InJob, Truncate
<1>2. TypeOK'
  BY <1>1 DEF Truncate, TypeOK, InJob
<1>3. \A i \in 1..Len(queue) : queue[i] \in Jobs
  BY ElementOfSeq DEF TypeOK
<1>4. Shape'
  BY <1>1, <1>2, <1>3, FileAssumption DEF Truncate, TypeOK
<1>5. /\ NoRecords' = NoRecords /\ Maps' = Maps /\ file' \notin Maps
      /\ UNCHANGED <<queue, request, seen, kept, during>>
  BY FileAssumption DEF Truncate, NoRecords, Maps
<1>6. Current'
  BY <1>1, <1>5 DEF Truncate, TypeOK, Current
<1>7. Met' /\ AnswersAreCurrent'
  BY <1>1, <1>5 DEF Truncate, TypeOK, Met, AnswersAreCurrent
<1>8. QED
  BY <1>4, <1>6, <1>7

\* A job that leaves the queue, having changed the file or not: what it read
\* was current, so what it wrote is.
LEMMA SettlePreserves ==
    ASSUME Inv, NEW j \in Jobs, FillJob(j) \/ NothingToDelete(j)
    PROVE  Inv'
<1> USE DEF Inv, Shape, HasFile, HasRead
<1>1. /\ j \in Actors /\ j \notin Readers /\ Jobs \subseteq Actors /\ Readers \subseteq Actors
      /\ j = Head(queue) /\ queue # <<>> /\ at[j] \in {"fill", "settle"}
      /\ request[j] \in Request
  BY StoreAssumption DEF Actors, TypeOK, InJob, FillJob, NothingToDelete
<1>2. /\ at' = [at EXCEPT ![j] = "done"] /\ queue' = Tail(queue)
      /\ kept' = Edited(j, kept) /\ Witness(kept')
      /\ UNCHANGED <<request, seen>>
  BY DEF FillJob, NothingToDelete, Settle
<1>3. /\ queue' \in Seq(Jobs) /\ Len(queue') = Len(queue) - 1
      /\ \A i \in 1..Len(queue') : i + 1 \in 1..Len(queue) /\ queue'[i] = queue[i + 1]
  BY <1>1, <1>2, SettledQueue DEF TypeOK
<1>4. kept' \in Maps /\ Edited(j, seen[j]) \in Maps
  BY <1>1, <1>2, EditedType DEF TypeOK
<1>5. /\ FillJob(j) => file' = Edited(j, seen[j])
      /\ NothingToDelete(j) => file' = file
  BY DEF FillJob, NothingToDelete, Fill
<1>6. file' \in Maps \/ file' = file
  BY <1>4, <1>5
<1>7. \A k \in Jobs : k # j => at[k] \in {"idle", "queued", "done"}
  BY <1>1 DEF TypeOK, InJob
<1>8. during' \in [Readers -> SUBSET Maps]
  BY <1>2, <1>4 DEF Witness, TypeOK
<1>9. TypeOK'
  BY <1>1, <1>2, <1>3, <1>4, <1>6, <1>7, <1>8 DEF TypeOK, InJob
<1>10. \A i \in 1..Len(queue) : queue[i] \in Jobs
  BY ElementOfSeq DEF TypeOK
<1>11. \A i \in 1..Len(queue') : at'[queue'[i]] # "idle"
  BY <1>1, <1>2, <1>3, <1>10 DEF TypeOK
<1>12. Shape'
  BY <1>1, <1>2, <1>6, <1>7, <1>9, <1>11, FileAssumption DEF TypeOK
<1>13. seen[j] = kept
  BY <1>1 DEF Current
<1>14. file' \in Maps => file' = kept'
  <2>1. CASE FillJob(j)
    BY <1>2, <1>5, <1>13, <2>1
  <2>2. CASE NothingToDelete(j)
    <3>1. Edited(j, kept) = kept
      BY <1>1, <1>13, <2>2 DEF NothingToDelete, Edited, TypeOK, Maps, Request
    <3>2. QED
      BY <1>2, <1>5, <2>2, <3>1 DEF Current
  <2>3. QED
    BY <2>1, <2>2
<1>15. file' \notin Maps => kept' = NoRecords
  <2> SUFFICES ASSUME file' \notin Maps PROVE kept' = NoRecords
    OBVIOUS
  <2>1. NothingToDelete(j) /\ file' = file
    BY <1>4, <1>5
  <2>2. kept = NoRecords
    BY <1>7, <2>1 DEF Current, NothingToDelete
  <2>3. Edited(j, kept) = kept
    BY <1>1, <1>13, <2>1 DEF NothingToDelete, Edited, TypeOK, Maps, Request
  <2>4. QED
    BY <1>2, <2>2, <2>3
<1>16. \A r \in Readers : at'[r] = at[r] /\ during[r] \subseteq during'[r]
  BY <1>1, <1>2 DEF TypeOK, Witness
<1>17. \A r \in Readers : at[r] \notin {"idle", "done"} => kept' \in during'[r]
  BY <1>2 DEF Witness
<1>18. AnswersAreCurrent'
  <2> SUFFICES ASSUME NEW r \in Readers, at'[r] = "done"
               PROVE  seen'[r] \in during'[r] \cup {NoRecords}
    BY DEF AnswersAreCurrent, NoRecords
  <2>1. seen[r] \in during[r] \cup {NoRecords}
    BY <1>16 DEF AnswersAreCurrent
  <2>2. QED
    BY <1>2, <1>16, <2>1
<1>19. Current'
  BY <1>1, <1>2, <1>7, <1>14, <1>15 DEF Current, TypeOK, Maps, NoRecords
<1>20. Met'
  BY <1>16, <1>17 DEF Met
<1>21. QED
  BY <1>12, <1>18, <1>19, <1>20

\* A delete whose write fails leaves the file as it was, or nothing of it.
LEMMA DeleteFailsPreserves ==
    ASSUME Inv, NEW j \in Jobs, DeleteFails(j)
    PROVE  Inv'
<1> USE DEF Inv, Shape, HasFile, HasRead
<1>1. /\ j \in Actors /\ j \notin Readers /\ Jobs \subseteq Actors /\ Readers \subseteq Actors
      /\ j = Head(queue) /\ queue # <<>>
  BY StoreAssumption DEF Actors, TypeOK, InJob, DeleteFails
<1>2. /\ at' = [at EXCEPT ![j] = "done"] /\ queue' = Tail(queue) /\ Witness(kept')
      /\ kept' = IF file \in Maps THEN kept ELSE NoRecords
      /\ UNCHANGED <<file, request, seen>>
  BY DEF DeleteFails, Settle, CutShort
<1>3. /\ queue' \in Seq(Jobs) /\ Len(queue') = Len(queue) - 1
      /\ \A i \in 1..Len(queue') : i + 1 \in 1..Len(queue) /\ queue'[i] = queue[i + 1]
  BY <1>1, <1>2, SettledQueue DEF TypeOK
<1>4. \A k \in Jobs : k # j => at[k] \in {"idle", "queued", "done"}
  BY <1>1 DEF TypeOK, InJob
<1>5. NoRecords \in Maps /\ NoRecords' = NoRecords /\ Maps' = Maps
  BY DEF NoRecords, Maps
<1>6. kept' \in Maps /\ during' \in [Readers -> SUBSET Maps]
  BY <1>2, <1>5 DEF Witness, TypeOK
<1>7. TypeOK'
  BY <1>1, <1>2, <1>3, <1>4, <1>6 DEF TypeOK, InJob
<1>8. \A i \in 1..Len(queue) : queue[i] \in Jobs
  BY ElementOfSeq DEF TypeOK
<1>9. \A i \in 1..Len(queue') : at'[queue'[i]] # "idle"
  BY <1>1, <1>2, <1>3, <1>8 DEF TypeOK
<1>10. Shape'
  BY <1>1, <1>2, <1>4, <1>7, <1>9 DEF TypeOK
<1>11. Current'
  BY <1>1, <1>2, <1>4, <1>5 DEF Current, TypeOK
<1>12. \A r \in Readers : at'[r] = at[r] /\ during[r] \subseteq during'[r]
  BY <1>1, <1>2 DEF TypeOK, Witness
<1>13. \A r \in Readers : at[r] \notin {"idle", "done"} => kept' \in during'[r]
  BY <1>2 DEF Witness
<1>14. AnswersAreCurrent'
  <2> SUFFICES ASSUME NEW r \in Readers, at'[r] = "done"
               PROVE  seen'[r] \in during'[r] \cup {NoRecords}
    BY <1>5 DEF AnswersAreCurrent
  <2>1. seen[r] \in during[r] \cup {NoRecords}
    BY <1>12 DEF AnswersAreCurrent
  <2>2. QED
    BY <1>2, <1>12, <2>1
<1>15. Met'
  BY <1>12, <1>13 DEF Met
<1>16. QED
  BY <1>10, <1>11, <1>14, <1>15

\* A crash empties the queue, and the store if a job was filling the file.
LEMMA ProcessDiesPreserves ==
    ASSUME Inv, ProcessDies
    PROVE  Inv'
<1> USE DEF Inv, Shape, HasFile, HasRead
<1>1. Jobs \subseteq Actors /\ Readers \subseteq Actors /\ Jobs \cap Readers = {}
  BY StoreAssumption DEF Actors
<1>2. queue' \in Seq(Jobs) /\ Len(queue') = 0
  BY EmptySeq DEF ProcessDies
<1>3. /\ at' \in [Actors -> {"idle", "done"}]
      /\ \A a \in Actors : at[a] = "idle" => at'[a] = "idle"
      /\ \A a \in Actors : at'[a] = "done" => at[a] # "idle"
      /\ \A r \in Readers : at'[r] = "done" => at[r] = "done"
  BY <1>1 DEF ProcessDies
<1>4. NoRecords \in Maps /\ NoRecords' = NoRecords /\ Maps' = Maps
  BY DEF NoRecords, Maps
<1>5. /\ kept' = IF file \in Maps THEN kept ELSE NoRecords
      /\ UNCHANGED <<file, request, seen, during>>
  BY DEF ProcessDies, CutShort
<1>6. TypeOK'
  BY <1>1, <1>2, <1>3, <1>4, <1>5 DEF TypeOK, InJob
<1>7. Shape'
  BY <1>1, <1>2, <1>3, <1>5, <1>6
<1>8. Current'
  BY <1>1, <1>3, <1>4, <1>5 DEF Current
<1>9. Met' /\ AnswersAreCurrent'
  BY <1>1, <1>3, <1>4, <1>5 DEF Met, AnswersAreCurrent
<1>10. QED
  BY <1>7, <1>8, <1>9

-----------------------------------------------------------------------------
(* The theorems *)

\* Every step preserves the invariant.
LEMMA NextPreserves ==
    ASSUME ~ EarlyReaders, Inv, [Next]_vars
    PROVE  Inv'
<1> USE DEF Inv
<1>1. ASSUME NEW j \in Jobs, NEW r \in Request, Submit(j, r) PROVE Inv'
  BY <1>1, SubmitPreserves
<1>2. ASSUME NEW r \in Readers, StartReader(r) PROVE Inv'
  BY <1>2, StartReaderPreserves
<1>3. ASSUME NEW j \in Jobs, Job(j) PROVE Inv'
  <2>1. j \in Actors
    BY DEF Actors
  <2>2. CASE StartJob(j)
    BY <2>1, <2>2, MovePreserves DEF StartJob
  <2>3. CASE Reaccess(j)
    BY <2>1, <2>3, MovePreserves DEF Reaccess
  <2>4. CASE Truncate(j)
    BY <2>4, TruncatePreserves
  <2>5. CASE FillJob(j) \/ NothingToDelete(j)
    BY <2>5, SettlePreserves
  <2>6. QED
    BY <1>3, <2>2, <2>3, <2>4, <2>5 DEF Job
<1>4. ASSUME NEW j \in Jobs, DeleteFails(j) PROVE Inv'
  BY <1>4, DeleteFailsPreserves
<1>5. ASSUME NEW a \in Actors, FileAccess(a) PROVE Inv'
  <2>1. CASE AccessFound(a)
    BY <2>1, MovePreserves DEF AccessFound
  <2>2. CASE ReadAll(a)
    BY <2>2, JobReadsPreserves, ReaderReadsPreserves DEF Actors
  <2>3. CASE AccessMissing(a)
    <3>1. a \in Jobs
      BY <2>3 DEF AccessMissing, Shape, Actors
    <3>2. QED
      BY <2>3, <3>1, MovePreserves DEF AccessMissing
  <2>4. CASE CreateFile(a) \/ CreateFill(a)
    <3>1. a \in Jobs
      BY <2>4 DEF CreateFile, CreateFill, Shape, Actors
    <3>2. QED
      BY <2>4, <3>1, CreatePreserves
  <2>5. QED
    BY <1>5, <2>1, <2>2, <2>3, <2>4 DEF FileAccess
<1>6. CASE ProcessDies
  BY <1>6, ProcessDiesPreserves
<1>7. CASE UNCHANGED vars
  BY <1>7 DEF vars, Shape, TypeOK, InJob, Current, HasFile, HasRead, Met,
              AnswersAreCurrent, NoRecords, Maps
<1>8. QED
  BY <1>1, <1>2, <1>3, <1>4, <1>5, <1>6, <1>7 DEF Next

\* If no request comes before there is a file the invariant holds of every reachable state.
THEOREM Invariance ==
    ASSUME ~ EarlyReaders
    PROVE  Spec => []Inv
<1>1. Init => Inv
  BY InitInv
<1>2. Inv /\ [Next]_vars => Inv'
  BY NextPreserves
<1>3. QED
  BY <1>1, <1>2, PTL DEF Spec

\* The queue, the file and every job stay consistent (TypeOK): only the first
\* job of writeQueue is ever past its start.
THEOREM TypeCorrect ==
    ASSUME ~ EarlyReaders
    PROVE  Spec => []TypeOK
<1>1. Inv => TypeOK
  BY DEF Inv, Shape
<1>2. QED
  BY <1>1, Invariance, PTL

\* No record is lost or resurrected but by a write cut short, whatever the
\* readers do and however many jobs are queued (enqueueWrite, writeAll).
THEOREM NothingClobbered ==
    ASSUME ~ EarlyReaders
    PROVE  Spec => []RecordsKept
<1>1. Inv => RecordsKept
  BY DEF Inv, Current, RecordsKept, Actors
<1>2. QED
  BY <1>1, Invariance, PTL

\* A reader is answered with a state of the store that was
\* current while it was at work, or with no sessions at all (readAll).
THEOREM ReadersSeeTheStore ==
    ASSUME ~ EarlyReaders
    PROVE  Spec => []AnswersAreCurrent
<1>1. Inv => AnswersAreCurrent
  BY DEF Inv
<1>2. QED
  BY <1>1, Invariance, PTL

-----------------------------------------------------------------------------
(* The queue implements the atomic store *)

\* What the store holds is what the finished jobs amount to.
LEMMA StoredIsKept == Inv => Stored = kept
<1> SUFFICES ASSUME Inv PROVE Stored = kept
  OBVIOUS
<1>1. CASE file \in Maps
  BY <1>1 DEF Inv, Current, Stored
<1>2. CASE file \notin Maps /\ \E j \in Jobs : at[j] = "fill"
  <2> DEFINE writer == CHOOSE j \in Jobs : at[j] = "fill"
  <2>1. writer \in Jobs /\ at[writer] = "fill"
    BY <1>2
  <2>2. seen[writer] = kept
    BY <2>1 DEF Inv, Current, HasRead
  <2>3. QED
    BY <1>2, <2>2 DEF Stored
<1>3. CASE file \notin Maps /\ ~ \E j \in Jobs : at[j] = "fill"
  BY <1>3 DEF Inv, Current, Stored
<1>4. QED
  BY <1>1, <1>2, <1>3

\* The same fact of the next state.
LEMMA StoredIsKeptNext == Inv' => Stored' = kept'
<1>1. Inv' => (Stored = kept)'
  BY StoredIsKept, PTL
<1>2. QED
  BY <1>1

\* The backlog is a sequence of requests, as long as the queue.
Matches ==
    /\ Backlog \in Seq(Promise!Request)
    /\ Len(Backlog) = Len(queue)
    /\ \A i \in 1..Len(queue) :
          Backlog[i] = [job |-> queue[i], kind |-> request[queue[i]].kind,
                        id |-> request[queue[i]].id]

\* The backlog lists the requests of the queued jobs in their order.
LEMMA BacklogMatches == Inv => Matches
<1> SUFFICES ASSUME Inv PROVE Matches
  OBVIOUS
<1>1. Len(queue) \in Nat /\ \A i \in 1..Len(queue) : queue[i] \in Jobs
  BY ElementOfSeq, LenProperties DEF Inv, Shape, TypeOK
<1>2. \A i \in 1..Len(queue) : request[queue[i]] \in Request
  BY <1>1 DEF Inv, Shape
<1>3. \A i \in 1..Len(queue) :
         [job |-> queue[i], kind |-> request[queue[i]].kind, id |-> request[queue[i]].id]
             \in Promise!Request
  BY <1>1, <1>2 DEF Promise!Request, Request
<1>4. Backlog \in [1..Len(queue) -> Promise!Request]
  BY <1>3 DEF Backlog
<1>5. Backlog \in Seq(Promise!Request) /\ Len(Backlog) = Len(queue)
  BY <1>1, <1>4
<1>6. QED
  BY <1>5 DEF Backlog, Matches

\* The same fact of the next state.
LEMMA BacklogMatchesNext == Inv' => Matches'
  BY BacklogMatches, PTL

\* Submitting a job is accepting its request.
LEMMA SubmitAccepts ==
    ASSUME Inv, Inv', NEW j \in Jobs, NEW r \in Request, Submit(j, r)
    PROVE  Promise!Accept
<1> DEFINE entry == [job |-> j, kind |-> r.kind, id |-> r.id]
<1>1. entry \in Promise!Request
  BY DEF Promise!Request, Request
<1>2. /\ queue \in Seq(Jobs) /\ queue' = Append(queue, j)
      /\ Len(queue) \in Nat /\ \A i \in 1..Len(queue) : queue[i] \in Jobs
  BY ElementOfSeq, LenProperties DEF Submit, Inv, Shape, TypeOK
<1>3. /\ Len(queue') = Len(queue) + 1
      /\ \A i \in 1..Len(queue) : queue'[i] = queue[i]
      /\ queue'[Len(queue) + 1] = j
  BY <1>2, AppendProperties
<1>4. /\ request'[j] = r
      /\ \A i \in 1..Len(queue) : request'[queue[i]] = request[queue[i]]
  BY <1>2 DEF Submit, Inv, Shape, TypeOK
<1> HIDE DEF entry
<1>5. /\ Append(Backlog, entry) \in Seq(Promise!Request)
      /\ Len(Append(Backlog, entry)) = Len(queue) + 1
      /\ \A i \in 1..Len(queue) : Append(Backlog, entry)[i] = Backlog[i]
      /\ Append(Backlog, entry)[Len(queue) + 1] = entry
  BY <1>1, BacklogMatches, AppendProperties DEF Matches
<1>6. /\ Backlog' \in Seq(Promise!Request)
      /\ Len(Backlog') = Len(queue) + 1
      /\ \A i \in 1..Len(queue) : Backlog'[i] = Backlog[i]
      /\ Backlog'[Len(queue) + 1] = entry
  <2>1. Backlog' \in Seq(Promise!Request) /\ Len(Backlog') = Len(queue')
    BY BacklogMatchesNext DEF Matches
  <2>2. ASSUME NEW i \in 1..Len(queue) PROVE Backlog'[i] = Backlog[i]
    <3>1. i \in 1..Len(queue')
      BY <1>2, <1>3
    <3>2. Backlog'[i] = [job |-> queue'[i], kind |-> request'[queue'[i]].kind,
                         id |-> request'[queue'[i]].id]
      BY <3>1, BacklogMatchesNext DEF Matches
    <3>3. Backlog[i] = [job |-> queue[i], kind |-> request[queue[i]].kind,
                        id |-> request[queue[i]].id]
      BY BacklogMatches DEF Matches
    <3>4. QED
      BY <1>3, <1>4, <3>2, <3>3
  <2>3. Backlog'[Len(queue) + 1] = entry
    <3>1. Len(queue) + 1 \in 1..Len(queue')
      BY <1>2, <1>3
    <3>2. Backlog'[Len(queue) + 1] =
             [job |-> queue'[Len(queue) + 1], kind |-> request'[queue'[Len(queue) + 1]].kind,
              id |-> request'[queue'[Len(queue) + 1]].id]
      BY <3>1, BacklogMatchesNext DEF Matches
    <3>3. QED
      BY <1>3, <1>4, <3>2 DEF entry
  <2>4. QED
    BY <1>3, <2>1, <2>2, <2>3
<1>7. \A i \in 1..Len(queue) + 1 : Backlog'[i] = Append(Backlog, entry)[i]
  BY <1>2, <1>5, <1>6
<1>8. Backlog' = Append(Backlog, entry)
  BY <1>5, <1>6, <1>7, SeqEqual
<1>9. Stored' = Stored
  BY StoredIsKept, StoredIsKeptNext DEF Submit
<1>10. QED
  BY <1>1, <1>8, <1>9 DEF Promise!Accept

\* When the first job leaves the queue the oldest request leaves the backlog.
LEMMA SettledBacklog ==
    ASSUME Inv, Inv', NEW j \in Jobs, InJob(j), queue' = Tail(queue), request' = request
    PROVE  /\ Backlog # <<>> /\ Backlog' = Tail(Backlog)
           /\ Head(Backlog) = [job |-> j, kind |-> request[j].kind, id |-> request[j].id]
<1>1. j = Head(queue) /\ queue # <<>> /\ queue \in Seq(Jobs)
  BY DEF Inv, Shape, TypeOK
<1>2. /\ Len(queue') = Len(queue) - 1 /\ Len(queue) \in Nat
      /\ \A i \in 1..Len(queue') : i + 1 \in 1..Len(queue) /\ queue'[i] = queue[i + 1]
  BY <1>1, SettledQueue, LenProperties
<1>3. 1 \in 1..Len(queue) /\ queue[1] = j
  BY <1>1, <1>2, HeadTailProperties, EmptySeq
<1>4. Backlog # <<>> /\ Head(Backlog) = [job |-> j, kind |-> request[j].kind, id |-> request[j].id]
  <2>1. Backlog[1] = [job |-> j, kind |-> request[j].kind, id |-> request[j].id]
    BY <1>3, BacklogMatches DEF Matches
  <2>2. Backlog \in Seq(Promise!Request) /\ Len(Backlog) # 0
    BY <1>2, <1>3, BacklogMatches DEF Matches
  <2>3. Backlog # <<>>
    BY <2>2, EmptySeq
  <2>4. Head(Backlog) = Backlog[1]
    BY <2>2, <2>3
  <2>5. QED
    BY <2>1, <2>3, <2>4
<1>5. /\ Tail(Backlog) \in Seq(Promise!Request)
      /\ Len(Tail(Backlog)) = Len(queue) - 1
      /\ \A i \in 1..Len(queue) - 1 : Tail(Backlog)[i] = Backlog[i + 1]
  BY <1>4, BacklogMatches, HeadTailProperties DEF Matches
<1>6. \A i \in 1..Len(queue) - 1 : Backlog'[i] = Backlog[i + 1]
  <2> SUFFICES ASSUME NEW i \in 1..Len(queue) - 1 PROVE Backlog'[i] = Backlog[i + 1]
    OBVIOUS
  <2>1. i \in 1..Len(queue') /\ i + 1 \in 1..Len(queue) /\ queue'[i] = queue[i + 1]
    BY <1>2
  <2>2. Backlog'[i] = [job |-> queue'[i], kind |-> request'[queue'[i]].kind,
                       id |-> request'[queue'[i]].id]
    BY <2>1, BacklogMatchesNext DEF Matches
  <2>3. Backlog[i + 1] = [job |-> queue[i + 1], kind |-> request[queue[i + 1]].kind,
                          id |-> request[queue[i + 1]].id]
    BY <2>1, BacklogMatches DEF Matches
  <2>4. QED
    BY <2>1, <2>2, <2>3
<1>7. Backlog' = Tail(Backlog)
  BY <1>2, <1>5, <1>6, BacklogMatchesNext, SeqEqual DEF Matches
<1>8. QED
  BY <1>4, <1>7

\* A job that settles applies the oldest request of the backlog.
LEMMA SettleApplies ==
    ASSUME Inv, Inv', NEW j \in Jobs, FillJob(j) \/ NothingToDelete(j)
    PROVE  Promise!Apply
<1>1. InJob(j) /\ queue' = Tail(queue) /\ kept' = Edited(j, kept) /\ request' = request
  BY DEF FillJob, NothingToDelete, Settle, InJob
<1>2. Stored = kept /\ Stored' = kept'
  BY StoredIsKept, StoredIsKeptNext
<1>3. Stored' = [Stored EXCEPT ![request[j].id] =
                     IF request[j].kind = "save" THEN j ELSE Absent]
  BY <1>1, <1>2 DEF Edited
<1>4. /\ Backlog # <<>> /\ Backlog' = Tail(Backlog)
      /\ Head(Backlog).id = request[j].id /\ Head(Backlog).kind = request[j].kind
      /\ Head(Backlog).job = j
  BY <1>1, SettledBacklog
<1>5. QED
  BY <1>3, <1>4 DEF Promise!Apply

\* A delete that fails drops the oldest request, and perhaps the records.
LEMMA DeleteFailsFails ==
    ASSUME Inv, Inv', NEW j \in Jobs, DeleteFails(j)
    PROVE  Promise!Fail
<1>1. /\ InJob(j) /\ queue' = Tail(queue) /\ request' = request
      /\ kept' = IF file \in Maps THEN kept ELSE NoRecords
  BY DEF DeleteFails, Settle, InJob, CutShort
<1>2. Stored = kept /\ Stored' = kept'
  BY StoredIsKept, StoredIsKeptNext
<1>3. Backlog # <<>> /\ Backlog' = Tail(Backlog)
  BY <1>1, SettledBacklog
<1>4. QED
  BY <1>1, <1>2, <1>3 DEF Promise!Fail, Promise!NothingRecorded, NoRecords

\* A crash drops the backlog, and perhaps the records.
LEMMA ProcessDiesCrashes ==
    ASSUME Inv, Inv', ProcessDies
    PROVE  Promise!Crash
<1>1. queue' = <<>> /\ kept' = IF file \in Maps THEN kept ELSE NoRecords
  BY DEF ProcessDies, CutShort
<1>2. Stored = kept /\ Stored' = kept'
  BY StoredIsKept, StoredIsKeptNext
<1>3. Backlog' = <<>>
  BY <1>1 DEF Backlog
<1>4. QED
  BY <1>1, <1>2, <1>3 DEF Promise!Crash, Promise!NothingRecorded, NoRecords

\* Every other step leaves the stored records and the backlog alone.
LEMMA OthersStutter ==
    ASSUME Inv, Inv', kept' = kept, queue' = queue, request' = request
    PROVE  UNCHANGED Promise!storeVars
<1>1. Stored' = Stored
  BY StoredIsKept, StoredIsKeptNext
<1>2. Backlog' = Backlog
  BY DEF Backlog
<1>3. QED
  BY <1>1, <1>2 DEF Promise!storeVars

\* Every step is a step of the atomic store or a stutter.
LEMMA StepRefines ==
    ASSUME Inv, Inv', [Next]_vars
    PROVE  [Promise!StoreNext]_Promise!storeVars
<1>1. ASSUME NEW j \in Jobs, NEW r \in Request, Submit(j, r) PROVE Promise!StoreNext
  BY <1>1, SubmitAccepts DEF Promise!StoreNext
<1>2. ASSUME NEW j \in Jobs, FillJob(j) \/ NothingToDelete(j) PROVE Promise!StoreNext
  BY <1>2, SettleApplies DEF Promise!StoreNext
<1>3. ASSUME NEW j \in Jobs, DeleteFails(j) PROVE Promise!StoreNext
  BY <1>3, DeleteFailsFails DEF Promise!StoreNext
<1>4. CASE ProcessDies
  BY <1>4, ProcessDiesCrashes DEF Promise!StoreNext
<1>5. CASE kept' = kept /\ queue' = queue /\ request' = request
  BY <1>5, OthersStutter
<1>6. ASSUME NEW j \in Jobs, StartJob(j) \/ Reaccess(j) \/ Truncate(j)
      PROVE  kept' = kept /\ queue' = queue /\ request' = request
  BY <1>6 DEF StartJob, Reaccess, Truncate
<1>7. ASSUME NEW a \in Actors, FileAccess(a)
      PROVE  kept' = kept /\ queue' = queue /\ request' = request
  BY <1>7 DEF FileAccess, AccessFound, AccessMissing, CreateFile, CreateFill, ReadAll
<1>8. ASSUME NEW r \in Readers, StartReader(r)
      PROVE  kept' = kept /\ queue' = queue /\ request' = request
  BY <1>8 DEF StartReader
<1>9. CASE UNCHANGED vars
  BY <1>5, <1>9 DEF vars
<1>10. QED
  BY <1>1, <1>2, <1>3, <1>4, <1>5, <1>6, <1>7, <1>8, <1>9 DEF Next, Job

\* The queue of read-modify-write jobs on the file implements the atomic store
\* (ImplementsStore): each save and delete takes effect whole, in the order of
\* submission, whatever readers do meanwhile and whatever faults occur.
THEOREM Refinement ==
    ASSUME ~ EarlyReaders
    PROVE  Spec => ImplementsStore
<1>1. Init => Promise!StoreInit
  <2> SUFFICES ASSUME Init PROVE Promise!StoreInit
    OBVIOUS
  <2>1. Stored = NoRecords
    BY InitInv, StoredIsKept DEF Init
  <2>2. Backlog = <<>>
    BY DEF Init, Backlog
  <2>3. QED
    BY <2>1, <2>2 DEF Promise!StoreInit, Promise!NothingRecorded, NoRecords
<1>2. Inv /\ Inv' /\ [Next]_vars => [Promise!StoreNext]_Promise!storeVars
  BY StepRefines
<1>3. QED
  BY <1>1, <1>2, Invariance, PTL DEF Spec, ImplementsStore, Promise!StoreSpec

=============================================================================
