----------------------------- MODULE RecordStore -----------------------------
(***************************************************************************)
(* What the session store promises its callers: a map from session ids to   *)
(* records, on which the submitted saves and deletes take effect one at a   *)
(* time and in the order they were submitted.  It does not promise to       *)
(* survive a fault: a failing write or the end of the process drops one job  *)
(* or all of them, and may take every record along.                         *)
(***************************************************************************)
EXTENDS Naturals, Sequences

CONSTANTS Ids,     \* session ids
          Jobs,    \* the saves and deletes; a save writes a record of its own
          Absent   \* the value of an id without a record

VARIABLES records,  \* the record of each id
          backlog   \* the jobs submitted and not yet applied

storeVars == <<records, backlog>>

Request == [job : Jobs, kind : {"save", "delete"}, id : Ids]

NothingRecorded == [id \in Ids |-> Absent]

StoreInit == records = NothingRecorded /\ backlog = <<>>

Accept ==
    /\ \E request \in Request : backlog' = Append(backlog, request)
    /\ UNCHANGED records

Apply ==
    /\ backlog # <<>>
    /\ LET request == Head(backlog)
       IN  records' = [records EXCEPT ![request.id] =
                          IF request.kind = "save" THEN request.job ELSE Absent]
    /\ backlog' = Tail(backlog)

\* The oldest job fails.
Fail ==
    /\ backlog # <<>>
    /\ backlog' = Tail(backlog)
    /\ records' \in {records, NothingRecorded}

\* The process ends.
Crash ==
    /\ backlog' = <<>>
    /\ records' \in {records, NothingRecorded}

StoreNext == Accept \/ Apply \/ Fail \/ Crash

StoreSpec == StoreInit /\ [][StoreNext]_storeVars

=============================================================================
