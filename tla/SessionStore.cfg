\* Three jobs and a reader, with or without a file at the start, and faults.
CONSTANTS
    Ids = {a, b}
    Jobs = {j1, j2, j3}
    Readers = {r1}
    Absent = Absent
    Missing = Missing
    Truncated = Truncated
    Garbage = Garbage
    EarlyReaders = FALSE
SPECIFICATION FairSpec
CHECK_DEADLOCK FALSE
INVARIANTS
    AnswersAreCurrent
    RecordsKept
PROPERTIES
    JobsEnd
    ImplementsStore
