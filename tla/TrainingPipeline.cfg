\* Two recordings, one of them too short on its own; two runs; trainings of one to three epochs.
CONSTANTS
    a = a
    b = b
    Recordings = {a, b}
    Rows <- SomeRows
    MinRows = 1000
    Epochs <- FewEpochs
    Patience <- ShortPatience
    MinDelta = 1
    Metrics = {0, 1, 3}
    MaxRuns = 2
    None = None
SPECIFICATION Spec
CHECK_DEADLOCK FALSE
INVARIANTS
    TypeOK
    WrittenInOrder
    NetworksAreBest
    TracksAreWhole
