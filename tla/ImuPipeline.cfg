\* Five samples over timestamps in any order, a window of three, the anchoring fix
\* anywhere between them; the clocks stand still.
CONSTANTS
    Magnitudes = {0, 40, 120}
    WindowSize = 3
    Debounce = 2
    SampleTimes = {0, 1, 2, 3, 4}
    MaxSamples = 5
    FixKinds <- OneKind
    Skews = {0}
    MaxDelay = 0
    MaxTime = 0
    Timeout = 2
    Uncertainties = {0}
    None = None
SPECIFICATION Spec
INVARIANTS
    TypeOK
    AnomaliesAreSpaced
    BaselineIsRecent
