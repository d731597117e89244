\* Every kind of fix, clocks behind, level and ahead, fixes up to a tick late.
CONSTANTS
    FixKinds <- AllKinds
    Skews <- Ahead
    MaxDelay = 1
    MaxTime = 5
    Timeout = 2
    Uncertainties = {0, 7, 34}
    Magnitudes = {0}
    WindowSize = 1
    Debounce = 0
    SampleTimes = {0}
    MaxSamples = 1
    None = None
SPECIFICATION Spec
INVARIANTS
    
    NoFusionWithoutFixes
PROPERTIES
    ConfidenceNeverRisesUnseen
