\* Two connections may choose the same id, and reuse it.
CONSTANTS
    Conns = {c1, c2}
    NamedIds = {x}
    FalsyIds = {}
    None = None
    MayExit = TRUE
    MaxSessions = 2
    MaxQueue = 2
    MaxEvents = 1
SPECIFICATION Spec
INVARIANTS
    ListenersBelong
    TrackComplete
