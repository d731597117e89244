\* The server makes up every session id; the process may die.
CONSTANTS
    Conns = {c1, c2}
    NamedIds = {}
    FalsyIds = {}
    None = None
    MayExit = TRUE
    MaxSessions = 2
    MaxQueue = 2
    MaxEvents = 2
SPECIFICATION FairSpec
INVARIANTS
    HeldSessionIsLive
    RunningSessionIsHeld
PROPERTIES
    EndedSessionsAreRecorded
    
