\* Two calls, two dashboards, with Redis and without; in the end all calls are made.
SPECIFICATION Spec
CONSTANTS
    Calls = {c1, c2}
    Dashboards = {d1, d2}
    Subscriber = subscriber
    None = none
SYMMETRY TelemetrySymmetry
INVARIANTS
    TypeOK
    CountedAreStored
    ShownIsStored
    
    DashboardsAgree
 
CHECK_DEADLOCK FALSE
