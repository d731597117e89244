\* The dashboard and one screen on top of it; two fixes.
CONSTANTS
    Home = home
    Sessions = {session}
    StillSamples = 2
    OldFixes = 1
    MaxFixes = 2
    FixSpeed <- SomeSpeeds
    MaxSaves = 2
    Absent = Absent
SPECIFICATION ScreensSpec
INVARIANTS
    ScreensTypeOK
    
    LockedShowsFix
PROPERTY
    StopsWhenStationary
