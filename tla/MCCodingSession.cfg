SPECIFICATION Spec
CONSTANTS
    Callers = {c1, c2}
    Files = {f1, f2}
    f1 = f1
    f2 = f2
    MaxContent = 2
    Starts <- OneFile
    MaxTurns = 2
    MaxWrites = 2
    MaxRewinds = 1
    MaxMishaps = 1
INVARIANTS
    TurnsDoNotInterleave
    CheckpointsMatch
    RewindPutsBack
PROPERTIES
    CancelStops
CHECK_DEADLOCK FALSE
