CONSTANTS
    Sessions = {s1, s2}
    Calls = {c1}
    Isolation = {TRUE}
    MaxLive = 1
    MaxSubagents = 1
    MaxTurns = 1
    MaxAsks = 0
    MaxDecisions = 0
    MaxMishaps = 2
SPECIFICATION Spec
SYMMETRY CallSymmetry
INVARIANTS
    NobodyIsSwept
CHECK_DEADLOCK FALSE
