SPECIFICATION Spec
CONSTANTS
    Agents = {a1, a2}
    Limits = {0, 1}
    MaxInputs = 2
    MaxBeats = 1
    MaxFailures = 1
    MaxRollbacks = 1
INVARIANTS
    NoWakeLost
    NothingPassedOver
PROPERTIES
    SetReturns
CHECK_DEADLOCK FALSE
