SPECIFICATION Spec
CONSTANTS
    Hosts = {TRUE, FALSE}
    Asides = {"agent.message"}
    MaxCalls = 2
    Images = {TRUE, FALSE}
    KeepResults = 1
    KeepMessages = 1
    MaxEvents = 8
INVARIANTS
    OnlyDividedBatchesAreCut
    NothingSkipped
CHECK_DEADLOCK FALSE
