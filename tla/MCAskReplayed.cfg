SPECIFICATION TSpec
CONSTANTS
    Tools <- FewTools
    Terminal = {"deploy"}
    Verdict <- FewVerdicts
    Policy <- FewPolicies
    MaxSteps = 2
    MaxConcurrent = 0
    Finalize = TRUE
    MaxTokens = 3
    MaxCalls = 2
    MaxBatch = 2
    MaxTurns = 2
    MaxCancels = 1
    MaxRestarts = 1
INVARIANTS
    RunsOnlyIfApproved
CHECK_DEADLOCK FALSE
