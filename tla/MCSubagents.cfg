CONSTANTS
    Sessions = {s1}
    Calls = {c1, c2}
    Isolation = {TRUE}
    MaxLive = 1
    MaxSubagents = 2
    MaxTurns = 2
    MaxAsks = 1
    MaxDecisions = 2
    MaxMishaps = 2
SPECIFICATION Spec
SYMMETRY CallSymmetry
INVARIANTS
    OneConversation
    AnswersReachTheAsker
    CheckoutsFollowOwners
CHECK_DEADLOCK FALSE
