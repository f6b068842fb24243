SPECIFICATION PFairSpec
CONSTANTS
    Callers = {c1, c2}
    Subs = {s1}
    Exporter = s1
    Kinds = {"user.message"}
    ReplyTo = {}
    MaxRetained = 1
    Capacity = 99
    UsizeMax = 99
    MaxEvents = 4
    MaxQueue = 0
    MaxFailures = 1
    MaxRestarts = 1
INVARIANTS
    RestoreIsFaithful
    RestoreKeepsBranches
    RestoreKeepsEvents
PROPERTIES
    EventuallyDurable
