SPECIFICATION Spec
CONSTANTS
    Callers = {c1, c2}
    Subs = {s1}
    Kinds = {"user.message"}
    ReplyTo = {2}
    MaxRetained = 1
    Capacity = 99
    UsizeMax = 99
    MaxEvents = 5
    MaxQueue = 2
SYMMETRY Interchangeable
INVARIANTS
    TypeOK
    NodesRetained
    OnePlace
    NoEventLost
    AnchorsResolve
    BoundedRetention
    ChainIntact
    TombstonesHonoured
    StreamMatchesLog
PROPERTIES
    ImplementsBusLog
