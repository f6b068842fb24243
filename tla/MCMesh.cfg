SPECIFICATION Spec
CONSTANTS
    hub = hub
    spoke = spoke
    local = local
    Buses = {hub, spoke, local}
    Links <- PairLinks
    Bridges <- LocalBridges
    MaxHops = 1
    Memory = 1
    MaxEvents = 3
    MaxLosses = 1
INVARIANTS
    NoEcho
    InOrder
PROPERTIES
    Delivered
CHECK_DEADLOCK FALSE
