SPECIFICATION HFairSpec
CONSTANTS
    Tasks = {t1}
    Names <- ChainNames
    Slots <- ChainSlots
    Requires <- ChainRequires
    Registers <- ChainRegisters
    MayFail = {"index"}
    MaxDrops = 1
INVARIANTS
    OnlyDroppedStartsLeak
    OnlyDroppedStopsStrand
    ActiveIsWhole
    BusKnowsState
PROPERTIES
    ReconcileLeavesNoneOut
    CallsReturn
CHECK_DEADLOCK FALSE
