\* The process may stop between any two writes and is started again.
CONSTANTS
    Address = {1, 2}
    MaxU64 = 100
    IgniterMin = 10
    KineticMin = 20
    NexusMin = 40
    Allocations <- MCAllocations
    GENESIS_MINER = 2
    GENESIS_BLOCK_REWARD = 1
    Miner = 1
    Bodies <- MCBodies
    MaxCrashes = 2
    MaxHash = 5
SPECIFICATION Spec
INVARIANTS
    IndexesResolve
    TipHeadsChain
    RootCommitsAccounts
    HistoryStartsWithChain
PROPERTIES
    TipAdvances
    EventuallyInitialized
CHECK_DEADLOCK FALSE
