\* The clocks of two nodes differ by more than the allowed skew.
CONSTANTS
    Address = {1, 2, 3, 4}
    Treasury = 4
    MaxU64 = 1000
    IgniterMin = 10
    KineticMin = 20
    NexusMin = 40
    Node = {1, 2}
    ClockOffset <- Apart
    Start <- MCStart
    TxLists <- MCTxLists
    MAX_CLOCK_SKEW = 1
    MIN_MICRO_BLOCK_INTERVAL = 2
    MIN_EPOCH_BLOCK_INTERVAL = 3
    MAX_TRANSACTIONS_PER_MICRO_BLOCK = 2
    MAX_MICRO_BLOCKS_PER_EPOCH = 2
    GENESIS_BLOCK_REWARD = 4
    HALVING_INTERVAL = 2
    REWARD_BITS = 4
    GenesisResent = FALSE
    MaxBlocks = 4
    MaxClock = 5
SPECIFICATION Spec
INVARIANT SameDecision
CHECK_DEADLOCK FALSE
