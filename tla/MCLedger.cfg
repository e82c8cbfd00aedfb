\* All operations; callers request at most one unstake per address and epoch.
CONSTANTS
    Address = {1, 2, 3}
    Treasury = 3
    Users = {1, 2}
    MaxU64 = 1000000
    IgniterMin = 10
    KineticMin = 20
    NexusMin = 40
    Genesis <- MCGenesis
    UNBONDING_PERIOD_EPOCHS = 2
    GENESIS_BLOCK_REWARD = 4
    HALVING_INTERVAL = 1
    REWARD_BITS = 4
    SpacedRequests = TRUE
    Amounts = {10}
    Fees = {10}
    SlashBps = {100, 1000}
    MaxNonce = 2
    MaxEpoch = 3
SPECIFICATION Spec
INVARIANTS
    IInv
    Conservation
    AllOrNothing
PROPERTIES
    UnbondingRespected
    SpendingUsesNonce
