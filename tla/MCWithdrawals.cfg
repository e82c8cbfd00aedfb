\* The process may stop between any two writes of staking.rs.
CONSTANTS
    Address = {1, 2}
    MaxU64 = 100
    IgniterMin = 1
    KineticMin = 3
    NexusMin = 10
    Start <- MCStart
    Amounts = {1, 2}
    UNBONDING_PERIOD_EPOCHS = 2
    LastRequest = 1
    MaxEpoch = 5
    MaxCrashes = 2
SPECIFICATION Spec
INVARIANTS
    QueuedWasBonded
    CoinsWithinStops
PROPERTIES
    RemovedWasPaid
    EventuallyReleased
CHECK_DEADLOCK FALSE
