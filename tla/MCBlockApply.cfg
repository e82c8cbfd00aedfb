\* Two blocks of at most two transactions; the process may stop between any
\* two writes, and goes on with any block.
CONSTANTS
    Address = {1, 2, 3}
    Treasury = 3
    MaxU64 = 1000
    IgniterMin = 10
    KineticMin = 20
    NexusMin = 40
    Start <- MCStart
    Blocks <- MCBlocks
    BlockSize = 2
    Crashes = TRUE
    MaxHeight = 2
SPECIFICATION Spec
INVARIANTS
    RollbackRestores
    NeverAhead
    CrashRecoverable
PROPERTIES
    ImplementsAtomicBlocks
    DebitsUseNonce
CHECK_DEADLOCK FALSE
