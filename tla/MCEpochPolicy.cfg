\* Four epoch blocks after genesis, with a halving after two.
CONSTANTS
    GENESIS_BLOCK_REWARD = 11
    HALVING_INTERVAL = 2
    REWARD_BITS = 2
    EPOCH_BLOCK_TARGET_SECONDS = 6
    MICRO_BLOCK_TARGET_SECONDS = 3
    DIFFICULTY_WINDOW = 3
    MIN_DIFFICULTY = 1
    MAX_DIFFICULTY = 3
    BaseFee <- MCBaseFee
    MAX_MULTIPLIER = 100
    MaxU64 = 65535
    TARGET_UTILIZATION = 2
    Utilizations = {0, 1, 3, 4}
    MaxTransactions = 3
    Overpay = {0}
    Intervals = {2, 6, 14}
    MaxHeight = 4
SPECIFICATION PolicySpec
INVARIANTS
    SupplyIsSumOfRewards
    QuotedIsPaid
    MultiplierFallsBack
PROPERTY DifficultyFollowsWindow
CHECK_DEADLOCK FALSE
