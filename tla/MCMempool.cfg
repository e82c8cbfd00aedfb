CONSTANTS
    Sender = {"alice", "bob"}
    Tx <- MCTx
    MaxU64 = 100
    MAX_MEMPOOL_SIZE = 3
    Balances = {2, 4}
    MaxNonce = 2
SPECIFICATION Spec
INVARIANTS
    PoolSound
    TopByFeeIsBest
PROPERTY ImplementsFeePool
