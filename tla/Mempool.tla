------------------------------- MODULE Mempool ------------------------------
(***************************************************************************)
(* The transaction pool of mempool/pool.rs.  The variable pool is the      *)
(* struct Mempool: the transactions by hash and the two indexes that every *)
(* operation must keep in step with them.  The variable chain is what      *)
(* get_account returns for each sender; blocks that this node or others    *)
(* produce change it between the calls.                                    *)
(***************************************************************************)
EXTENDS Integers, FiniteSets, Functions

CONSTANTS
    Sender,             \* addresses that send transactions
    Tx,                 \* the transactions that may be submitted
    MaxU64,
    MAX_MEMPOOL_SIZE,
    Balances,           \* balances an account may have
    MaxNonce            \* bound of the on-chain nonces

\* Hashes are numbered in the order FeeKey compares them; well_formed says
\* that hash, signature, sender and receiver are not empty.
Transaction ==
    [hash : Nat, sender : Sender, nonce : Nat, fee : Nat, amount : Nat,
     type : {"Transfer", "StakeLock", "StakeUnlock", "Contract"},
     well_formed : BOOLEAN]

ASSUME TxAssumption == Tx \subseteq Transaction
ASSUME WidthAssumption == MaxU64 \in Nat
ASSUME SizeAssumption == MAX_MEMPOOL_SIZE \in Nat \ {0}
ASSUME ChainAssumption == Balances \subseteq Nat /\ MaxNonce \in Nat

VARIABLES pool, chain

vars == <<pool, chain>>

Init ==
    /\ pool = [transactions |-> [h \in {} |-> 0], fee_index |-> {}, pending_nonces |-> {}]
    /\ chain \in [Sender -> [balance : Balances, nonce : {0}]]

-----------------------------------------------------------------------------
FeeKey(tx) == <<tx.fee, tx.hash>>
SenderKey(tx) == <<tx.sender, tx.nonce>>

\* The derived order on FeeKey: by fee, then by hash.
KeyBelow(j, k) == j[1] < k[1] \/ (j[1] = k[1] /\ j[2] < k[2])

\* Variant: the nonce slot is left behind.
remove_batch_KeepsSlot(p, hashes) ==
    LET gone == {p.transactions[h] : h \in hashes \cap DOMAIN p.transactions} IN
    [p EXCEPT !.transactions = Restrict(@, DOMAIN @ \ hashes),
              !.fee_index = @ \ {FeeKey(tx) : tx \in gone}]

\* remove for one hash, remove_batch for several; unknown hashes are ignored.
remove_batch(p, hashes) ==
    LET gone == {p.transactions[h] : h \in hashes \cap DOMAIN p.transactions} IN
    [transactions |-> Restrict(p.transactions, DOMAIN p.transactions \ hashes),
     fee_index |-> p.fee_index \ {FeeKey(tx) : tx \in gone},
     pending_nonces |-> p.pending_nonces \ {SenderKey(tx) : tx \in gone}]

\* Variant: the stored copy carries the cost in place of the amount.
insert_StoresCost(p, tx) ==
    [transactions |-> [h \in DOMAIN p.transactions \cup {tx.hash} |->
                         IF h = tx.hash THEN [tx EXCEPT !.amount = @ + tx.fee]
                         ELSE p.transactions[h]],
     fee_index |-> p.fee_index \cup {FeeKey(tx)},
     pending_nonces |-> p.pending_nonces \cup {SenderKey(tx)}]

insert(p, tx) ==
    [transactions |-> [h \in DOMAIN p.transactions \cup {tx.hash} |->
                         IF h = tx.hash THEN tx ELSE p.transactions[h]],
     fee_index |-> p.fee_index \cup {FeeKey(tx)},
     pending_nonces |-> p.pending_nonces \cup {SenderKey(tx)}]

\* fee_index.keys().next(): the first key of the BTreeMap.
lowest_key(p) ==
    CHOOSE k \in p.fee_index : \A j \in p.fee_index : j = k \/ KeyBelow(k, j)

\* Variant: an equal fee evicts too.
evict_for_EqualFee(p, incoming_fee) ==
    IF p.fee_index = {} THEN [ok |-> TRUE, pool |-> p]
    ELSE IF incoming_fee < lowest_key(p)[1] THEN [ok |-> FALSE, pool |-> p]
    ELSE [ok |-> TRUE, pool |-> remove_batch(p, {lowest_key(p)[2]})]

evict_for(p, incoming_fee) ==
    IF p.fee_index = {} THEN [ok |-> TRUE, pool |-> p]
    ELSE IF incoming_fee <= lowest_key(p)[1] THEN [ok |-> FALSE, pool |-> p]
    ELSE [ok |-> TRUE, pool |-> remove_batch(p, {lowest_key(p)[2]})]

\* Variant: room is made only once the cap is exceeded.
make_room_OffByOne(p, fee) ==
    IF Cardinality(DOMAIN p.transactions) > MAX_MEMPOOL_SIZE
    THEN evict_for(p, fee)
    ELSE [ok |-> TRUE, pool |-> p]

\* The pool add_transaction inserts into, and whether there is room.
make_room(p, fee) ==
    IF Cardinality(DOMAIN p.transactions) >= MAX_MEMPOOL_SIZE
    THEN evict_for(p, fee)
    ELSE [ok |-> TRUE, pool |-> p]

required(tx) ==
    IF tx.type \in {"Transfer", "StakeLock"}
    THEN IF tx.amount + tx.fee <= MaxU64 THEN tx.amount + tx.fee ELSE MaxU64
    ELSE tx.fee

has_other_pending(p, sender) == \E s \in p.pending_nonces : s[1] = sender

\* Variant: the slot is not looked up.
add_transaction_AnySlot(tx) ==
    LET room == make_room(pool, tx.fee) IN
    /\ tx.well_formed
    /\ tx.hash \notin DOMAIN pool.transactions
    /\ chain[tx.sender].balance >= required(tx)
    /\ has_other_pending(pool, tx.sender) \/ tx.nonce = chain[tx.sender].nonce
    /\ room.ok
    /\ pool' = insert(room.pool, tx)
    /\ UNCHANGED chain

add_transaction(tx) ==
    LET room == make_room(pool, tx.fee) IN
    /\ tx.well_formed
    /\ tx.hash \notin DOMAIN pool.transactions
    /\ SenderKey(tx) \notin pool.pending_nonces
    /\ chain[tx.sender].balance >= required(tx)
    /\ has_other_pending(pool, tx.sender) \/ tx.nonce = chain[tx.sender].nonce
    /\ room.ok
    /\ pool' = insert(room.pool, tx)
    /\ UNCHANGED chain

RemoveBatch(hashes) ==
    /\ pool' = remove_batch(pool, hashes)
    /\ UNCHANGED chain

\* Variant: the index is read from its low end.
top_keys_Ascending(p, limit) ==
    {k \in p.fee_index : Cardinality({j \in p.fee_index : KeyBelow(j, k)}) < limit}

\* The keys top_by_fee visits: the limit largest of the index.
top_keys(p, limit) ==
    {k \in p.fee_index : Cardinality({j \in p.fee_index : KeyBelow(k, j)}) < limit}

top_by_fee(p, limit) ==
    {p.transactions[k[2]] : k \in {j \in top_keys(p, limit) : j[2] \in DOMAIN p.transactions}}

\* A block is applied: one of the sender's transactions uses its nonce, or
\* a transfer from elsewhere changes only its balance.
ChainAdvances(a) ==
    /\ chain[a].nonce < MaxNonce
    /\ \E b \in Balances :
         chain' = [chain EXCEPT ![a] = [balance |-> b, nonce |-> @.nonce + 1]]
    /\ UNCHANGED pool

ChainCredits(a) ==
    /\ \E b \in Balances :
         /\ b > chain[a].balance
         /\ chain' = [chain EXCEPT ![a].balance = b]
    /\ UNCHANGED pool

Next ==
    \/ \E tx \in Tx : add_transaction(tx)
    \/ \E hashes \in SUBSET {tx.hash : tx \in Tx} : RemoveBatch(hashes)
    \/ \E a \in Sender : ChainAdvances(a)
    \/ \E a \in Sender : ChainCredits(a)

Spec == Init /\ [][Next]_vars

-----------------------------------------------------------------------------
(***************************************************************************)
(* Properties.                                                             *)
(***************************************************************************)
Held == Range(pool.transactions)

\* The three collections of the struct, and the accounts they are checked against.
TypeOK ==
    /\ DOMAIN pool = {"transactions", "fee_index", "pending_nonces"}
    /\ pool.transactions \in [DOMAIN pool.transactions -> Tx]
    /\ pool.fee_index \subseteq Nat \X Nat
    /\ pool.pending_nonces \subseteq Sender \X Nat
    /\ chain \in [Sender -> [balance : Balances, nonce : 0..MaxNonce]]

\* The indexes describe the stored transactions exactly, through every order
\* of insertions, evictions and removals: a transaction is stored under its
\* own hash, fee_index holds its key and nothing else, and pending_nonces its
\* slot and nothing else.  A stale key would evict nothing or be served to a
\* miner; a stale slot would lock the sender out of that nonce.
IndexesAgree ==
    /\ \A h \in DOMAIN pool.transactions : pool.transactions[h].hash = h
    /\ pool.fee_index = {FeeKey(tx) : tx \in Held}
    /\ pool.pending_nonces = {SenderKey(tx) : tx \in Held}

\* No two pooled transactions of a sender share a nonce: the pool's
\* double-spend check.
OneTxPerNonce ==
    \A h, g \in DOMAIN pool.transactions :
        SenderKey(pool.transactions[h]) = SenderKey(pool.transactions[g]) => h = g

\* The pool never exceeds its cap, although the size is read before an
\* eviction that may fail.
SizeBounded == Cardinality(DOMAIN pool.transactions) <= MAX_MEMPOOL_SIZE

\* What every operation of the pool keeps.
PoolSound == TypeOK /\ IndexesAgree /\ OneTxPerNonce /\ SizeBounded

\* A miner that asks for any number of transactions gets that many, or all
\* there are, and no transaction left in the pool pays more than one it got.
TopByFeeIsBest ==
    \A limit \in 0..(MAX_MEMPOOL_SIZE + 1) :
        LET top == top_by_fee(pool, limit) IN
        /\ Cardinality(top) = IF limit < Cardinality(Held) THEN limit ELSE Cardinality(Held)
        /\ \A tx \in top, other \in Held \ top : other.fee <= tx.fee

\* The pool with its indexes does what the plain set of FeePool promises:
\* admission without a second transaction for a slot, displacement only of a
\* cheapest transaction by a dearer one and only when full.
Abstract == INSTANCE FeePool WITH Capacity <- MAX_MEMPOOL_SIZE, held <- Held
ImplementsFeePool == Abstract!Spec
=============================================================================
