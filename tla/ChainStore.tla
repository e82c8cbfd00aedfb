----------------------------- MODULE ChainStore -----------------------------
(***************************************************************************)
(* The life of a node's database: initialize_chain of consensus/genesis.rs *)
(* and the block and transaction stores of storage/block_store.rs and      *)
(* storage/tx_store.rs, one sled write at a time, with the process         *)
(* stopping between any two writes and starting again from what is in the  *)
(* trees.                                                                  *)
(*                                                                         *)
(* A block hash is a number: the hashes of two blocks, also of two genesis *)
(* blocks mined at different times, are different.  Zero is the sentinel   *)
(* previous hash of the genesis block.                                     *)
(***************************************************************************)
EXTENDS Accounts, SequencesExt

CONSTANTS
    Allocations,            \* the credits of apply_genesis_allocations, in order
    GENESIS_MINER,          \* an address, credited GENESIS_BLOCK_REWARD
    GENESIS_BLOCK_REWARD,
    Miner,                  \* the producer of the later blocks
    Bodies,                 \* what blocks may carry: sequences of payments
    MaxCrashes, MaxHash     \* bounds: crashes, and blocks mined

ASSUME AllocationsAssumption ==
    /\ Allocations \in Seq([to : Address, amount : U64])
    /\ GENESIS_MINER \in Address
    /\ GENESIS_BLOCK_REWARD \in U64
    /\ Bodies \subseteq Seq([sender : Address, fee : U64, hashed : BOOLEAN])
ASSUME StoreBoundsAssumption ==
    MaxCrashes \in Nat /\ MaxHash \in Nat /\ MaxCrashes < MaxHash

VARIABLES
    accounts,           \* db.accounts
    blocks_by_hash,     \* db.blocks_by_hash, hash to block
    blocks_by_height,   \* db.blocks_by_height, height to hash
    transactions,       \* db.transactions: the transactions and the sender index
    state_root,         \* db.metadata "state_root"
    chain_tip,          \* db.metadata "chain_tip", {} when absent
    todo,               \* the writes the running call has still to make
    mined,              \* number of blocks mined so far: the last hash
    crashes

trees == <<accounts, blocks_by_hash, blocks_by_height, transactions, state_root, chain_tip>>
vars == <<trees, todo, mined, crashes>>

EmptyTree == [k \in {} |-> 0]

Init ==
    /\ accounts = EmptyTree
    /\ blocks_by_hash = EmptyTree
    /\ blocks_by_height = EmptyTree
    /\ transactions = EmptyTree
    /\ state_root = EmptyTree
    /\ chain_tip = {}
    /\ todo = <<>>
    /\ mined = 0
    /\ crashes = 0

-----------------------------------------------------------------------------
\* A call is the sequence of its writes; each names the tree it goes to.
Credit(c) == [op |-> "credit", to |-> c.to, amount |-> c.amount]
ByHash(b) == [op |-> "by_hash", block |-> b]
ByHeight(b) == [op |-> "by_height", block |-> b]
Record(key, value) == [op |-> "transactions", key |-> key, value |-> value]
Root == [op |-> "state_root"]
Tip(b) == [op |-> "chain_tip", block |-> b]

\* Variant: the height index is written first.
save_block_HeightFirst(b) == <<ByHeight(b), ByHash(b)>>

save_block(b) == <<ByHash(b), ByHeight(b)>>

\* The keys of the transactions tree: a hash is no string that starts with
\* the prefix "sender:", and addresses have one length, so that no address
\* is a prefix of another.
hash_key(hash) == <<"hash", hash>>

\* Variant: the nonce is left out of the key.
sender_key_NoNonce(tx) == <<"sender", tx.sender, 0>>

sender_key(tx) == <<"sender", tx.sender, tx.nonce>>

EmptyHash == <<>>

\* Variant: the index is written first.
save_transaction_IndexFirst(tx) ==
    IF tx.hash = EmptyHash THEN <<>>
    ELSE <<Record(sender_key(tx), tx.hash), Record(hash_key(tx.hash), tx)>>

\* The writes of save_transaction; an error, before any write, when the hash
\* is empty.
save_transaction(tx) ==
    IF tx.hash = EmptyHash THEN <<>>
    ELSE <<Record(hash_key(tx.hash), tx), Record(sender_key(tx), tx.hash)>>

\* save_block_transactions stops at the first error and keeps what it wrote.
AllHashed(txs) == \A i \in DOMAIN txs : txs[i].hash # EmptyHash
savable(txs) == CHOOSE k \in 0..Len(txs) :
    /\ AllHashed(SubSeq(txs, 1, k))
    /\ k < Len(txs) => txs[k + 1].hash = EmptyHash
save_block_transactions(txs) ==
    FlattenSeq([i \in 1..savable(txs) |-> save_transaction(txs[i])])

apply_genesis_allocations == [i \in DOMAIN Allocations |-> Credit(Allocations[i])]

\* Variant: the block keeps the empty hash of its construction.
produce_genesis_block_Unhashed(hash) ==
    [index |-> 0, hash |-> 0, previous_hash |-> 0, is_epoch_block |-> TRUE,
     producer |-> GENESIS_MINER, body |-> <<>>]

produce_genesis_block(hash) ==
    [index |-> 0, hash |-> hash, previous_hash |-> 0, is_epoch_block |-> TRUE,
     producer |-> GENESIS_MINER, body |-> <<>>]

\* Variants: the tip is saved before the block; the root before the rewards.
initialize_writes_TipFirst(b) ==
    apply_genesis_allocations
      \o <<Credit([to |-> GENESIS_MINER, amount |-> GENESIS_BLOCK_REWARD]), Tip(b)>>
      \o save_block(b) \o <<Root>>
initialize_writes_RootFirst(b) ==
    apply_genesis_allocations \o <<Root>>
      \o <<Credit([to |-> GENESIS_MINER, amount |-> GENESIS_BLOCK_REWARD])>>
      \o save_block(b) \o <<Tip(b)>>

initialize_writes(b) ==
    apply_genesis_allocations
      \o <<Credit([to |-> GENESIS_MINER, amount |-> GENESIS_BLOCK_REWARD])>>
      \o save_block(b)
      \o <<Root, Tip(b)>>

\* Variants: an existing tip is not looked for; existing accounts are taken
\* for an existing chain.
initialize_chain_NoCheck ==
    /\ todo = <<>>
    /\ mined < MaxHash
    /\ mined' = mined + 1
    /\ todo' = initialize_writes(produce_genesis_block(mined'))
    /\ UNCHANGED <<trees, crashes>>
initialize_chain_AccountsCheck ==
    /\ todo = <<>>
    /\ accounts = EmptyTree
    /\ mined < MaxHash
    /\ mined' = mined + 1
    /\ todo' = initialize_writes(produce_genesis_block(mined'))
    /\ UNCHANGED <<trees, crashes>>

\* A node with no chain tip initializes the chain; with one the call is an
\* error and the node resumes from the tip.
initialize_chain ==
    /\ todo = <<>>
    /\ chain_tip = {}
    /\ mined < MaxHash
    /\ mined' = mined + 1
    /\ todo' = initialize_writes(produce_genesis_block(mined'))
    /\ UNCHANGED <<trees, crashes>>

(***************************************************************************)
(* Reading the blocks.                                                     *)
(***************************************************************************)

\* get_block_by_height: a set of at most one block.
get_block_by_height(h) ==
    {blocks_by_hash[x] : x \in {blocks_by_height[k] : k \in DOMAIN blocks_by_height \cap {h}}
                               \cap DOMAIN blocks_by_hash}

verify_genesis_integrity ==
    \E b \in get_block_by_height(0) :
        /\ b.index = 0 /\ b.is_epoch_block
        /\ b.previous_hash = 0
        /\ b.producer = GENESIS_MINER

\* The transactions of the blocks up to the tip.
OnChain ==
    UNION {UNION {Range(b.body) : b \in get_block_by_height(h)} :
              h \in UNION {0..tip.index : tip \in chain_tip}}

-----------------------------------------------------------------------------
\* The transactions of a block: each takes the next nonce of its sender, and
\* two transactions that differ have different hashes.
Transactions(body) ==
    [i \in DOMAIN body |->
        LET sender == body[i].sender
            nonce == Cardinality({tx \in OnChain : tx.sender = sender})
                       + Cardinality({j \in 1..(i - 1) : body[j].sender = sender})
        IN  [sender |-> sender, nonce |-> nonce, fee |-> body[i].fee,
             hash |-> IF body[i].hashed THEN <<sender, nonce, body[i].fee>>
                      ELSE EmptyHash]]

\* A micro block on top of the tip is mined and accepted: it is saved, its
\* transactions are saved, and then, unless that failed, it is made the tip
\* (of the block, ChainTip::advance keeps the hash and the height).
AcceptBlock ==
    \E tip \in chain_tip, body \in Bodies :
        LET txs == Transactions(body)
            b == [index |-> tip.index + 1, hash |-> mined + 1, previous_hash |-> tip.hash,
                  is_epoch_block |-> FALSE, producer |-> Miner, body |-> txs]
        IN
        /\ todo = <<>>
        /\ mined < MaxHash
        /\ mined' = mined + 1
        /\ todo' = save_block(b) \o save_block_transactions(txs)
                     \o (IF AllHashed(txs) THEN <<Tip(b)>> ELSE <<>>)
        /\ UNCHANGED <<trees, crashes>>

Put(tree, key, value) ==
    [k \in DOMAIN tree \cup {key} |-> IF k = key THEN value ELSE tree[k]]

\* The next write of the running call.  A credit that overflows is an error
\* and the call returns.
Write ==
    /\ todo # <<>>
    /\ LET w == Head(todo)
           credit == credit_account(accounts, w.to, w.amount)
       IN
       \/ /\ w.op = "credit"
          /\ accounts' = credit.accts
          /\ todo' = IF credit.ok THEN Tail(todo) ELSE <<>>
          /\ UNCHANGED <<blocks_by_hash, blocks_by_height, transactions, state_root, chain_tip>>
       \/ /\ w.op = "by_hash" /\ todo' = Tail(todo)
          /\ blocks_by_hash' = Put(blocks_by_hash, w.block.hash, w.block)
          /\ UNCHANGED <<accounts, blocks_by_height, transactions, state_root, chain_tip>>
       \/ /\ w.op = "by_height" /\ todo' = Tail(todo)
          /\ blocks_by_height' = Put(blocks_by_height, w.block.index, w.block.hash)
          /\ UNCHANGED <<accounts, blocks_by_hash, transactions, state_root, chain_tip>>
       \/ /\ w.op = "transactions" /\ todo' = Tail(todo)
          /\ transactions' = Put(transactions, w.key, w.value)
          /\ UNCHANGED <<accounts, blocks_by_hash, blocks_by_height, state_root, chain_tip>>
       \/ /\ w.op = "state_root" /\ todo' = Tail(todo)
          /\ state_root' = accounts
          /\ UNCHANGED <<accounts, blocks_by_hash, blocks_by_height, transactions, chain_tip>>
       \/ /\ w.op = "chain_tip" /\ todo' = Tail(todo)
          /\ chain_tip' = {w.block}
          /\ UNCHANGED <<accounts, blocks_by_hash, blocks_by_height, transactions, state_root>>
    /\ UNCHANGED <<mined, crashes>>

\* The process stops; the trees keep the writes made so far.
Crash ==
    /\ crashes < MaxCrashes
    /\ crashes' = crashes + 1
    /\ todo # <<>>
    /\ todo' = <<>>
    /\ UNCHANGED <<trees, mined>>

Next == initialize_chain \/ AcceptBlock \/ Write \/ Crash

\* A process that is up makes its next write, and a node that comes up
\* without a tip calls initialize_chain.  Blocks need not arrive.
Fairness == WF_vars(Write) /\ WF_vars(initialize_chain)

Spec == Init /\ [][Next]_vars /\ Fairness

-----------------------------------------------------------------------------
(***************************************************************************)
(* Reading the transactions.                                               *)
(***************************************************************************)

\* get_transaction: a set of at most one transaction.
get_transaction(hash) ==
    {transactions[k] : k \in DOMAIN transactions \cap {hash_key(hash)}}

\* The hashes of an address, in the order of the index keys.
get_transactions_by_sender(a) ==
    LET nonces == {k[3] : k \in {k \in DOMAIN transactions : k[1] = "sender" /\ k[2] = a}}
        nth(i) == CHOOSE n \in nonces : Cardinality({m \in nonces : m <= n}) = i
    IN  [i \in 1..Cardinality(nonces) |-> transactions[<<"sender", a, nth(i)>>]]

\* Variant: the first `limit` hashes are taken before they are reversed.
get_recent_transactions_by_sender_Oldest(a, limit) ==
    LET hashes == get_transactions_by_sender(a)
        taken == Reverse(SubSeq(hashes, 1, Min({limit, Len(hashes)})))
    IN  FlattenSeq([i \in DOMAIN taken |-> SetToSeq(get_transaction(taken[i]))])

\* The newest `limit` transactions, newest first; hashes without a stored
\* transaction are passed over.
get_recent_transactions_by_sender(a, limit) ==
    LET hashes == Reverse(get_transactions_by_sender(a))
        taken == SubSeq(hashes, 1, Min({limit, Len(hashes)}))
    IN  FlattenSeq([i \in DOMAIN taken |-> SetToSeq(get_transaction(taken[i]))])

transaction_count == Cardinality({k \in DOMAIN transactions : k[1] # "sender"})

(***************************************************************************)
(* Properties.                                                             *)
(***************************************************************************)

\* The trees hold what their readers deserialize, also after a crash.
TypeOK ==
    /\ IsAccountMap(accounts)
    /\ IsAccountMap(state_root)
    /\ DOMAIN blocks_by_hash \subseteq 1..MaxHash
    /\ \A h \in DOMAIN blocks_by_hash : blocks_by_hash[h].hash = h
    /\ Cardinality(chain_tip) <= 1
    /\ mined \in 0..MaxHash

\* The height index leads to a stored block of that height: save_block writes
\* the block before the index entry.
HeightIndexResolves ==
    \A h \in DOMAIN blocks_by_height :
        \E b \in get_block_by_height(h) : b.index = h /\ b.hash = blocks_by_height[h]

\* Whenever the process stops, the tip it will resume from is a stored block
\* and the blocks below it form one hash-linked chain down to a genesis block
\* that verify_genesis_integrity accepts, whatever half-saved blocks of
\* earlier attempts are around.
TipHeadsChain ==
    \A tip \in chain_tip :
        /\ verify_genesis_integrity
        /\ get_block_by_height(tip.index) = {tip}
        /\ \A h \in 1..tip.index :
             \E b \in get_block_by_height(h), p \in get_block_by_height(h - 1) :
                b.previous_hash = p.hash

\* The tip only moves up by one block at a time, and initialize_chain never
\* runs on top of an existing chain, however often the node is restarted.
TipAdvances ==
    [][\A tip \in chain_tip :
          /\ accounts' = accounts
          /\ \E new \in chain_tip' : new = tip \/ (new.index = tip.index + 1 /\ new.previous_hash = tip.hash)]_vars

\* A node that crashes finitely often gets its chain tip.
EventuallyInitialized == <>(chain_tip # {})

-----------------------------------------------------------------------------
\* An entry of the sender index leads to a stored transaction of that sender
\* and nonce: save_transaction writes the index entry second.
SenderIndexResolves ==
    \A k \in {k \in DOMAIN transactions : k[1] = "sender"} :
        \E tx \in get_transaction(transactions[k]) : sender_key(tx) = k

\* Whenever the process stops, the trees hold what their readers deserialize
\* and every entry of an index leads to what it names, whatever half-saved
\* blocks earlier attempts left.
IndexesResolve == TypeOK /\ HeightIndexResolves /\ SenderIndexResolves

\* The hashes of what an address has on the chain, by nonce.
ChainHistory(a) ==
    LET own == {tx \in OnChain : tx.sender = a}
    IN  [i \in 1..Cardinality(own) |-> (CHOOSE tx \in own : tx.nonce = i - 1).hash]

\* A transaction of a block that is, or is below, the tip is found under its
\* hash, whatever half-saved blocks were written since.
OnChainFound == \A tx \in OnChain : get_transaction(tx.hash) = {tx}

\* What is on the chain is found, and the history of an address starts with
\* exactly what it has on the chain: transactions of blocks that were given
\* up half-saved come after it and displace nothing, also when the chain
\* later uses their nonces.  A wallet that asks for its last few transactions
\* gets that many, when there are, the newest first and none newer left out.
HistoryStartsWithChain ==
    /\ OnChainFound
    /\ \A a \in Address : IsPrefix(ChainHistory(a), get_transactions_by_sender(a))
    /\ transaction_count >= Cardinality(OnChain)
    /\ \A a \in Address, limit \in 0..3 :
         LET recent == get_recent_transactions_by_sender(a, limit)
             all == get_transactions_by_sender(a)
         IN  /\ Len(recent) = Min({limit, Len(all)})
             /\ \A i \in DOMAIN recent : recent[i].hash = all[Len(all) + 1 - i]

GenesisSupply == SumFunction([i \in DOMAIN Allocations |-> Allocations[i].amount])
                   + GENESIS_BLOCK_REWARD

\* A node with a tip has committed to its accounts: the saved state root is the
\* root of a tree with every allocation and the genesis reward in it, exactly
\* once when it was never stopped.  initialize_chain looks at the tip, which
\* is saved last, so each stop before that makes the restarted call credit at
\* most all of them once more.
RootCommitsAccounts ==
    chain_tip # {} =>
        /\ state_root = accounts
        /\ TotalBalance(accounts) >= GenesisSupply
        /\ TotalBalance(accounts) <= (1 + crashes) * GenesisSupply
=============================================================================
