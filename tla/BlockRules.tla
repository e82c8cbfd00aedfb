----------------------------- MODULE BlockRules -----------------------------
(***************************************************************************)
(* Nodes that produce micro and epoch blocks (chain/block_producer.rs),    *)
(* exchange them, and decide by consensus/rules.rs which to accept.  A     *)
(* block sent may arrive late, out of order, several times or never; the   *)
(* nodes' clocks differ by fixed offsets.                                  *)
(*                                                                         *)
(* The node loop and the network are not in the repository: a block that   *)
(* passes the rules is applied to the accounts and becomes the tip, and a  *)
(* block one of whose transactions fails is rolled back and refused.       *)
(*                                                                         *)
(* Hashes are collision-free.  A block's hash is the number of the block,  *)
(* in the order in which blocks were mined; the hash a transaction carries *)
(* is the transaction; a Merkle root is the sequence of its leaves.        *)
(* Mining finds a nonce, so every block meets the difficulty its header    *)
(* claims.                                                                 *)
(***************************************************************************)
EXTENDS StateTrie, Rewards

CONSTANTS
    Node,
    ClockOffset,                \* how far each node's clock is ahead
    Start,                      \* the accounts after genesis
    TxLists,                    \* the transaction lists micro blocks carry
    MAX_CLOCK_SKEW, MIN_MICRO_BLOCK_INTERVAL, MIN_EPOCH_BLOCK_INTERVAL,
    MAX_TRANSACTIONS_PER_MICRO_BLOCK, MAX_MICRO_BLOCKS_PER_EPOCH,
    GenesisResent,              \* peers send the genesis block too
    MaxBlocks, MaxClock         \* bounds

ASSUME ClockAssumption == ClockOffset \in [Node -> Nat]
ASSUME RulesAssumption ==
    /\ IsAccountMap(Start)
    /\ MAX_CLOCK_SKEW \in Nat
    /\ MIN_MICRO_BLOCK_INTERVAL \in Nat \ {0}
    /\ MIN_EPOCH_BLOCK_INTERVAL \in Nat \ {0}
    /\ GenesisResent \in BOOLEAN
\* A producer fills blocks from the mempool, which holds no coinbase.
ASSUME TxListsAssumption == \A txs \in TxLists : txs \in Seq(Transaction)

VARIABLES
    clock,      \* real time
    blocks,     \* all blocks mined: block i has hash i
    sent,       \* what was broadcast: [block, transactions]
    tip,        \* each node's ChainTip
    accounts,   \* each node's accounts tree
    chain       \* each node's blocks_by_height: height to hash

vars == <<clock, blocks, sent, tip, accounts, chain>>

now(n) == clock + ClockOffset[n]

-----------------------------------------------------------------------------
\* Leaves of Merkle trees: transactions, coinbases and block hashes.
TxLeaf(tx) == [leaf |-> "tx", of |-> tx]
CoinbaseLeaf(hash, epoch) == [leaf |-> "coinbase", of |-> <<hash, epoch>>]
BlockLeaf(hash) == [leaf |-> "block", of |-> hash]

\* The field hash a transaction carries.  The rules read it and never compute it
\* again; every transaction here carries the hash of its own contents, as
\* TransactionBuilder fills it in, and a coinbase the one build_coinbase derives
\* from the block hash and the epoch.
tx_hash(tx) ==
    IF tx.type = "Coinbase" THEN CoinbaseLeaf(tx.block_hash, tx.nonce) ELSE TxLeaf(tx)
tx_hashes(txs) == [i \in DOMAIN txs |-> tx_hash(txs[i])]

\* compute_merkle_root: a root stands for the list of its leaves.
root_of(leaves) == leaves

build_coinbase(epoch, hash) ==
    [type |-> "Coinbase", amount |-> calculate_block_reward(epoch),
     nonce |-> epoch, block_hash |-> hash]

verify_coinbase(coinbase, epoch, hash) ==
    /\ coinbase.amount = calculate_block_reward(epoch)
    /\ coinbase.nonce = epoch
    /\ tx_hash(coinbase) = CoinbaseLeaf(hash, epoch)

GenesisBlock ==
    [hash |-> 1, index |-> 0, timestamp |-> 1, previous_hash |-> 0,
     merkle_root |-> root_of(<<>>), difficulty |-> 1,
     is_epoch_block |-> TRUE, epoch_index |-> 0,
     contents |-> <<>>, block_reward |-> GENESIS_BLOCK_REWARD]

GenesisTip == [hash |-> 0, height |-> 0, timestamp |-> 0, difficulty |-> 1,
               epoch_index |-> 0, total_work |-> 0]

advance(t, b) ==
    [hash |-> b.hash, height |-> b.index, timestamp |-> b.timestamp,
     difficulty |-> b.difficulty,
     epoch_index |-> IF b.is_epoch_block THEN b.epoch_index ELSE t.epoch_index,
     total_work |-> t.total_work + b.difficulty]

Init ==
    /\ clock = GenesisBlock.timestamp
    /\ blocks = <<GenesisBlock>>
    /\ sent = IF GenesisResent THEN {[block |-> GenesisBlock, transactions |-> <<>>]} ELSE {}
    /\ tip = [n \in Node |-> advance(GenesisTip, GenesisBlock)]
    /\ accounts = [n \in Node |-> Start]
    /\ chain = [n \in Node |-> [h \in {0} |-> GenesisBlock.hash]]

-----------------------------------------------------------------------------
\* The consensus rules, one operator per check.
check_height(b, t) == b.index = t.height + 1

\* Variant: the previous hash is not compared.
check_previous_hash_Ignored(b, t) == TRUE

check_previous_hash(b, t) == b.previous_hash = t.hash

check_previous_hash_genesis(b) == b.previous_hash = 0

check_block_size(b, txs) ==
    IF b.is_epoch_block THEN Len(b.contents) <= MAX_MICRO_BLOCKS_PER_EPOCH
    ELSE Len(txs) <= MAX_TRANSACTIONS_PER_MICRO_BLOCK

\* Variant: no limit on the future.
check_timestamp_NoSkew(b, t, time) ==
    t.timestamp > 0 =>
        b.timestamp - t.timestamp >=
            (IF b.is_epoch_block THEN MIN_EPOCH_BLOCK_INTERVAL ELSE MIN_MICRO_BLOCK_INTERVAL)

check_timestamp(b, t, time) ==
    /\ b.timestamp <= time + MAX_CLOCK_SKEW
    /\ t.timestamp > 0 =>
         /\ b.timestamp > t.timestamp
         /\ b.timestamp - t.timestamp >=
              (IF b.is_epoch_block THEN MIN_EPOCH_BLOCK_INTERVAL ELSE MIN_MICRO_BLOCK_INTERVAL)

check_merkle_root(b, txs) == b.merkle_root = root_of(tx_hashes(txs))

check_epoch_index(b, t) == b.epoch_index = t.epoch_index + 1

check_block_reward(b) == b.block_reward = calculate_block_reward(b.epoch_index)

check_coinbase(b, txs) ==
    /\ txs # <<>>
    /\ txs[1].type = "Coinbase"
    /\ verify_coinbase(txs[1], b.epoch_index, b.hash)

check_no_coinbase(txs) == \A i \in DOMAIN txs : txs[i].type # "Coinbase"

\* Variant: the fee is forgotten.
required_balance_NoFee(tx) ==
    IF tx.type \in {"Transfer", "StakeLock"} THEN tx.amount ELSE tx.fee

required_balance(tx) ==
    IF tx.type \in {"Transfer", "StakeLock"} THEN saturating_add(tx.amount, tx.fee) ELSE tx.fee

\* Every transaction is compared with the accounts as they are before the
\* block; one whose sender has no account is not compared at all.
check_transactions(txs, accts) ==
    LET regular == {i \in DOMAIN txs : txs[i].type # "Coinbase"} IN
    /\ \A i, j \in regular : i # j => tx_hash(txs[i]) # tx_hash(txs[j])
    /\ \A i \in regular : txs[i].sender \in DOMAIN accts =>
         LET account == accts[txs[i].sender] IN
         /\ account.balance >= required_balance(txs[i])
         /\ account.nonce = txs[i].nonce

validate_block_rules(b, txs, t, accts, time) ==
    IF b.index = 0
    THEN check_previous_hash_genesis(b) /\ check_merkle_root(b, txs)
    ELSE /\ check_height(b, t)
         /\ check_previous_hash(b, t)
         /\ check_block_size(b, txs)
         /\ check_timestamp(b, t, time)
         /\ check_merkle_root(b, txs)
         /\ IF b.is_epoch_block
            THEN check_epoch_index(b, t) /\ check_block_reward(b) /\ check_coinbase(b, txs)
            ELSE check_no_coinbase(txs)
         /\ check_transactions(txs, accts)

\* The shorter check of chain/block_producer.rs.
validate_block(b, txs, t, time) ==
    /\ b.index = t.height + 1
    /\ b.previous_hash = t.hash
    /\ b.timestamp >= t.timestamp
    /\ b.timestamp <= time + MAX_CLOCK_SKEW
    /\ check_merkle_root(b, txs)

-----------------------------------------------------------------------------
Tick ==
    /\ clock < MaxClock
    /\ clock' = clock + 1
    /\ UNCHANGED <<blocks, sent, tip, accounts, chain>>

Broadcast(b, txs) ==
    /\ Len(blocks) < MaxBlocks
    /\ blocks' = Append(blocks, b)
    /\ sent' = sent \cup {[block |-> b, transactions |-> txs]}
    /\ UNCHANGED <<clock, tip, accounts, chain>>

produce_micro_block(t, time, hash, txs) ==
    [hash |-> hash, index |-> t.height + 1, timestamp |-> time, previous_hash |-> t.hash,
     merkle_root |-> root_of(tx_hashes(txs)), difficulty |-> t.difficulty,
     is_epoch_block |-> FALSE, epoch_index |-> t.epoch_index,
     contents |-> tx_hashes(txs), block_reward |-> 0]

ProduceMicroBlock(n, txs) ==
    Broadcast(produce_micro_block(tip[n], now(n), Len(blocks) + 1, txs), txs)

\* The leaves of the micro blocks on a node's chain since its last epoch block.
micro_block_hashes(n) ==
    LET since == {h \in 1..tip[n].height :
                    \A k \in h..tip[n].height : ~blocks[chain[n][k]].is_epoch_block}
    IN  [i \in 1..Cardinality(since) |->
            BlockLeaf(chain[n][tip[n].height - Cardinality(since) + i])]

produce_epoch_block(t, time, hash, leaves) ==
    [hash |-> hash, index |-> t.height + 1, timestamp |-> time, previous_hash |-> t.hash,
     merkle_root |-> root_of(leaves), difficulty |-> t.difficulty,
     is_epoch_block |-> TRUE, epoch_index |-> t.epoch_index + 1,
     contents |-> leaves, block_reward |-> calculate_block_reward(t.epoch_index + 1)]

\* The coinbase is built once the block hash is known, and sent along.
ProduceEpochBlock(n) ==
    LET b == produce_epoch_block(tip[n], now(n), Len(blocks) + 1, micro_block_hashes(n)) IN
    Broadcast(b, <<build_coinbase(b.epoch_index, b.hash)>>)

accepts(n, m) == validate_block_rules(m.block, m.transactions, tip[n], accounts[n], now(n))

\* A node receives a block, its own included, and takes it as its new tip.
ReceiveBlock(n, m) ==
    LET applied == ApplyAll(accounts[n], m.transactions) IN
    /\ accepts(n, m)
    /\ applied.ok
    /\ accounts' = [accounts EXCEPT ![n] = applied.accts]
    /\ tip' = [tip EXCEPT ![n] = advance(@, m.block)]
    /\ chain' = [chain EXCEPT ![n] =
                   [h \in DOMAIN @ \cup {m.block.index} |->
                       IF h = m.block.index THEN m.block.hash ELSE @[h]]]
    /\ UNCHANGED <<clock, blocks, sent>>

Next ==
    \/ Tick
    \/ \E n \in Node, txs \in TxLists : ProduceMicroBlock(n, txs)
    \/ \E n \in Node : ProduceEpochBlock(n)
    \/ \E n \in Node : \E m \in sent : ReceiveBlock(n, m)

Spec == Init /\ [][Next]_vars

-----------------------------------------------------------------------------
(***************************************************************************)
(* Properties.                                                             *)
(***************************************************************************)

\* The order in which blocks arrive does not matter: two nodes whose tips have
\* the same hash have the same tip, the same chain and the same accounts.
SameTipSameState ==
    \A m, n \in Node :
        tip[m].hash = tip[n].hash =>
            tip[m] = tip[n] /\ chain[m] = chain[n] /\ accounts[m] = accounts[n]

\* Replay protection across blocks: a transaction is in a node's chain once at
\* most, although producers may put one they have seen into a new block.
NoReplay ==
    \A n \in Node : \A g, h \in DOMAIN chain[n] :
        LET b == blocks[chain[n][g]].contents
            c == blocks[chain[n][h]].contents
        IN  \A i \in DOMAIN b, j \in DOMAIN c :
              b[i] = c[j] => g = h /\ i = j

\* The two validators do not drift apart: a block the consensus rules accept
\* on top of a tip is one the producer's own check accepts.
RulesImplyValidateBlock ==
    \A n \in Node, m \in sent :
        m.block.index > 0 /\ accepts(n, m) =>
            validate_block(m.block, m.transactions, tip[n], now(n))

\* check_transactions compares with the accounts before the block only, yet that
\* is enough for payments of different senders that have accounts: a block
\* of them that the rules accept is one block processing can apply.
PaymentBlocksApply ==
    \A n \in Node, m \in sent :
        LET txs == m.transactions IN
        /\ ~m.block.is_epoch_block
        /\ \A i \in DOMAIN txs :
             /\ txs[i].type \in {"Transfer", "Contract"}
             /\ txs[i].sender \in DOMAIN accounts[n]
             /\ \A j \in DOMAIN txs : txs[j].sender = txs[i].sender => j = i
        /\ accepts(n, m)
        => ApplyAll(accounts[n], txs).ok

-----------------------------------------------------------------------------
(***************************************************************************)
(* What the repository says and the code does not do (violation runs).     *)
(***************************************************************************)

\* consensus/rules.rs: "These rules are deterministic - every honest node reaches
\* the same accept/reject decision for every block independently."  Two nodes in
\* the same state, their clocks aside, decide alike on every block sent.
SameDecision ==
    \A m, n \in Node, s \in sent :
        tip[m] = tip[n] /\ accounts[m] = accounts[n] => accepts(m, s) = accepts(n, s)

\* chain/block_producer.rs: an epoch block commits to the "hashes of all micro
\* blocks since the last epoch".  A node whose tip an epoch block extends,
\* after the minimum interval and when its time has come, accepts it.
EpochBlocksAccepted ==
    \A n \in Node, s \in sent :
        /\ s.block.is_epoch_block
        /\ s.block.previous_hash = tip[n].hash
        /\ check_timestamp(s.block, tip[n], now(n))
        => accepts(n, s)
=============================================================================
