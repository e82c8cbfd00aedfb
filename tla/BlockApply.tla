----------------------------- MODULE BlockApply -----------------------------
(***************************************************************************)
(* Applying one block after another to the database, one sled write at a   *)
(* time: take_snapshot and save_snapshot first, then the writes of each    *)
(* transaction, then either the state root of an epoch block or, when a    *)
(* transaction fails, rollback_to_snapshot.  The process may stop between  *)
(* any two writes, the two of save_snapshot included: the trees keep what  *)
(* was written, everything in memory is gone, and start-up has no          *)
(* operation that reads a snapshot back.                                   *)
(*                                                                         *)
(* The loop that calls these operations is not in the repository; the      *)
(* order is the one the comments of state_trie.rs give.                    *)
(***************************************************************************)
EXTENDS StateTrie

CONSTANTS
    Start,              \* the accounts tree before the first block
    Blocks,             \* the blocks that may arrive: sequences of transactions
    Crashes,            \* the process may stop between two writes
    MaxHeight           \* bound on the number of blocks

ASSUME StartAssumption == IsAccountMap(Start)
ASSUME BlocksAssumption == Blocks \subseteq Seq(Transaction)
ASSUME SwitchAssumption ==
    Crashes \in BOOLEAN /\ MaxHeight \in Nat

VARIABLES
    accounts,       \* db.accounts
    state_root,     \* db.metadata "state_root"
    snapshots,      \* db.metadata "snapshot:<n>" and "snapshot_count", {} when absent
    height,         \* number of blocks begun, bounds the run
    phase,          \* what the process is doing: "idle", "snapshot", "apply", "undo"
    writes,         \* the writes of the current transaction or rollback left
    failing,        \* the current transaction returns an error after them
    block,          \* the transactions of the block not yet begun
    snapshot,       \* the StateSnapshot in memory
    before,         \* history: trees and block when the block was begun
    outcome         \* history: how the last block ended

memory == <<phase, writes, failing, block, snapshot>>
vars == <<accounts, state_root, snapshots, height, memory, before, outcome>>

\* The root of a tree is a collision-free hash: the tree itself.  A node that has
\* saved no root uses the root of the empty tree.
compute_state_root(accts) == accts
EmptyTree == compute_state_root(<<>>)

NoSnapshot == [block_height |-> 0, state_root |-> EmptyTree, modified |-> <<>>]

Init ==
    /\ accounts = Start
    /\ state_root = EmptyTree
    /\ snapshots = [stack |-> <<>>, count |-> {}]
    /\ height = 0
    /\ phase = "idle"
    /\ writes = <<>>
    /\ failing = FALSE
    /\ block = <<>>
    /\ snapshot = NoSnapshot
    /\ before = [accounts |-> Start, state_root |-> EmptyTree, block |-> <<>>]
    /\ outcome = "none"

-----------------------------------------------------------------------------
\* A write is [addr, acc].  acc is an Option<Account>, a set of at most one
\* account: the key is deleted when it is empty.
Put(a, acc) == [addr |-> a, acc |-> {acc}]
Delete(a) == [addr |-> a, acc |-> {}]

Written(accts, w) ==
    IF w.acc = {} THEN Restrict(accts, DOMAIN accts \ {w.addr})
    ELSE save_account(accts, w.addr, CHOOSE acc \in w.acc : TRUE)

\* Variant: the debit is saved with the nonce as it was.
own_write_OldNonce(accts, tx) ==
    LET sender == get_or_create_account(accts, tx.sender) IN
    [sender EXCEPT !.balance = @ - tx.amount - tx.fee]

\* The sender's account as the first write of a transaction saves it.
own_write(accts, tx) ==
    LET sender == get_or_create_account(accts, tx.sender) IN
    CASE tx.type = "Transfer" -> sender_after_transfer(sender, tx)
      [] tx.type = "StakeLock" -> sender_after_stake_lock(sender, tx)
      [] tx.type = "StakeUnlock" -> sender_after_stake_unlock(sender, tx)
      [] OTHER -> sender_after_fee_only(sender, tx)

\* Variant: the receiver is credited before the sender is debited.
tx_writes_CreditFirst(accts, tx) ==
    LET r == apply_transaction(accts, tx)
        receiver == credit_account(accts, tx.receiver, tx.amount).accts
    IN  (IF r.ok /\ tx.type = "Transfer" /\ tx.receiver # tx.sender
         THEN <<Put(tx.receiver, receiver[tx.receiver])>> ELSE <<>>)
        \o (IF r.ok THEN <<Put(tx.sender, r.accts[tx.sender])>> ELSE <<>>)
        \o (IF r.ok /\ tx.fee \div 10 > 0
            THEN <<Put(Treasury, r.accts[Treasury])>> ELSE <<>>)

\* The writes apply_transaction makes, in order, up to its return or error.
tx_writes(accts, tx) ==
    LET r == apply_transaction(accts, tx)
        refused == r.accts = accts
        debited == save_account(accts, tx.sender, own_write(accts, tx))
        credited == credit_account(debited, tx.receiver, tx.amount)
    IN  IF refused THEN <<>>
        ELSE <<Put(tx.sender, own_write(accts, tx))>>
             \o (IF tx.type = "Transfer" /\ credited.ok
                 THEN <<Put(tx.receiver, credited.accts[tx.receiver])>> ELSE <<>>)
             \o (IF r.ok /\ tx.fee \div 10 > 0
                 THEN <<Put(Treasury, r.accts[Treasury])>> ELSE <<>>)

-----------------------------------------------------------------------------
\* The addresses a caller passes to take_snapshot, "all accounts that will be
\* modified by a block": every sender and receiver, and the treasury, which
\* apply_fee_split credits.
affected(txs) ==
    [i \in DOMAIN txs |-> txs[i].sender] \o [i \in DOMAIN txs |-> txs[i].receiver]
      \o <<Treasury>>

\* Variant: an address without an account is not recorded.
take_snapshot_SkipsAbsent(accts, root, h, addrs) ==
    LET present == SelectSeq(addrs, LAMBDA a : a \in DOMAIN accts) IN
    [block_height |-> h, state_root |-> root,
     modified |-> [i \in DOMAIN present |-> Put(present[i], accts[present[i]])]]

take_snapshot(accts, root, h, addrs) ==
    [block_height |-> h, state_root |-> root,
     modified |-> [i \in DOMAIN addrs |->
                     IF addrs[i] \in DOMAIN accts THEN Put(addrs[i], accts[addrs[i]])
                     ELSE Delete(addrs[i])]]

get_snapshot_count(snaps) == IF snaps.count = {} THEN 0 ELSE CHOOSE n \in snaps.count : TRUE

\* save_snapshot, its first write: the snapshot goes under the count read.
BeginBlock(txs) ==
    LET snap == take_snapshot(accounts, state_root, height + 1, affected(txs))
        count == get_snapshot_count(snapshots)
    IN  /\ phase = "idle"
        /\ height < MaxHeight
        /\ height' = height + 1
        /\ snapshot' = snap
        /\ snapshots' = [snapshots EXCEPT !.stack = [n \in DOMAIN @ \cup {count} |->
                                                    IF n = count THEN snap ELSE @[n]]]
        /\ phase' = "snapshot"
        /\ block' = txs
        /\ before' = [accounts |-> accounts, state_root |-> state_root, block |-> txs]
        /\ UNCHANGED <<accounts, state_root, writes, failing, outcome>>

\* save_snapshot, its second write: the count goes back as it was read.
SaveCount ==
    /\ phase = "snapshot"
    /\ snapshots' = [snapshots EXCEPT !.count = {get_snapshot_count(snapshots)}]
    /\ phase' = "apply"
    /\ UNCHANGED <<accounts, state_root, height, writes, failing, block, snapshot, before, outcome>>

\* The next transaction of the block: its checks, which write nothing.
BeginTransaction ==
    /\ phase = "apply"
    /\ writes = <<>> /\ ~failing
    /\ block # <<>>
    /\ writes' = tx_writes(accounts, Head(block))
    /\ failing' = ~apply_transaction(accounts, Head(block)).ok
    /\ block' = Tail(block)
    /\ UNCHANGED <<accounts, state_root, snapshots, height, phase, snapshot, before, outcome>>

Write ==
    /\ writes # <<>>
    /\ accounts' = Written(accounts, Head(writes))
    /\ writes' = Tail(writes)
    /\ UNCHANGED <<state_root, snapshots, height, phase, failing, block, snapshot, before, outcome>>

\* The accounts after all the writes of rollback_to_snapshot.
rolled_back(accts, modified) == FoldLeft(Written, accts, modified)

\* rollback_to_snapshot begins: one write per recorded account, in order.
BeginRollback ==
    /\ phase = "apply"
    /\ writes = <<>> /\ failing
    /\ phase' = "undo"
    /\ writes' = snapshot.modified
    /\ UNCHANGED <<accounts, state_root, snapshots, height, failing, block, snapshot, before, outcome>>

\* Everything in memory is given up, at the end of a block or in a crash.
Forget ==
    /\ phase' = "idle"
    /\ writes' = <<>>
    /\ failing' = FALSE
    /\ block' = <<>>
    /\ snapshot' = NoSnapshot

\* The last write of a rollback: save_state_root of the snapshot's root.
FinishRollback ==
    /\ phase = "undo"
    /\ writes = <<>>
    /\ state_root' = snapshot.state_root
    /\ outcome' = "rolled back"
    /\ Forget
    /\ UNCHANGED <<accounts, snapshots, height, before>>

\* A block whose transactions all succeeded; an epoch block computes and
\* saves the state root.
FinishBlock(isEpoch) ==
    /\ phase = "apply"
    /\ writes = <<>> /\ ~failing
    /\ block = <<>>
    /\ state_root' = IF isEpoch THEN compute_state_root(accounts) ELSE state_root
    /\ outcome' = "applied"
    /\ Forget
    /\ UNCHANGED <<accounts, snapshots, height, before>>

Crash ==
    /\ Crashes
    /\ phase # "idle"
    /\ outcome' = "crashed"
    /\ Forget
    /\ UNCHANGED <<accounts, state_root, snapshots, height, before>>

Next ==
    \/ \E txs \in Blocks : BeginBlock(txs)
    \/ SaveCount
    \/ BeginTransaction
    \/ Write
    \/ BeginRollback
    \/ FinishRollback
    \/ \E isEpoch \in BOOLEAN : FinishBlock(isEpoch)
    \/ Crash

Spec == Init /\ [][Next]_vars

-----------------------------------------------------------------------------
(***************************************************************************)
(* Properties.                                                             *)
(***************************************************************************)

\* The trees stay well typed between any two writes, those of a rollback and
\* those before a crash included.
TypeOK ==
    /\ IsAccountMap(accounts)
    /\ phase \in {"idle", "snapshot", "apply", "undo"}
    /\ failing \in BOOLEAN
    /\ height \in 0..MaxHeight
    /\ \A i \in DOMAIN writes :
         writes[i].addr \in Address /\ writes[i].acc \subseteq Account

\* A block that failed leaves no trace: rollback_to_snapshot restores every
\* account, those the block created included, and the state root.
RollbackRestores ==
    outcome = "rolled back" /\ phase = "idle" =>
        accounts = before.accounts /\ state_root = before.state_root

\* The coins a transaction credits, to its receiver and the treasury, and those
\* of a block whose transactions all succeed.
Moved(tx) == (IF tx.type = "Transfer" THEN tx.amount ELSE 0) + tx.fee \div 10
MovedBy(txs) == SumFunction([i \in DOMAIN txs |-> Moved(txs[i])])

\* What a process that stops leaves in the trees.  While a block is applied
\* they never hold more coins than before it: each debit is saved before its
\* credit.  A rollback puts the accounts back in the order of the snapshot, a
\* sender before its receiver, and between the two the trees do hold more
\* coins than before the block: at most the coins its transactions credit.
NeverAhead ==
    /\ TypeOK
    /\ phase \in {"snapshot", "apply"} =>
         TotalBalance(accounts) <= TotalBalance(before.accounts)
    /\ phase = "undo" =>
         TotalBalance(accounts) <= TotalBalance(before.accounts) + MovedBy(before.block)

\* A debit and the nonce it uses up are one write, so a process that stops
\* anywhere in a block and is given the block again cannot charge a sender
\* twice for one signature.
DebitsUseNonce ==
    [][phase = "apply" =>
         \A a \in DOMAIN accounts :
            accounts'[a].balance < accounts[a].balance =>
                accounts'[a].nonce = accounts[a].nonce + 1]_vars

\* Nothing undoes half a block at start-up, but everything needed is in the
\* database: wherever the process stopped, the middle of a rollback included,
\* rollback_to_snapshot of the stored snapshot gives back the accounts and the
\* root of before the block.
CrashRecoverable ==
    outcome = "crashed" /\ phase = "idle" =>
        LET stored == snapshots.stack[get_snapshot_count(snapshots)] IN
        /\ rolled_back(accounts, stored.modified) = before.accounts
        /\ stored.state_root = before.state_root

\* What a reader of the database sees: the tree as it was before the block
\* while one is being applied.
visible_accounts == IF phase = "idle" THEN accounts ELSE before.accounts
visible_root == IF phase = "idle" THEN state_root ELSE before.state_root

Atomic ==
    INSTANCE AtomicBlocks
    WITH accounts <- visible_accounts, state_root <- visible_root, result <- outcome

\* Block by block the write-level process is the atomic one of AtomicBlocks: a
\* block is applied as a whole or, when one of its transactions fails, has no
\* effect, and a stop in the middle disturbs no account the block does not name.
ImplementsAtomicBlocks == Atomic!Spec
=============================================================================
