----------------------------- MODULE Withdrawals ----------------------------
(***************************************************************************)
(* The unstaking queue of consensus/staking.rs one sled write at a time,   *)
(* with the process stopping between any two writes.  The queue lives in   *)
(* the metadata tree and the stake in the accounts tree, so that no call   *)
(* of staking.rs is a single write.  Ledger takes the same calls as one    *)
(* step each and composes them with the rest of the ledger.                *)
(*                                                                         *)
(* Epoch blocks come from the node, which calls process_matured_unstakes   *)
(* "once per epoch block".  A node that stopped during an epoch block may  *)
(* process that block again or go on with the next one.                    *)
(***************************************************************************)
EXTENDS Accounts, Sequences

CONSTANTS
    Start,                      \* accounts tree at the beginning
    Amounts,                    \* amounts that may be asked for
    UNBONDING_PERIOD_EPOCHS,
    LastRequest,                \* bounds: epoch of the last request,
    MaxEpoch, MaxCrashes        \* of the last block, and stops

ASSUME QueueAssumption ==
    /\ IsAccountMap(Start)
    /\ Amounts \subseteq U64 /\ Amounts # {}
    /\ UNBONDING_PERIOD_EPOCHS \in Nat
    /\ LastRequest \in Nat /\ MaxEpoch \in Nat /\ MaxCrashes \in Nat
    \* there is an epoch block left for each stop after the last maturity
    /\ LastRequest + UNBONDING_PERIOD_EPOCHS + MaxCrashes <= MaxEpoch

VARIABLES
    accounts,   \* db.accounts
    pending,    \* db.metadata "pending_unstake:*", by key
    todo,       \* the writes the running call has still to make
    epoch,      \* of the last epoch block
    again,      \* the node stopped in that block and may process it again
    crashes,
    bonded,     \* history: the amounts taken out of stakes, by key
    paid        \* history: how often each key was credited

db == <<accounts, pending>>
history == <<bonded, paid>>
vars == <<db, todo, epoch, again, crashes, history>>

NoEntries == [k \in {} |-> 0]

Init ==
    /\ accounts = Start
    /\ pending = NoEntries
    /\ todo = <<>>
    /\ epoch = 0
    /\ again = FALSE
    /\ crashes = 0
    /\ bonded = NoEntries
    /\ paid = NoEntries

-----------------------------------------------------------------------------
\* The entries in the order of their keys: unlock epoch, address, request.
key(p) == [at |-> p.unlock_epoch, to |-> p.address, asked |-> p.request_epoch]

KeyBelow(j, k) ==
    \/ j.at < k.at
    \/ j.at = k.at /\ j.to < k.to
    \/ j.at = k.at /\ j.to = k.to /\ j.asked < k.asked

InKeyOrder(keys) ==
    [i \in 1..Cardinality(keys) |->
        CHOOSE k \in keys : Cardinality({j \in keys : KeyBelow(j, k)}) = i - 1]

get_pending_unstakes(a) == [k \in {k \in DOMAIN pending : k.to = a} |-> pending[k]]

\* A call is the sequence of its writes.
Unstake(p) == [op |-> "unstake", entry |-> p]
Enqueue(p) == [op |-> "enqueue", entry |-> p]
Credit(p) == [op |-> "credit", entry |-> p]
Dequeue(p) == [op |-> "remove", entry |-> p]

\* Variant: the entry is queued before the stake is taken.
request_writes_QueueFirst(p) == <<Enqueue(p), Unstake(p)>>

request_writes(p) == <<Unstake(p), Enqueue(p)>>

\* Variant: more than the stake may be asked for.
request_unstake_Unchecked(a, amount) ==
    LET p == [address |-> a, amount |-> amount, request_epoch |-> epoch,
              unlock_epoch |-> epoch + UNBONDING_PERIOD_EPOCHS]
    IN
    /\ todo = <<>>
    /\ a \in DOMAIN accounts
    /\ epoch <= LastRequest
    /\ key(p) \notin DOMAIN bonded
    /\ todo' = request_writes(p)
    /\ UNCHANGED <<db, epoch, again, crashes, history>>

\* A request is made at most once per address and epoch; a second one would
\* have the key of the first.
request_unstake(a, amount) ==
    LET p == [address |-> a, amount |-> amount, request_epoch |-> epoch,
              unlock_epoch |-> epoch + UNBONDING_PERIOD_EPOCHS]
    IN
    /\ todo = <<>>
    /\ a \in DOMAIN accounts
    /\ accounts[a].staked >= amount
    /\ epoch <= LastRequest
    /\ key(p) \notin DOMAIN bonded
    /\ todo' = request_writes(p)
    /\ UNCHANGED <<db, epoch, again, crashes, history>>

matured(e) == {k \in DOMAIN pending : pending[k].unlock_epoch <= e}

\* Variants: each entry is removed before it is credited; the last key is
\* not removed; every key is removed; what an earlier block left is passed over.
process_writes_RemoveFirst(e) ==
    LET order == InKeyOrder(matured(e)) IN
    [i \in DOMAIN order |-> Dequeue(pending[order[i]])]
      \o [i \in DOMAIN order |-> Credit(pending[order[i]])]
process_writes_SkipsLast(e) ==
    LET order == InKeyOrder(matured(e)) IN
    [i \in DOMAIN order |-> Credit(pending[order[i]])]
      \o [i \in 1..(Len(order) - 1) |-> Dequeue(pending[order[i]])]
process_writes_RemovesAll(e) ==
    LET order == InKeyOrder(matured(e))
        all == InKeyOrder(DOMAIN pending)
    IN  [i \in DOMAIN order |-> Credit(pending[order[i]])]
          \o [i \in DOMAIN all |-> Dequeue(pending[all[i]])]
process_writes_OnlyDue(e) ==
    LET order == InKeyOrder({k \in DOMAIN pending : pending[k].unlock_epoch = e}) IN
    [i \in DOMAIN order |-> Credit(pending[order[i]])]
      \o [i \in DOMAIN order |-> Dequeue(pending[order[i]])]

\* process_matured_unstakes: all credits during the scan, then all removals.
process_writes(e) ==
    LET order == InKeyOrder(matured(e)) IN
    [i \in DOMAIN order |-> Credit(pending[order[i]])]
      \o [i \in DOMAIN order |-> Dequeue(pending[order[i]])]

process_matured_unstakes(e) ==
    /\ todo = <<>>
    /\ e <= MaxEpoch
    /\ epoch' = e
    /\ again' = FALSE
    /\ todo' = process_writes(e)
    /\ UNCHANGED <<db, crashes, history>>

EpochBlock == process_matured_unstakes(epoch + 1)
EpochBlockAgain == again /\ process_matured_unstakes(epoch)

-----------------------------------------------------------------------------
Put(tree, k, value) ==
    [j \in DOMAIN tree \cup {k} |-> IF j = k THEN value ELSE tree[j]]

Unstaked(acc, amount) ==
    update_validator_tier([acc EXCEPT !.staked = @ - amount])

\* The next write of the running call.  A credit that overflows is an error:
\* the call returns and removes nothing.
Write ==
    /\ todo # <<>>
    /\ LET w == Head(todo)
           p == w.entry
           credit == credit_account(accounts, p.address, p.amount)
           times == IF key(p) \in DOMAIN paid THEN paid[key(p)] ELSE 0
       IN
       \/ /\ w.op = "unstake"
          /\ accounts' = save_account(accounts, p.address,
                                      Unstaked(accounts[p.address], p.amount))
          /\ bonded' = Put(bonded, key(p), p.amount)
          /\ todo' = Tail(todo)
          /\ UNCHANGED <<pending, paid>>
       \/ /\ w.op = "enqueue"
          /\ pending' = Put(pending, key(p), p)
          /\ todo' = Tail(todo)
          /\ UNCHANGED <<accounts, history>>
       \/ /\ w.op = "credit"
          /\ accounts' = credit.accts
          /\ paid' = IF credit.ok THEN Put(paid, key(p), times + 1) ELSE paid
          /\ todo' = IF credit.ok THEN Tail(todo) ELSE <<>>
          /\ UNCHANGED <<pending, bonded>>
       \/ /\ w.op = "remove"
          /\ pending' = [k \in DOMAIN pending \ {key(p)} |-> pending[k]]
          /\ todo' = Tail(todo)
          /\ UNCHANGED <<accounts, history>>
    /\ UNCHANGED <<epoch, again, crashes>>

\* The process stops in a call and starts again from what the trees hold.
Crash ==
    /\ todo # <<>>
    /\ crashes < MaxCrashes
    /\ crashes' = crashes + 1
    /\ todo' = <<>>
    /\ again' = (again \/ Head(todo).op \in {"credit", "remove"})
    /\ UNCHANGED <<db, epoch, history>>

Next ==
    \/ \E a \in Address, amount \in Amounts : request_unstake(a, amount)
    \/ EpochBlock
    \/ EpochBlockAgain
    \/ Write
    \/ Crash

\* A process that is up makes its next write, and epoch blocks keep coming.
Fairness == WF_vars(Write) /\ WF_vars(EpochBlock)

Spec == Init /\ [][Next]_vars /\ Fairness

-----------------------------------------------------------------------------
(***************************************************************************)
(* Properties.                                                             *)
(***************************************************************************)

\* Amounts stay in u64, the one unchecked subtraction included.
TypeOK ==
    /\ IsAccountMap(accounts)
    /\ \A k \in DOMAIN pending : key(pending[k]) = k /\ pending[k].amount \in Amounts
    /\ epoch \in 0..MaxEpoch
    /\ DOMAIN paid \subseteq DOMAIN bonded

TimesPaid(k) == IF k \in DOMAIN paid THEN paid[k] ELSE 0

\* A withdrawal that stands in the queue has left the stake, wherever the
\* process stops: request_unstake takes the stake before it queues the entry,
\* so that a stop in between can cost a validator the stake but never pays
\* out coins that are still staked.
QueuedWasBonded == TypeOK /\ DOMAIN pending \subseteq DOMAIN bonded

\* An entry that was queued leaves the queue only after it was credited:
\* process_matured_unstakes removes the keys last, so that no stop loses a
\* matured withdrawal.
RemovedWasPaid ==
    [][\A k \in DOMAIN pending \ DOMAIN pending' : TimesPaid(k) >= 1]_vars

Held(a) ==
    LET queued == get_pending_unstakes(a) IN
    accounts[a].balance + accounts[a].staked
      + SumFunction([k \in DOMAIN queued |-> queued[k].amount])

\* Between calls, what an address has in its balance, its stake and the queue
\* is what it started with, if the process never stopped; a stop takes away
\* at most the one request it interrupted.  A withdrawal is credited once, and
\* at most once more for every time the process stopped between its credit and
\* its removal.
CoinsWithinStops ==
    /\ todo = <<>> =>
         \A a \in DOMAIN Start :
            LET total == Start[a].balance + Start[a].staked IN
            /\ Held(a) >= total - crashes * Max(Amounts)
            /\ crashes = 0 => Held(a) = total
    /\ \A k \in DOMAIN paid : paid[k] <= 1 + crashes

\* Every queued withdrawal is paid out in the end, however often the process
\* is stopped.
EventuallyReleased ==
    \A a \in Address, asked \in 0..LastRequest :
        LET k == [at |-> asked + UNBONDING_PERIOD_EPOCHS, to |-> a, asked |-> asked] IN
        (k \in DOMAIN pending) ~> (k \notin DOMAIN pending /\ TimesPaid(k) >= 1)
=============================================================================
