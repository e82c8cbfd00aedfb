# Kyvera core: TLA+ models, checks and proofs

This directory holds TLA+ specifications of the core of `kyvera-core`, the TLC
runs that check them on small instances, and TLAPS proofs of the central
invariants for every value of the constants. `PROJECT.json` lists the runs, the
source lines every definition stands for, the hazards, the findings and the
theorems.

    tlc -workers 2 -config MCLedger.cfg MCLedger      # one run
    tlapm LedgerProofs.tla                            # one set of proofs

## 1. The system

The library has no threads and no asynchronous code. A *node* (not in the
repository) calls it: it opens the sled database, initializes the chain, takes
blocks and transactions from the network, validates and applies them. Users run
`kyv-wallet`, each invocation a process of its own that works on a wallet file.
What is hard here is therefore

- the order in which legal calls follow one another over many blocks and epochs,
- aliasing (sender = receiver, miner = validator, anyone = treasury),
- stopping between two writes: every sled write is separate, and persisted,
- several nodes, each with its clock, seeing blocks in different orders,
- wallet invocations that stop, or overlap, around the one copy of the keys,
- a full pool, the top of `u64`, odd layers of a Merkle tree.

| part | source | state | operations | what makes it correct |
|---|---|---|---|---|
| accounts, tiers | `types/account.rs`, `storage/account_store.rs` | tree `accounts` | get, save, credit, lock/unlock stake, scan validators | `u64` range; tier = tier of the stake |
| state transition | `storage/state_trie.rs` | `accounts` | `apply_transaction` and its four handlers, fee split | coins conserved up to the burn; each charge uses a nonce; an error writes nothing |
| snapshots, state root | `storage/state_trie.rs` | metadata keys `state_root`, `snapshot:*`, `snapshot_count` | take, save, rollback, compute root | a block happens as a whole or not at all |
| unstaking | `consensus/staking.rs` | metadata `pending_unstake:*` | request, process matured | nothing lost, released neither early nor late |
| validators | `consensus/validators.rs` | - | weights, rewards, slashing | shares add up; leftover goes to the treasury |
| coinbase | `consensus/coinbase.rs` | - | build, apply, verify | reward follows the schedule |
| genesis | `consensus/genesis.rs` | all trees | `initialize_chain`, verify | one genesis, allocations paid once (again after a stop, section 5), resumable |
| block store | `storage/block_store.rs` | `blocks_by_hash`, `blocks_by_height`, `chain_tip` | save, look up, tip | the tip heads a complete chain |
| database | `storage/db.rs` | sled trees | open, read, write, delete, flush | writes persist in order |
| consensus rules | `consensus/rules.rs` | - (reads tip, accounts, clock) | `validate_block_rules` | nodes with one tip have one state |
| block production | `chain/block_producer.rs` | `ChainTip` | produce, validate, advance | produced blocks pass the rules |
| Merkle trees | `chain/merkle.rs` | - | root, proof, verify | proofs lead to the root; the root determines the list |
| mempool | `mempool/pool.rs` | three indexes | add, evict, remove, best by fee | indexes agree; best fees stay; one transaction per nonce |
| fees | `mempool/fees.rs` | - | minimum, split, multiplier | the parts add up; what is quoted is what is paid; fees fall back |
| mining, difficulty | `chain/mining.rs` | - | reward, mine, retarget | supply = sum of rewards; difficulty follows its window |
| transaction store | `storage/tx_store.rs` | tree `transactions`: primary and sender index | save, look up, recent, count | the index resolves; a history starts with the chain |
| wallet, keys | `wallet/`, `crypto/` | wallet file | generate, save, load, delete, build and sign | a file is whole or absent; a signature holds for one context |
| command line | `bin/wallet.rs` | - | create, restore, info, send, stake | never touches a saved wallet |

Interactions: `rules.rs` reads the tip and the accounts; `state_trie.rs`,
`staking.rs`, `validators.rs`, `coinbase.rs` and `genesis.rs` all write accounts
through `account_store.rs`; the pool reads accounts that blocks change behind
its back; `block_producer.rs` and `rules.rs` validate the same blocks.

The hazards are listed in `PROJECT.json` at the line where each bites, with the
properties that would catch it.

## 2. Modules

    MachineIntegers <- Accounts <- StateTrie
    StateTrie <- Ledger <- LedgerProofs
    StateTrie <- BlockRules <- BlockRulesProofs
    StateTrie <- AtomicBlocks <-(refined by)- BlockApply <- BlockApplyProofs
    Accounts <- ChainStore <- ChainStoreProofs
    Accounts <- Withdrawals <- WithdrawalsProofs
    StateTrie <- CoinTheorems <- LedgerProofs, BlockApplyProofs, ChainStoreProofs,
                                 WithdrawalsProofs, BlockRulesProofs
    FeePool <-(refined by)- Mempool <- MempoolProofs
    TransactionBuilder <- Wallet <- WalletProofs
    Rewards <- Ledger, BlockRules, EpochPolicy
    MachineIntegers <- EpochPolicy <- BlockRulesProofs
    Merkle <- BlockRulesProofs

Operators and actions have the names of the functions they model. A tree is a
function from keys to values. Account operators take the tree and return
`[ok, accts]`: whether the call succeeded, and the tree *as it is then*,
including what an erring call wrote before its error. Addresses are numbers, in
the order in which sled scans their strings. Definitions marked *variant*, each
just before the definition it varies, are plausible mistakes in that code;
substituted for it they make a property fail, which shows that the property
sees that part of the code. They are used nowhere else.

- **MachineIntegers** - `u64`, its saturating operators, and what wraps around;
  the largest value `MaxU64` is a constant.
- **Accounts** - `account_store.rs` and the tiers. Tier thresholds and the address
  set are constants.
- **StateTrie** - `apply_transaction`. The order of checks, re-reads and saves
  is the code's: `apply_transfer` saves the sender before it loads the receiver,
  which is what makes a self-transfer right.
- **Ledger** - one action per call of block processing: `ApplyTransaction`,
  `LockStake`, `UnlockStake`, `RequestUnstake`, `SlashValidator`, `EpochBlock`
  (rewards, then matured withdrawals). `epoch` and `fee_pool` are what the
  node supplies; `issued` and `fees_paid` are history. `calculate_validator_fee_share`
  wraps like the release build. `SpacedRequests` restricts callers to one
  unstake request per address and epoch.
- **AtomicBlocks** - the promise: a block is applied as a whole or leaves no
  trace, and a process that stops in the middle of one leaves every account the
  block does not name, and the root, as they were. **BlockApply** - the code: one
  sled write per step, the two of `save_snapshot` included, rollback, and a crash
  that loses all memory and keeps the trees. The mapping shows the pre-block
  state until the block has ended, one way or another. The affected addresses are the senders and receivers of the transactions and the
  treasury.
- **ChainStore** - `initialize_chain`, `save_block`, `save_block_transactions` and
  `save_chain_tip` write by write, crashes and restarts. A call is the sequence
  of its writes; a crash drops the rest. A stored tip is the block it was
  advanced with. Blocks on top of genesis are micro blocks of one producer,
  `Miner`, so that `verify_genesis_integrity` tells them from a genesis block by
  their height, their kind and, with another `Miner`, their producer.
  `transactions` is one tree with two kinds of keys, as in
  `tx_store.rs`; a block that was given up half-saved leaves its entries there.
  A node stores a block's transactions before it moves the tip.
- **Withdrawals** - `request_unstake` and `process_matured_unstakes` as the
  sequences of their writes, with crashes (Ledger takes each call as one step).
  An epoch block that was interrupted is processed again at the same epoch or
  the queue is processed at the next one. `bonded` and `paid` are history.
- **Rewards** - `calculate_block_reward`. The shift is by at most `REWARD_BITS`, the
  width of the code's `u64`. The cast of the number of halvings to `u32` before
  the shift is left out; it matters from 2^32 halvings on, 10^15 epoch blocks.
- **EpochPolicy** - what changes from epoch to epoch: `calculate_mined_supply`,
  `calculate_next_difficulty`, the three fee splits
  (`fees.rs`, `state_trie.rs`, `coinbase.rs`) side by side, the base-fee
  multiplier. Utilization and multiplier are `f64` in the code and exact here:
  utilization in units of which `TARGET_UTILIZATION` are one half, the multiplier
  over `ONE = (8 * TARGET_UTILIZATION)^MaxHeight`. A transaction must pay the
  minimum of its type (`fee_is_sufficient`); a sender may pay what
  `effective_minimum_fee` asks, or more.
- **TransactionBuilder** - keys, signatures, `bind_message_to_nonce`, the three
  `build_*` functions and `compute_transaction_hash`. Signatures and digests are
  terms: they verify for what they were made of and nothing else.
  `bind_message_to_nonce` hashes its parts one after the other without separators.
  They can be told apart all the same: the message is a JSON object, which ends
  at its closing brace, the two numbers have a fixed width, and the chain state
  is the rest; so the first three are one symbol each of the sequence that is
  hashed. The digits of the numbers in the string that `compute_transaction_hash`
  hashes do run together, in the code and here.
- **Wallet** - the commands and the wallet file. A process waits for its user at
  each prompt, writes the temporary file in two steps (emptied, filled) and
  renames it, and may stop anywhere. Files are numbers and names lead to them,
  so a process goes on writing to a file that another one has renamed.
  `overlap` is history: the paths on which two invocations ran at once.
- **BlockRules** - nodes with clock offsets produce micro and epoch blocks; what
  was sent stays in `sent` and may be received at any time, in any order, by
  any node, any number of times or never. Each `check_*` is an operator. A block's hash
  is its number, a root the list of its leaves (see Merkle for trees), so
  `check_block_hash` and `check_proof_of_work` hold by construction. `tx_hash` is the
  field `hash` of a transaction, which the rules read and never recompute: that it
  is the hash of the contents holds here because every transaction was filled in
  by `TransactionBuilder`, not because a rule checks it.
- **Mempool** - the pool's `transactions`, `fee_index` and `pending_nonces`, and
  the chain state that blocks change meanwhile. **FeePool** - a set of at most
  `Capacity` transactions, one per sender and nonce, in which only a better fee
  displaces and only a worst one is displaced.
- **Merkle** - hashes are terms; `generate_proof` climbs one layer per step.
  `layers` is the loop of `compute_merkle_root` as a recursive function of the
  iteration.

What is external: the node loop, the network, the clock, saturating arithmetic.
The loop's order (snapshot, transactions, state root of an epoch block, or
rollback) is the one the comments of `state_trie.rs` and `staking.rs` give.

## 3. Runs

Passing runs:

| run | distinct states | shows |
|---|---|---|
| `ledger` | 102,372 | `IInv` (types, tiers, the unbonding window), `Conservation`, all-or-nothing calls, withdrawals move only by maturing, spending uses nonces |
| `mempool` | 2,190 | `PoolSound` (indexes agree, one per nonce, the limit), `top_by_fee`, refinement of FeePool |
| `block_apply` | 50,778 | with crashes between any two writes: rollback is exact; blocks are atomic and a stop touches only the accounts the block names (refinement of AtomicBlocks); a half-applied block holds no more coins than before it, a half-finished rollback at most those the block credits on top; a debit and its nonce are one write; the stored snapshot undoes what a stop left |
| `chain_store` | 171,510 | with crashes anywhere: both indexes resolve, the tip heads a chain, the root commits to the accounts and the supply is bounded by the restarts, a sender's history starts with the chain, the tip only advances, and finitely many crashes do not prevent initialization |
| `block_rules` | 256,726 | two nodes, clocks two units apart: one tip means one state, no replay, what the rules accept the producer's check accepts, accepted payments apply |
| `merkle` | 68,972 | proofs lead to the root, roots of lists without repetition determine them |
| `withdrawals` | 18,334 | with crashes anywhere: nothing is paid that is still staked, nothing leaves the queue unpaid, at most one more payment per stop, at most one lost request per stop, everything is released in the end |
| `wallet` | 261,348 | a wallet file is whole or absent, a saved wallet stays loadable until deleted (on paths without overlapping invocations); signatures hold for one context, hashes identify, no amount leaves `u64` |
| `epoch_policy` | 701,466 | supply = sum of rewards over halvings; quoted = collected and paid at most half of it, products that wrap around included; paid = quoted up to dust until one wraps; the multiplier is above 1 only while epochs were more than half full on average; the difficulty answers to its window |

Conservation is stated as two bounds because fees are split with truncation:
what has left circulation is at least half of the fees (plus the validators'
share not yet settled) and at most that plus less than one unit per transaction
and per epoch block.

Runs whose property is a sentence of the repository that the code does not
satisfy (each is a finding in `PROJECT.json`):

| run | property | what happens |
|---|---|---|
| `ledger_respaced` | `NoCoinLost` | two unstake requests of one address in one epoch share a key; the first is lost |
| `block_rules_clock` | `SameDecision` | two nodes in one state whose clocks differ by more than the allowed skew decide differently on one block |
| `block_rules_epoch` | `EpochBlocksAccepted` | the rules refuse the epoch blocks the producer makes |

### Bounds

- *Ledger*: two users and the treasury, tier thresholds 10/20/40 in place of the
  real ones, one funded account that can pass through every tier, amounts and
  fees of 10 (the treasury gets 1, the validators 4, 5 are burned, and shares
  truncate), two nonces per account, three epochs with an unbonding period of
  two: a request, its wait and its release all happen. `MaxU64` is above the
  supply, as in the code (1.5e18 < 2^64).
- *Mempool*: three places, nine submissions of two senders: every refusal, equal
  fees, evictions of own and other transactions.
- *BlockApply*: three addresses, two successive blocks of at most two
  transactions; an account the block creates, failures at either transaction, a
  stop after any write, and a second block on top of what a stop left.
- *ChainStore*: two allocations, two crashes, each after any write, five blocks
  mined, with bodies of zero to two transactions of two senders: after two
  failed genesis attempts, or one and a block given up half-saved, there are
  still blocks on top that use the nonces of the ones given up.
- *BlockRules*: four blocks, five clock units, intervals of two and three, skew
  of one, offsets zero and two. `GenesisResent = FALSE`: see section 5.
- *Merkle*: lists of at most six leaves: odd layers at the first and the second
  level, repeated leaves.
- *Withdrawals*: requests in epochs 0 and 1, unbonding two, five epochs, two
  stops: both stops can hit one withdrawal, before its queue entry or between
  its credit and its removal, and there are epochs left to release everything.
- *Wallet*: two processes, one path, two passwords, two wallets, two signed
  transactions, two ticks of the clock: an invocation against the file another
  one left whole, in part or as a temporary file, and the two clock readings any
  time apart. Processes and passwords are symmetric. More paths
  would only be independent copies (`TempAssumption`).
- *EpochPolicy*: four epochs, three transactions in all, a halving every two
  blocks and none left after four, a window of three, intervals below, at and
  above the target, difficulties 1 to 3: both clamps, windows that are not yet
  full, and every mix of epochs that are empty, a quarter, three quarters and
  completely full. One base fee is small enough that none of its products wraps
  around at 65536 and its shares have remainders; the products of the other one,
  1700, all wrap around.

Deadlock checking is off where a run ends because its bounds are used up
(`CHECK_DEADLOCK FALSE` in the cfg).

### Fairness

ChainStore and Withdrawals state liveness. `WF(Write)` in both: a process that is
up makes its next write - there is one sequential thread and nothing to wait
for. `WF(initialize_chain)`: a node that starts without a tip calls it, which is
what the function's comment says it is for. `WF(EpochBlock)` in Withdrawals:
epoch blocks keep coming, and `process_matured_unstakes` is "Called once per epoch
block" (`staking.rs`). Other blocks and requests need not arrive, and crashes
are finite because `MaxCrashes` bounds them. BlockApply, Ledger, Mempool and
BlockRules are driven by calls the repository does not make, and the wallet by
its user, so no fairness is justified there.

## 4. Proofs

Every theorem holds for all values of the constants that meet the `ASSUME`s of
the modules (types of the constants, thresholds in ascending order, a positive
period; TLC evaluates them on every run). `PowerAssumption` of Rewards and
`OneAssumption` of EpochPolicy are facts of arithmetic about the powers of two and
of eight that the models use, which the provers do not know. A theorem's own
hypotheses are listed with it.

Sums. `SumFunction` of the community modules is a fold over a set, and the provers
cannot instantiate an induction theorem. **CoinTheorems** gets the facts about
sums from smallest counterexamples instead: were `SumSplit`, say, false for some
subset of the keys, it would be false for one of least cardinality, and taking
one key off that gives a smaller one. On these rest the facts about
coins: what saving an account does to the total (`TotalOverAddresses`,
`HoldingBound`), that a loop of credits adds its amounts (`CreditAllTotals`), that
grouping withdrawals by receiver changes no total (`GroupByReceiver`). `ApplyAll` of
StateTrie, a block's transactions one after the other, is a fold too:
`ApplyAllByPartial` gives the states in between.

**LedgerProofs**, the first half: `LedgerInvariant` and its parts, withdrawals
move only by maturing (`LedgerUnbondingRespected`, assuming `SpacedRequests`) and
spending uses nonces (`LedgerSpendingUsesNonce`). The inductive invariant is `IInv`,
which the run `ledger` checks as well: the types alone are inductive, but a slash
is within the stake only because the saturating product divided by 10000 is, and
the window needs that `epoch` moves together with the release. The argument goes
through `GoodMap(f)` (a well typed tree whose tiers match) and one lemma per
operator, which says that the operator maps good trees to good trees and whose
nonce and balance it moves (`Keeps`, `Charges`); `AccountsStep` puts them together,
one step per action.

The second half is about all coins together: `LedgerCoins`, `LedgerBurnAtLeastHalf`,
`LedgerAllOrNothing` and `LedgerConservation`. A credit that overflows in the middle
of a call would leave its first write behind and lose the coins. It cannot
overflow because all coins together fit in a `u64`, and they fit because none was
ever created, so the two are proved together. Two hypotheses say when:

- `SupplyFits`, of the constants: genesis and the whole reward schedule are at most
  `MaxU64`. In the code they are 1.5e18 and 1.8e19.
- `FeesFit`, of the states, only for the bound from above (`LedgerConservation`, which
  also needs `SpacedRequests`, see the run `ledger_respaced`): `40 * fee_pool` is at most
  `MaxU64`. `calculate_validator_fee_share` multiplies before it divides; from
  4.6e17 units of fees in one epoch on, nearly a third of the supply, the product
  wraps and part of the validators' share is lost. Coins are not created even
  then, which is why `LedgerBurnAtLeastHalf` and `LedgerAllOrNothing` do without it.

`CoinInv`, the invariant of the induction, adds to `BurnAtLeastHalf` that `issued` is
genesis plus the schedule up to `epoch` (so that the next reward still fits) and
that `fee_pool` is part of `fees_paid` (so that the burn makes room for the share).
`CoinStep` sorts the steps by what they do to the coins (a fee is charged, coins
move, a withdrawal is overwritten, an epoch is settled), `PaidBounds` and
`EpochBounds` are the arithmetic of truncated shares.

**MempoolProofs**: `MempoolPoolSound`, the refinement `MempoolImplementsFeePool` and
`MempoolTopByFee`. `IsPool` says that the fee index and the nonce
index are the images of the stored transactions and that no two share a slot;
agreement alone is not inductive, because removing one of two transactions in
one slot would free the slot of the other. `LowestKey` shows that the index has a
least key (by `NatMinimum` on fees, then on hashes), so that eviction removes a
transaction of lowest fee, as `FeePool!Displace` demands. For `top_by_fee`, the number
of keys above a key numbers the keys of the index without gaps (`RankNumbers`), so
that the keys with a number below the limit are that many, or all.

**BlockApplyProofs**: `RollbackRestores`, `NeverAhead`, `DebitsUseNonce`, `CrashRecoverable`
and the refinement of AtomicBlocks, all with crashes between any two writes. The
invariant `Inv` says what the writes still to come are: in a block, a debit that
uses up a nonce and then credits, all to accounts the snapshot recorded, with no
more coins now or after them than before the block; in a rollback, for every
account, that it is back or still to be written. For the rollback's part of `NeverAhead`, `Gained` adds up, over
all addresses, how far an account is above what it was before the block: a
transaction raises it by what it credits at most (`TransactionGains`), debits do
not make up for it, and a write of the rollback only lowers it (`GainedUndo`), in
whatever order the accounts come back. That the write lists of a transaction together do what
`apply_transaction` of StateTrie does in one step is proved first; the refinement
rests on it.

**ChainStoreProofs**: `IndexesResolve`, `TipHeadsChain`, `TipAdvances`, that the saved
root is that of the accounts (`ChainStoreRootOfAccounts`) and that what is on the
chain is found (`ChainStoreOnChainFound`), for any number of crashes. None is
inductive: they hold because of the order of the writes a running call has
still to make. `StoreInv` says of each write in `todo` what it relies on: an
earlier write in `todo`, or what the trees hold already (the height after the
block, the tip last, the root after the credits, the sender index after the
transaction). Two more invariants are built on it:

- `SupplyInv`, for `RootCommitsAccounts`: without a tip, every stopped call has paid
  out at most the whole supply and the running one exactly its first `d` credits
  (`GenesisPlace(d)` reads `d` off the writes left). A credit that overflows ends
  `initialize_chain` and would leave a prefix behind in every later attempt, so the
  theorem has the hypothesis `SupplyFits` of this module: `(1 + MaxCrashes)` times
  the genesis supply is at most `MaxU64`.
- `HistoryInv`, for `HistoryStartsWithChain`: what each sender has on the chain is
  numbered from zero without a gap, is in the sender index under its nonce, and
  no write to come replaces an entry of the chain; when the tip is saved, the
  entries of its block, which continue the numbers, are there. A half-saved block
  may have left entries at the same nonces, which the next block overwrites, and
  at later ones, which therefore come after the chain's in the order of the keys
  (`CountsNumber`: the number of keys up to a key is its place).

**WithdrawalsProofs**: `QueuedWasBonded` and `RemovedWasPaid`, for any number of
crashes. `QueueInv` is again about the writes to come: the second write of a
request relies on the stake having left, a removal on its credit. `CoinsInv` adds
what each address holds and may at most come to hold, and how often each
withdrawal can have been paid, which gives `CoinsWithinStops`. Its hypothesis
`CoinsFit` says that balance and stake of an address fit in a `u64` also when every
stop pays its stake once more: an overflowing credit ends
`process_matured_unstakes`, and the withdrawal then waits for ever.

**BlockRulesProofs**: `SameTipSameState` (without a second genesis block, see section
5) and `RulesImplyValidateBlock`, for any number of nodes, blocks
and clocks, whatever the blocks carry. `ChainInv` says that there is a function
`F` from block hashes to states such that every block sent leads from the state of
its parent to its own, and every node is in the state of its tip. `NoReplay` needs
`ReplayInv`: each transaction on a node's chain has its nonce used up in the
accounts of that node, and the nonces there never go back. A genesis block that
arrives again moves the tip to height 0 but leaves accounts and stored blocks as
they are, so `NoReplay` holds with `GenesisResent` too. `PaymentBlocksApply` has the
hypothesis that all coins of `Start` together are fewer than `MaxU64`. It is strict
because the rules compute what a sender needs with `saturating_add`: with exactly
`MaxU64` coins a balance could equal a sum that was cut off. The rules look at the
accounts before the block; for a block with one payment per sender that is
enough, because the other payments only add to what a sender has, and the sum
of all balances, which never grows (`Chains`), leaves room for every credit.

The second part of the module is about EpochPolicy, which it extends too (hence
`PolicyInit`, `PolicyNext` and `PolicySpec`), with the reward schedule of the same chain.

- `DifficultyFollowsWindow`: the average is the last timestamp minus the first, over
  the number of intervals, and that is the sum of the intervals (`TimeAtMost`,
  `TimeAtLeast`: step by step from the first timestamp of the window), so it is on
  the side of the target on which they all are.
- `MultiplierFallsBack`: an epoch `e` units of utilization above or below the target
  multiplies by `1 + e/Steps` or `1 - e/Steps`, where `Steps` is 8 times the target.
  `Backed` says that the multiplier is at most `(Steps / (Steps - 1))^surplus`. By
  Bernoulli's inequality (`UpAgainstDown`) a rise by `e` parts is at most `e` such
  factors and a fall by `e` parts takes at least `e` of them away, rounding and the
  upper limit included; without a surplus there is nothing left above 1.
- `SupplyIsSumOfRewards`, with `CapFits`: `2 * HALVING_INTERVAL * GENESIS_BLOCK_REWARD` is
  at most `MaxU64` (2.9e16 in the code). `Minted` says that the cap also has room
  for the rewards until the next halving and for as long again at the present
  rate; a halving leaves at most half of the reward (`HalfStep`), so this is kept.
  The table of sums behind `calculate_mined_supply` exists because the sums of
  the rewards, cut off at `MaxU64`, are one (`SupplyExists`).
- `QuotedIsPaid`: `Books` keeps, for whatever the wrapped products are, that a quoted
  part is at most what it should be (`SplitOf`, `ShareOf`) and that the dust makes up
  the rest; as long as no product has wrapped around (`wrapped`, a history
  variable), `Agreed` keeps the difference between what was quoted and what was
  paid within the fees of the epoch that are still to be shared out. `TotalIsSum`
  says that the fold of `total_fees` is their sum as long as that fits.

The third part is about Merkle, for lists of any length. The layers of a tree are a
recursive function of the iteration; that there is such a function is put together
from its beginnings (`LadderExists`, `LayersExist`), and that the loop has ended after as
many iterations as there are leaves follows because every layer is shorter than
the one below (`AboveShorter`).

- `PathReachesNode`: `Climbing` says which layer the loop stands in, that it has found
  one sibling for each layer below, and that these lead from the target to the
  node it stands at; `SiblingLeadsUp` is one iteration, odd layers included.
- `RootCommits`: layers over a list without repetitions have none either, and then a
  layer determines the one below, its length included (`NextDetermines`: a last
  node paired with itself is told from a pair of two). Two trees with one root
  therefore agree layer by layer from the root down (`TreesAgree`), and end together
  because no leaf is a parent. It is what `root_of` of BlockRules, where a root
  stands for its list, rests on; for lists with repetitions see section 5.

**WalletProofs**: the types, `SignatureBinds`, `HashIdentifies`, `WholeOrAbsent` and
`SavedIsLoadable`, for any number of invocations, paths and passwords. `SignInv` says
how each signed transaction was made. `FileInv` says that a path without overlap
has at most one invocation at work, and none while its file exists, and that
what is about to be renamed is complete.

Only model-checked, and why:

- *liveness* (`WF`), which the prover does not do. Every invariant that a run checks
  is also proved.

## 5. Not modelled, and why

- The mathematics of cryptography: digests are collision-free terms, signatures
  verify for what was signed, encryption is authenticated. Kyber and SPHINCS+
  keys are generated and stored with a wallet, but nothing in `src/` uses them
  on a protocol path.
- Seed phrases: `cmd_restore` validates the phrase and then generates new keys
  (its comment says derivation is to come), so there is nothing to relate.
- `save_wallet` (the first file format): no caller outside its tests. It writes a
  temporary file and renames it as `save_wallet_v2` does, but its key is salted
  with the address, which `load_wallet` cannot derive before it has decrypted the
  file.
- `mine_block`'s search and `estimate_hash_rate`: the search ends with a nonce,
  the estimate is only shown.
- `debit_account` and `increment_nonce`: no callers.
- `f64` rounding of the multiplier and of decimal amounts: TLC has no floating
  point. `as_units` keeps sign, truncation and saturation of the cast.
- sled's buffering: `flush` is never called, so a crash may also lose the most
  recent writes; that leaves a state of an earlier crash point. Likewise
  `save_wallet_v2` does not sync the file before the rename: the model is of a
  process that stops, not of a machine that loses power.
- A wallet path that is another wallet's name with `.tmp` (`TempAssumption`).
- A credit that overflows in `process_matured_unstakes` ends the call before its
  removals; `MaxU64` is above the supply, so it does not happen here.

What the models have, or leave out by a named assumption, and no run asks about:

- "If this is the only pending tx from this sender, the nonce must match their
  current on-chain nonce exactly" (`pool.rs:157`) does not hold: a transaction may
  evict the pending one that let it in, and stay alone with another nonce
  (`pool.rs:173`); and beside a pending one every nonce is admitted, not only
  those "above the on-chain value" (`pool.rs:160`, `pool.rs:165`);
- "Both writes happen atomically" (`block_store.rs:17`) does not hold: `save_block` is
  two sled writes with nothing around them, and ChainStore stops between them.
  Their order (the block, then its height) is what `IndexesResolve` rests on;
- nothing outside the tests calls `verify_transaction_signature`, and no rule recomputes the
  hash that a transaction carries, although it is "computed as a hash of the
  transaction contents" (`transaction.rs:11`): a block is bound to the hashes its
  transactions claim (`rules.rs:280`);
- a process that stops in the middle of `rollback_to_snapshot` may leave more coins
  in the trees than there were before the block (`state_trie.rs:133`: a sender is
  restored before its receiver); `NeverAhead` bounds them by what the block
  credited, and `CrashRecoverable` says that the stored snapshot repairs it;
- after a crash during genesis the allocations are credited again
  (`genesis.rs:73`; `RootCommitsAccounts` bounds it);
- a genesis block that arrives again takes the tip back to height 0
  (`rules.rs:116`; with `GenesisResent = TRUE` `SameTipSameState` fails);
- `apply_stake_unlock` pays out at once, and unbonding stake is out of reach of
  `slash_validator`; a stop between the two writes of `request_unstake` loses the
  request's coins, one between credit and removal pays them again;
- two invocations on one wallet path share the temporary file: one may rename
  what the other is still writing, or replace the wallet the other has saved
  (`storage.rs:244`; the paths in `overlap`);
- the signature is made for a second reading of the clock, which the
  transaction does not carry (`transaction_builder.rs:92`), and the commands sign
  nonce 0 and a placeholder for the chain state;
- `save_snapshot` writes the count back unchanged (`state_trie.rs:124`), so there is
  one stored snapshot and no stack; the affected list of the rollback test
  (`state_trie.rs:454`) does not name the treasury, whose credit a rollback would
  then keep; `check_transactions` skips senders without an account (`rules.rs:359`)
  and compares each transaction of a sender with the accounts before the block;
  a list and the same list with its last leaf repeated have one Merkle root when
  its length is odd (`merkle.rs:65`); `staked * bps` saturates for stakes above
  1.8e16 units (`validators.rs:157`).

## 6. Plan

Done: every component with state of its own is modelled and checked, and every
safety property of the ledger, the pool, block application, the stores, the
rules, the queue, the wallet, the epoch policy and the Merkle trees is proved.
What is left is the list of the previous section: what the models have and no
run asks about.
