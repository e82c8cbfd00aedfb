------------------------------- MODULE Ledger -------------------------------
(***************************************************************************)
(* The ledger of a node: the accounts tree, the pending withdrawals of     *)
(* consensus/staking.rs and the epoch-block rewards and slashing of        *)
(* consensus/validators.rs, driven by the calls block processing makes:    *)
(* one action per public operation.                                        *)
(*                                                                         *)
(* The node loop that calls these operations is not in the repository.     *)
(* What it must supply - the current epoch, the fees collected since the   *)
(* last epoch block - is the variables epoch and fee_pool.  The variables  *)
(* issued and fees_paid are history: the code does not store them.         *)
(***************************************************************************)
EXTENDS StateTrie, Rewards

CONSTANTS
    Genesis,                    \* balances the genesis allocation created
    UNBONDING_PERIOD_EPOCHS,
    SpacedRequests,             \* callers unstake once per address and epoch
    Users,                      \* addresses that sign transactions
    Amounts, Fees, SlashBps,    \* argument values that calls draw from
    MaxNonce, MaxEpoch          \* bounds of the two counters

ASSUME GenesisAssumption == IsAccountMap(Genesis)
ASSUME GenesisTierAssumption ==
    \A a \in DOMAIN Genesis :
        Genesis[a].tier = from_staked_balance(Genesis[a].staked)
ASSUME PeriodAssumption == UNBONDING_PERIOD_EPOCHS \in Nat \ {0}
ASSUME CallsAssumption ==
    /\ SpacedRequests \in BOOLEAN
    /\ Users \subseteq Address
    /\ Amounts \subseteq U64
    /\ Fees \subseteq U64
    /\ SlashBps \subseteq 0..10000
ASSUME BoundsAssumption == MaxNonce \in Nat /\ MaxEpoch \in Nat

VARIABLES
    accounts,   \* db.accounts
    pending,    \* db.metadata "pending_unstake:*", <<address, request epoch>> to amount
    epoch,      \* epoch index of the last epoch block
    fee_pool,   \* fees collected since then
    issued,     \* history: genesis plus block rewards credited
    fees_paid   \* history: all fees charged

vars == <<accounts, pending, epoch, fee_pool, issued, fees_paid>>

Init ==
    /\ accounts = Genesis
    /\ pending = [k \in {} |-> 0]
    /\ epoch = 0
    /\ fee_pool = 0
    /\ issued = TotalBalance(Genesis)
    /\ fees_paid = 0

-----------------------------------------------------------------------------
\* The transactions a block may carry.  Only a transfer has a receiver of
\* its own; the other types name the sender.
Txs ==
    {tx \in [type : TransactionType, sender : Users, receiver : Address,
             amount : Amounts, fee : Fees, nonce : 0..(MaxNonce - 1)] :
        tx.type = "Transfer" \/ tx.receiver = tx.sender}

\* Block processing applies a transaction and counts its fee when it succeeds.
ApplyTransaction(tx) ==
    LET r == apply_transaction(accounts, tx) IN
    /\ accounts' = r.accts
    /\ fee_pool' = IF r.ok THEN fee_pool + tx.fee ELSE fee_pool
    /\ fees_paid' = IF r.ok THEN fees_paid + tx.fee ELSE fees_paid
    /\ UNCHANGED <<pending, epoch, issued>>

LockStake(a, n) ==
    /\ accounts' = lock_stake(accounts, a, n).accts
    /\ UNCHANGED <<pending, epoch, fee_pool, issued, fees_paid>>

UnlockStake(a, n) ==
    /\ accounts' = unlock_stake(accounts, a, n).accts
    /\ UNCHANGED <<pending, epoch, fee_pool, issued, fees_paid>>

-----------------------------------------------------------------------------
unlock_epoch(k) == k[2] + UNBONDING_PERIOD_EPOCHS

save_pending_unstake(pend, k, n) ==
    [j \in DOMAIN pend \cup {k} |-> IF j = k THEN n ELSE pend[j]]

RequestUnstake(a, n) ==
    /\ a \in DOMAIN accounts
    /\ accounts[a].staked >= n
    /\ SpacedRequests => <<a, epoch>> \notin DOMAIN pending
    /\ accounts' = save_account(accounts, a,
                      update_validator_tier([accounts[a] EXCEPT !.staked = @ - n]))
    /\ pending' = save_pending_unstake(pending, <<a, epoch>>, n)
    /\ UNCHANGED <<epoch, fee_pool, issued, fees_paid>>

slash_amount(staked, bps) == saturating_mul(staked, bps) \div 10000

\* Variant: the tier is not evaluated again after the slash.
slash_validator_KeepsTier(accts, a, bps) ==
    LET cut == slash_amount(accts[a].staked, bps) IN
    IF accts[a].staked = 0 THEN Err(accts)
    ELSE IF cut = 0 THEN Ok(accts)
    ELSE credit_account([accts EXCEPT ![a].staked = @ - cut], Treasury, cut)

slash_validator(accts, a, bps) ==
    LET acc == accts[a]
        cut == slash_amount(acc.staked, bps)
        slashed == save_account(accts, a,
                     update_validator_tier([acc EXCEPT !.staked = @ - cut]))
    IN  IF acc.staked = 0 THEN Err(accts)
        ELSE IF cut = 0 THEN Ok(accts)
        ELSE credit_account(slashed, Treasury, cut)

SlashValidator(a, bps) ==
    /\ a \in DOMAIN accounts
    /\ accounts' = slash_validator(accounts, a, bps).accts
    /\ UNCHANGED <<pending, epoch, fee_pool, issued, fees_paid>>

-----------------------------------------------------------------------------
\* The u64 product wraps in a release build.
calculate_validator_fee_share(total) == ((total * 40) % (MaxU64 + 1)) \div 100

calculate_validator_weight(acc) ==
    saturating_add(acc.staked,
        saturating_mul(acc.staked, reward_bonus_bps(acc.tier)) \div 10000)

\* The credits of distribute_validator_rewards; validators are scanned in
\* address order and a share of zero is skipped.
reward_credits(accts, total_share) ==
    LET validators == get_validators(accts)
        weight(a) == calculate_validator_weight(accts[a])
        total_weight == SumFunction([a \in validators |-> weight(a)])
        share(a) == (total_share * weight(a)) \div total_weight
    IN  IF total_share = 0 \/ total_weight = 0 THEN {}
        ELSE {[at |-> 0, to |-> a, amount |-> share(a)] :
                 a \in {v \in validators : share(v) > 0}}

\* A sender no account has.
COINBASE_SENDER == "coinbase"

build_coinbase(miner, e) ==
    [sender |-> COINBASE_SENDER, receiver |-> miner, amount |-> calculate_block_reward(e)]

apply_coinbase(accts, coinbase, validator_fee_share) ==
    LET paid == IF coinbase.amount > 0
                THEN credit_account(accts, coinbase.receiver, coinbase.amount)
                ELSE Ok(accts)
    IN  IF coinbase.sender # COINBASE_SENDER THEN Err(accts)
        ELSE IF paid.ok /\ validator_fee_share > 0
             THEN credit_account(paid.accts, coinbase.receiver, validator_fee_share)
             ELSE paid

\* Variant: what no validator received is dropped.
apply_epoch_rewards_DropsLeftover(accts, coinbase, total_fees) ==
    LET mined == apply_coinbase(accts, coinbase, 0)
        share == calculate_validator_fee_share(total_fees)
    IN  IF ~mined.ok THEN mined
        ELSE CreditAll(mined.accts, reward_credits(mined.accts, share))

apply_epoch_rewards(accts, coinbase, total_fees) ==
    LET mined == apply_coinbase(accts, coinbase, 0)
        share == calculate_validator_fee_share(total_fees)
        credits == reward_credits(mined.accts, share)
        staked == CreditAll(mined.accts, credits)
        leftover == share - TotalAmount(credits)
    IN  IF ~mined.ok THEN mined
        ELSE IF ~staked.ok \/ leftover <= 0 THEN staked
        ELSE credit_account(staked.accts, Treasury, leftover)

\* Variants: one epoch late, one epoch early.
matured_Late(pend, e) == {k \in DOMAIN pend : unlock_epoch(k) < e}
matured_Early(pend, e) == {k \in DOMAIN pend : unlock_epoch(k) <= e + 1}

matured(pend, e) == {k \in DOMAIN pend : unlock_epoch(k) <= e}

maturity_credits(pend, e) ==
    {[at |-> unlock_epoch(k), to |-> k[1], amount |-> pend[k]] : k \in matured(pend, e)}

\* An epoch block pays its rewards, then releases the withdrawals that have
\* matured.  An error stops block processing where it is.
EpochBlock(miner) ==
    LET e == epoch + 1
        reward == calculate_block_reward(e)
        rewarded == apply_epoch_rewards(accounts, build_coinbase(miner, e), fee_pool)
        released == CreditAll(rewarded.accts, maturity_credits(pending, e))
        done == rewarded.ok /\ released.ok
    IN  /\ epoch < MaxEpoch
        /\ accounts' = IF rewarded.ok THEN released.accts ELSE rewarded.accts
        /\ pending' = IF done THEN Restrict(pending, DOMAIN pending \ matured(pending, e))
                      ELSE pending
        /\ epoch' = IF done THEN e ELSE epoch
        /\ fee_pool' = IF done THEN 0 ELSE fee_pool
        /\ issued' = IF done THEN issued + reward ELSE issued
        /\ UNCHANGED fees_paid

-----------------------------------------------------------------------------
Next ==
    \/ \E tx \in Txs : ApplyTransaction(tx)
    \/ \E a \in Users, n \in Amounts : LockStake(a, n)
    \/ \E a \in Users, n \in Amounts : UnlockStake(a, n)
    \/ \E a \in Users, n \in Amounts : RequestUnstake(a, n)
    \/ \E a \in Users, bps \in SlashBps : SlashValidator(a, bps)
    \/ \E miner \in Users : EpochBlock(miner)

Spec == Init /\ [][Next]_vars

-----------------------------------------------------------------------------
(***************************************************************************)
(* Properties.                                                             *)
(***************************************************************************)

\* What the tree holds is well typed: balances and stakes stay inside u64,
\* so no unsigned subtraction in state_trie.rs or validators.rs underflows.
TypeOK ==
    /\ IsAccountMap(accounts)
    /\ DOMAIN pending \subseteq Address \X Nat
    /\ pending \in [DOMAIN pending -> U64]
    /\ epoch \in 0..MaxEpoch
    /\ fee_pool \in Nat

\* The stored validator_tier is the tier of the stored stake, whichever of the
\* six writers touched the account last: get_validators trusts the stored tier.
TierMatchesStake ==
    \A a \in DOMAIN accounts :
        accounts[a].tier = from_staked_balance(accounts[a].staked)

Unbonding == SumFunction(pending)
Burned == issued - TotalBalance(accounts) - Unbonding
Applied == SumFunction([a \in DOMAIN accounts |-> accounts[a].nonce])

\* No operation creates coins: what has left circulation is at least the burned
\* half of all fees plus the validators' share of the fees not yet settled by
\* an epoch block.  Self-transfers, transfers to the treasury, a miner who is
\* also a validator and repeated unstaking are the aliasing cases.
BurnAtLeastHalf == 10 * Burned >= 5 * fees_paid + 4 * fee_pool

\* No operation destroys coins: what has left circulation is at most the burned
\* half of all fees, the unsettled validators' share, and rounding dust of less
\* than one unit per transaction and per epoch block.
NoCoinLost == 10 * Burned <= 5 * fees_paid + 4 * fee_pool + 10 * (Applied + epoch)

\* Coins are conserved, up to the burn and the dust, from both sides.
Conservation == BurnAtLeastHalf /\ NoCoinLost

\* apply_transaction, slash_validator and the epoch-block calls save accounts one
\* at a time, and the credits that come after the first save can still fail on
\* overflow; block processing has no other undo.  In every reachable state a
\* call that returns an error has written nothing.
AllOrNothing ==
    /\ \A tx \in Txs :
         LET r == apply_transaction(accounts, tx) IN ~r.ok => r.accts = accounts
    /\ \A a \in Users \cap DOMAIN accounts, bps \in SlashBps :
         LET r == slash_validator(accounts, a, bps) IN ~r.ok => r.accts = accounts
    /\ \A miner \in Users :
         apply_epoch_rewards(accounts, build_coinbase(miner, epoch + 1), fee_pool).ok
    /\ CreditAll(accounts, maturity_credits(pending, epoch + 1)).ok

\* A withdrawal is in the tree exactly while it unbonds: none is overdue after
\* an epoch block (process_matured_unstakes releases at unlock_epoch, not one
\* later) and none waits longer than UNBONDING_PERIOD_EPOCHS.
PendingWithinWindow ==
    \A k \in DOMAIN pending : k[2] <= epoch /\ epoch < unlock_epoch(k)

\* The inductive part of the ledger's correctness, which every operation keeps:
\* no underflow, no stale tier, no overdue withdrawal.
IInv == TypeOK /\ TierMatchesStake /\ PendingWithinWindow

\* Unbonding funds move only by maturing: a step that removes or changes a
\* pending withdrawal is an epoch block at or after its unlock epoch.
UnbondingRespected ==
    [][\A k \in DOMAIN pending :
          \/ k \in DOMAIN pending' /\ pending'[k] = pending[k]
          \/ epoch' = epoch + 1 /\ unlock_epoch(k) <= epoch']_vars

nonce_of(accts, a) == get_or_create_account(accts, a).nonce
balance_of(accts, a) == get_or_create_account(accts, a).balance
staked_of(accts, a) == get_or_create_account(accts, a).staked

\* Replay protection: a nonce never goes back, moves by one at most, and an
\* account's spendable balance only falls in a step that either uses up its
\* nonce or moves the amount into its own stake (lock_stake).
SpendingUsesNonce ==
    [][\A a \in Address :
          LET n == nonce_of(accounts, a)
              m == nonce_of(accounts', a)
              spent == balance_of(accounts, a) - balance_of(accounts', a)
          IN  /\ m \in {n, n + 1}
              /\ \/ spent <= 0
                 \/ m = n + 1
                 \/ staked_of(accounts', a) = staked_of(accounts, a) + spent]_vars
=============================================================================
