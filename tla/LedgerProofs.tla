---------------------------- MODULE LedgerProofs ----------------------------
(***************************************************************************)
(* Proofs about Ledger, for every genesis, width, tier thresholds,         *)
(* unbonding period and set of calls.  First what holds account by account *)
(* and withdrawal by withdrawal, from the invariant IInv; then what holds  *)
(* of all coins together, from CoinInv, where genesis and rewards fit in a *)
(* u64 (SupplyFits).                                                       *)
(***************************************************************************)
EXTENDS Ledger, CoinTheorems

\* An account whose stored tier is the tier of its stake.
GoodAccount(acc) == acc \in Account /\ acc.tier = from_staked_balance(acc.staked)

\* A state of the accounts tree with only such accounts.
GoodMap(f) == IsAccountMap(f) /\ \A a \in DOMAIN f : GoodAccount(f[a])

\* from_staked_balance returns a tier.
LEMMA TierType == \A n : from_staked_balance(n) \in Tier
  BY DEF from_staked_balance, Tier

\* A fresh account has no stake and no tier.
LEMMA NewAccountGood == GoodAccount(NewAccount)
<1>1. NewAccount \in Account
  BY WidthAssumption DEF NewAccount, Account, U64, Tier
<1>2. from_staked_balance(0) = "None"
  BY TierAssumption DEF from_staked_balance
<1>. QED
  BY <1>1, <1>2 DEF GoodAccount, NewAccount

\* Loading an account, present or not, returns a good one.
LEMMA GetGood ==
    ASSUME NEW f, GoodMap(f), NEW a
    PROVE  GoodAccount(get_or_create_account(f, a))
  BY NewAccountGood DEF get_or_create_account, GoodMap

\* Saving a good account keeps the tree good.
LEMMA SaveGood ==
    ASSUME NEW f, GoodMap(f), NEW a \in Address, NEW acc, GoodAccount(acc)
    PROVE  GoodMap(save_account(f, a, acc))
<1> DEFINE g == save_account(f, a, acc)
<1>1. g = [x \in DOMAIN f \cup {a} |-> IF x = a THEN acc ELSE f[x]]
  BY DEF save_account
<1>2. \A x \in DOMAIN g : GoodAccount(g[x])
  BY <1>1 DEF GoodMap
<1>3. DOMAIN g \subseteq Address
  BY <1>1 DEF GoodMap, IsAccountMap
<1>4. g \in [DOMAIN g -> Account]
  BY <1>1, <1>2 DEF GoodAccount
<1>. QED
  BY <1>2, <1>3, <1>4 DEF GoodMap, IsAccountMap

\* Saving an account sets its fields and no other's.
LEMMA SaveFields ==
    ASSUME NEW f, NEW a, NEW acc, NEW b
    PROVE  LET g == save_account(f, a, acc) IN
           /\ nonce_of(g, b) = IF b = a THEN acc.nonce ELSE nonce_of(f, b)
           /\ balance_of(g, b) = IF b = a THEN acc.balance ELSE balance_of(f, b)
           /\ staked_of(g, b) = IF b = a THEN acc.staked ELSE staked_of(f, b)
  BY DEF nonce_of, balance_of, staked_of, get_or_create_account, save_account

\* An account whose tier was just evaluated again is good.
LEMMA UpdateTierGood ==
    ASSUME NEW acc \in [balance : U64, staked : U64, nonce : Nat, tier : Tier]
    PROVE  GoodAccount(update_validator_tier(acc))
<1>1. update_validator_tier(acc)
        = [balance |-> acc.balance, staked |-> acc.staked, nonce |-> acc.nonce,
           tier |-> from_staked_balance(acc.staked)]
  BY DEF update_validator_tier
<1>. QED
  BY <1>1, TierType DEF GoodAccount, Account

\* An account revised without touching its stake keeps the right tier.
LEMMA RevisedGood ==
    ASSUME NEW acc, GoodAccount(acc), NEW b \in U64, NEW s, s = acc.staked, NEW n \in Nat
    PROVE  GoodAccount(Revised(acc, b, s, n)) /\ Revised(acc, b, s, n).nonce = n
  BY DEF Revised, GoodAccount, Account

\* An account revised and then re-evaluated has the right tier.
LEMMA RevisedTierGood ==
    ASSUME NEW acc \in Account, NEW b \in U64, NEW s \in U64, NEW n \in Nat
    PROVE  LET new == update_validator_tier(Revised(acc, b, s, n)) IN
           GoodAccount(new) /\ new.nonce = n
<1>1. Revised(acc, b, s, n) \in Account
  BY DEF Revised, Account
<1>. QED
  BY <1>1, UpdateTierGood DEF Revised, update_validator_tier, Account

\* It holds the balance and the stake it was given.
LEMMA RevisedTierFields ==
    ASSUME NEW acc, NEW b, NEW s, NEW n
    PROVE  LET new == update_validator_tier(Revised(acc, b, s, n)) IN
           new.balance = b /\ new.staked = s
  BY DEF Revised, update_validator_tier

\* What balances, stakes and nonces are made of.
LEMMA FieldTypes ==
    ASSUME NEW f, GoodMap(f), NEW b
    PROVE  balance_of(f, b) \in Nat /\ staked_of(f, b) \in Nat /\ nonce_of(f, b) \in Nat
<1>1. get_or_create_account(f, b) \in Account
  BY GetGood DEF GoodAccount
<1>. QED
  BY <1>1, AccountFields DEF balance_of, staked_of, nonce_of

-----------------------------------------------------------------------------
\* What a call that charges nobody may do: every nonce stays, no balance falls.
Keeps(f, g) ==
    /\ GoodMap(g)
    /\ \A b : nonce_of(g, b) = nonce_of(f, b) /\ balance_of(g, b) >= balance_of(f, b)

\* What a transaction may do: a balance falls only where a nonce is used up.
Charges(f, g) ==
    /\ GoodMap(g)
    /\ \A b : \/ nonce_of(g, b) = nonce_of(f, b) + 1
              \/ nonce_of(g, b) = nonce_of(f, b) /\ balance_of(g, b) >= balance_of(f, b)

\* Doing nothing.
LEMMA StayGood == ASSUME NEW f, GoodMap(f) PROVE Keeps(f, f) /\ Charges(f, f)
<1>1. \A b : balance_of(f, b) \in Nat
  BY FieldTypes
<1>. QED
  BY <1>1 DEF Keeps, Charges

\* Two such calls one after the other.
LEMMA KeepsTrans ==
    ASSUME NEW f, GoodMap(f), NEW g, NEW h, Keeps(f, g), Keeps(g, h)
    PROVE  Keeps(f, h)
<1>1. \A b : balance_of(f, b) \in Nat /\ balance_of(g, b) \in Nat /\ balance_of(h, b) \in Nat
  BY FieldTypes DEF Keeps
<1>. QED
  BY <1>1 DEF Keeps

\* A charge followed by such a call.
LEMMA ThenKeeps ==
    ASSUME NEW f, GoodMap(f), NEW g, NEW h, Charges(f, g), Keeps(g, h)
    PROVE  Charges(f, h)
<1>1. \A b : balance_of(f, b) \in Nat /\ balance_of(g, b) \in Nat /\ balance_of(h, b) \in Nat
  BY FieldTypes DEF Keeps, Charges
<1>. QED
  BY <1>1 DEF Keeps, Charges

\* Saving an account that used up its nonce is a charge.
LEMMA SaveCharges ==
    ASSUME NEW f, GoodMap(f), NEW a \in Address, NEW acc, GoodAccount(acc),
           acc.nonce = nonce_of(f, a) + 1
    PROVE  Charges(f, save_account(f, a, acc))
<1> DEFINE g == save_account(f, a, acc)
<1>1. GoodMap(g)
  BY SaveGood
<1>2. \A b : /\ nonce_of(g, b) = IF b = a THEN acc.nonce ELSE nonce_of(f, b)
             /\ balance_of(g, b) = IF b = a THEN acc.balance ELSE balance_of(f, b)
  BY SaveFields
<1>3. \A b : balance_of(f, b) \in Nat
  BY FieldTypes
<1>. HIDE DEF g
<1>. QED
  BY <1>1, <1>2, <1>3 DEF Charges, g

\* Saving an account with its nonce and at least its balance keeps both.
LEMMA SaveKeeps ==
    ASSUME NEW f, GoodMap(f), NEW a \in Address, NEW acc, GoodAccount(acc),
           acc.nonce = nonce_of(f, a), acc.balance >= balance_of(f, a)
    PROVE  Keeps(f, save_account(f, a, acc))
<1> DEFINE g == save_account(f, a, acc)
<1>1. GoodMap(g)
  BY SaveGood
<1>2. \A b : /\ nonce_of(g, b) = IF b = a THEN acc.nonce ELSE nonce_of(f, b)
             /\ balance_of(g, b) = IF b = a THEN acc.balance ELSE balance_of(f, b)
  BY SaveFields
<1>3. \A b : balance_of(f, b) \in Nat
  BY FieldTypes
<1>. HIDE DEF g
<1>. QED
  BY <1>1, <1>2, <1>3 DEF Keeps, g

\* A credit raises the balance only, and only to a u64.
LEMMA CreditedGood ==
    ASSUME NEW acc, GoodAccount(acc), NEW n \in Nat
    PROVE  /\ GoodAccount(Credited(acc, n))
           /\ Credited(acc, n).nonce = acc.nonce
           /\ Credited(acc, n).balance >= acc.balance
<1>1. acc \in Account /\ acc.balance \in Nat
  BY AccountFields DEF GoodAccount
<1>2. CASE acc.balance + n \in U64
  <2>1. Credited(acc, n) = [balance |-> acc.balance + n, staked |-> acc.staked,
                            nonce |-> acc.nonce, tier |-> acc.tier]
    BY <1>1, <1>2 DEF Credited, Account
  <2>. QED
    BY <1>1, <1>2, <2>1 DEF GoodAccount, Account
<1>3. CASE acc.balance + n \notin U64
  <2>1. Credited(acc, n) = acc
    BY <1>3 DEF Credited
  <2>. QED
    BY <1>1, <2>1
<1>. QED
  BY <1>2, <1>3

\* credit_account, successful or not.
LEMMA CreditKeeps ==
    ASSUME NEW f, GoodMap(f), NEW a \in Address, NEW n \in Nat
    PROVE  Keeps(f, credit_account(f, a, n).accts)
<1> DEFINE acc == get_or_create_account(f, a)
           new == Credited(acc, n)
           g == save_account(f, a, new)
<1>1. GoodAccount(new) /\ new.nonce = nonce_of(f, a) /\ new.balance >= balance_of(f, a)
  BY GetGood, CreditedGood DEF nonce_of, balance_of
<1>2. credit_account(f, a, n).accts \in {f, g}
  BY DEF credit_account, Ok, Err
<1>. HIDE DEF new
<1>3. Keeps(f, g)
  BY <1>1, SaveKeeps
<1>. QED
  BY <1>2, <1>3, StayGood

\* The treasury's share of a fee is a credit like any other.
LEMMA FeeSplitKeeps ==
    ASSUME NEW f, GoodMap(f), NEW fee \in Nat
    PROVE  Keeps(f, apply_fee_split(f, fee).accts)
<1>1. apply_fee_split(f, fee).accts \in {f, credit_account(f, Treasury, fee \div 10).accts}
  BY DEF apply_fee_split, Ok
<1>2. fee \div 10 \in Nat
  OBVIOUS
<1>. QED
  BY <1>1, <1>2, CreditKeeps, TreasuryAssumption, StayGood

\* What the proofs use of a transaction.
IsTx(tx) ==
    /\ tx.sender \in Address /\ tx.receiver \in Address
    /\ tx.amount \in U64 /\ tx.fee \in U64

\* The fields of the account a call loads.
LEMMA LoadTypes ==
    ASSUME NEW f, GoodMap(f), NEW a
    PROVE  LET acc == get_or_create_account(f, a) IN
           /\ acc \in Account
           /\ acc.balance \in U64 /\ acc.staked \in U64 /\ acc.nonce \in Nat
           /\ acc.nonce = nonce_of(f, a)
           /\ acc.tier = from_staked_balance(acc.staked)
  BY GetGood DEF GoodAccount, Account, nonce_of

\* apply_transfer: the sender's debit, the receiver's credit, the treasury's share.
LEMMA TransferGood ==
    ASSUME NEW f, GoodMap(f), NEW tx, IsTx(tx)
    PROVE  Charges(f, apply_transfer(f, tx).accts)
<1> DEFINE sender == get_or_create_account(f, tx.sender)
           cost == tx.amount + tx.fee
           spent == Revised(sender, sender.balance - cost, sender.staked, sender.nonce + 1)
           debited == save_account(f, tx.sender, spent)
           credited == credit_account(debited, tx.receiver, tx.amount).accts
           settled == apply_fee_split(credited, tx.fee).accts
<1>1. CASE sender.balance < cost
  <2>1. apply_transfer(f, tx).accts = f
    BY <1>1 DEF apply_transfer, Err
  <2>. QED
    BY <2>1, StayGood
<1>2. CASE ~(sender.balance < cost)
  <2>1. apply_transfer(f, tx).accts \in {f, debited, settled}
    BY DEF apply_transfer, sender_after_transfer, Ok, Err
  <2>2. GoodAccount(spent) /\ spent.nonce = nonce_of(f, tx.sender) + 1
    <3>1. GoodAccount(sender) /\ sender.nonce = nonce_of(f, tx.sender)
      BY GetGood DEF nonce_of
    <3>2. cost \in Nat
      BY WidthAssumption DEF IsTx, U64
    <3>. HIDE DEF sender, cost
    <3>3. sender.balance \in U64 /\ sender.nonce + 1 \in Nat
      BY <3>1 DEF GoodAccount, Account
    <3>4. sender.balance - cost \in U64
      BY <1>2, <3>2, <3>3, WidthAssumption DEF U64
    <3>. QED
      BY <3>1, <3>3, <3>4, RevisedGood
  <2>. HIDE DEF spent
  <2>3. Charges(f, debited)
    BY <2>2, SaveCharges DEF IsTx
  <2>. HIDE DEF debited
  <2>4. tx.amount \in Nat /\ tx.fee \in Nat /\ tx.receiver \in Address
    BY WidthAssumption DEF IsTx, U64
  <2>5. Keeps(debited, credited)
    BY <2>3, <2>4, CreditKeeps DEF Charges
  <2>. HIDE DEF credited
  <2>6. Keeps(credited, settled)
    BY <2>4, <2>5, FeeSplitKeeps DEF Keeps
  <2>. HIDE DEF settled
  <2>7. Charges(f, settled)
    BY <2>3, <2>5, <2>6, ThenKeeps
  <2>. QED
    BY <2>1, <2>3, <2>7, StayGood
<1>. QED
  BY <1>1, <1>2

\* The three transaction types that rewrite only the sender's account before
\* the fee is split.
LEMMA ChargeGood ==
    ASSUME NEW f, GoodMap(f), NEW a \in Address, NEW acc, GoodAccount(acc),
           acc.nonce = nonce_of(f, a) + 1, NEW fee \in U64
    PROVE  Charges(f, apply_fee_split(save_account(f, a, acc), fee).accts)
<1> DEFINE g == save_account(f, a, acc)
<1>1. Charges(f, g)
  BY SaveCharges
<1>. HIDE DEF g
<1>2. fee \in Nat
  BY WidthAssumption DEF U64
<1>3. Keeps(g, apply_fee_split(g, fee).accts)
  BY <1>1, <1>2, FeeSplitKeeps DEF Charges
<1>. QED
  BY <1>1, <1>3, ThenKeeps DEF g

\* apply_stake_lock: balance and fee to stake, tier evaluated again.
LEMMA StakeLockGood ==
    ASSUME NEW f, GoodMap(f), NEW tx, IsTx(tx)
    PROVE  Charges(f, apply_stake_lock(f, tx).accts)
<1> DEFINE acc == get_or_create_account(f, tx.sender)
           cost == tx.amount + tx.fee
           locked == update_validator_tier(
                       Revised(acc, acc.balance - cost, acc.staked + tx.amount, acc.nonce + 1))
           g == apply_fee_split(save_account(f, tx.sender, locked), tx.fee).accts
           refused == acc.balance < cost \/ acc.staked + tx.amount \notin U64
<1>1. apply_stake_lock(f, tx).accts = f \/ (~refused /\ apply_stake_lock(f, tx).accts = g)
  BY DEF apply_stake_lock, sender_after_stake_lock, Err
<1>2. ASSUME ~refused PROVE Charges(f, g)
  <2>1. /\ acc \in Account /\ acc.nonce = nonce_of(f, tx.sender)
        /\ acc.balance \in U64 /\ acc.nonce + 1 \in Nat
    BY LoadTypes
  <2>2. cost \in Nat
    BY WidthAssumption DEF IsTx, U64
  <2>3. acc.balance - cost \in U64 /\ acc.staked + tx.amount \in U64
    <3>. HIDE DEF acc, cost
    <3>. QED
      BY <1>2, <2>1, <2>2, WidthAssumption DEF U64
  <2>. HIDE DEF acc, cost
  <2>4. GoodAccount(locked) /\ locked.nonce = nonce_of(f, tx.sender) + 1
    BY <2>1, <2>3, RevisedTierGood
  <2>. HIDE DEF locked
  <2>. QED
    BY <2>4, ChargeGood DEF IsTx
<1>. QED
  BY <1>1, <1>2, StayGood

\* apply_stake_unlock: stake back to the balance, tier evaluated again.
LEMMA StakeUnlockGood ==
    ASSUME NEW f, GoodMap(f), NEW tx, IsTx(tx)
    PROVE  Charges(f, apply_stake_unlock(f, tx).accts)
<1> DEFINE acc == get_or_create_account(f, tx.sender)
           freed == update_validator_tier(
                      Revised(acc, acc.balance + tx.amount - tx.fee,
                              acc.staked - tx.amount, acc.nonce + 1))
           g == apply_fee_split(save_account(f, tx.sender, freed), tx.fee).accts
           refused == \/ acc.staked < tx.amount \/ acc.balance < tx.fee
                      \/ acc.balance + tx.amount \notin U64
<1>1. apply_stake_unlock(f, tx).accts = f \/ (~refused /\ apply_stake_unlock(f, tx).accts = g)
  BY DEF apply_stake_unlock, sender_after_stake_unlock, Err
<1>2. ASSUME ~refused PROVE Charges(f, g)
  <2>1. /\ acc \in Account /\ acc.nonce = nonce_of(f, tx.sender)
        /\ acc.balance \in U64 /\ acc.staked \in U64 /\ acc.nonce + 1 \in Nat
    BY LoadTypes
  <2>3. acc.balance + tx.amount - tx.fee \in U64 /\ acc.staked - tx.amount \in U64
    <3>. HIDE DEF acc
    <3>. QED
      BY <1>2, <2>1, WidthAssumption DEF U64, IsTx
  <2>. HIDE DEF acc
  <2>4. GoodAccount(freed) /\ freed.nonce = nonce_of(f, tx.sender) + 1
    BY <2>1, <2>3, RevisedTierGood
  <2>. HIDE DEF freed
  <2>. QED
    BY <2>4, ChargeGood DEF IsTx
<1>. QED
  BY <1>1, <1>2, StayGood

\* apply_fee_only: the fee is charged.
LEMMA FeeOnlyGood ==
    ASSUME NEW f, GoodMap(f), NEW tx, IsTx(tx)
    PROVE  Charges(f, apply_fee_only(f, tx).accts)
<1> DEFINE acc == get_or_create_account(f, tx.sender)
           charged == Revised(acc, acc.balance - tx.fee, acc.staked, acc.nonce + 1)
           g == apply_fee_split(save_account(f, tx.sender, charged), tx.fee).accts
<1>1. \/ apply_fee_only(f, tx).accts = f
      \/ ~(acc.balance < tx.fee) /\ apply_fee_only(f, tx).accts = g
  BY DEF apply_fee_only, sender_after_fee_only, Err
<1>2. ASSUME ~(acc.balance < tx.fee) PROVE Charges(f, g)
  <2>1. /\ GoodAccount(acc) /\ acc.nonce = nonce_of(f, tx.sender)
        /\ acc.balance \in U64 /\ acc.nonce + 1 \in Nat
    BY LoadTypes, GetGood
  <2>2. acc.balance - tx.fee \in U64
    <3>. HIDE DEF acc
    <3>. QED
      BY <1>2, <2>1, WidthAssumption DEF U64, IsTx
  <2>. HIDE DEF acc
  <2>3. GoodAccount(charged) /\ charged.nonce = nonce_of(f, tx.sender) + 1
    BY <2>1, <2>2, RevisedGood
  <2>. HIDE DEF charged
  <2>. QED
    BY <2>3, ChargeGood DEF IsTx
<1>. QED
  BY <1>1, <1>2, StayGood

\* Every transaction, applied or refused at any point, charges only its sender.
LEMMA ApplyTransactionGood ==
    ASSUME NEW f, GoodMap(f), NEW tx, IsTx(tx)
    PROVE  Charges(f, apply_transaction(f, tx).accts)
  BY TransferGood, StakeLockGood, StakeUnlockGood, FeeOnlyGood DEF apply_transaction

-----------------------------------------------------------------------------
\* A legal move of one account: its nonce stays or moves by one, and its balance
\* falls only with the nonce or into its own stake.
LegalMove(f, g, b) ==
    \/ nonce_of(g, b) = nonce_of(f, b) + 1
    \/ /\ nonce_of(g, b) = nonce_of(f, b)
       /\ \/ balance_of(g, b) >= balance_of(f, b)
          \/ staked_of(g, b) = staked_of(f, b) + (balance_of(f, b) - balance_of(g, b))

\* A step of the ledger leads to a good tree by legal moves.
GoodStep(f, g) == GoodMap(g) /\ \A b : LegalMove(f, g, b)

\* Charges and calls that charge nobody are such steps.
LEMMA StepGood ==
    ASSUME NEW f, NEW g, Keeps(f, g) \/ Charges(f, g)
    PROVE  GoodStep(f, g)
  BY DEF Keeps, Charges, GoodStep, LegalMove

\* lock_stake moves an amount from the balance to the stake, nonce kept.
LEMMA LockStakeGood ==
    ASSUME NEW f, GoodMap(f), NEW a \in Address, NEW n \in U64
    PROVE  GoodStep(f, lock_stake(f, a, n).accts)
<1> DEFINE acc == get_or_create_account(f, a)
           locked == update_validator_tier(
                       Revised(acc, acc.balance - n, acc.staked + n, acc.nonce))
           g == save_account(f, a, locked)
           refused == ~(acc.balance >= n /\ acc.staked + n \in U64)
<1>1. \/ lock_stake(f, a, n).accts = f
      \/ ~refused /\ lock_stake(f, a, n).accts = g
  BY DEF lock_stake, Ok, Err
<1>2. ASSUME ~refused PROVE GoodStep(f, g)
  <2>1. /\ acc \in Account /\ acc.balance \in Nat /\ acc.balance \in U64
        /\ acc.staked \in Nat /\ acc.nonce \in Nat
    BY GetGood, AccountFields DEF GoodAccount
  <2>2. acc.nonce = nonce_of(f, a) /\ acc.balance = balance_of(f, a) /\ acc.staked = staked_of(f, a)
    BY DEF nonce_of, balance_of, staked_of
  <2>. HIDE DEF acc
  <2>3. acc.balance - n \in U64 /\ acc.staked + n \in U64 /\ n \in Nat
    BY <1>2, <2>1, WidthAssumption DEF U64
  <2>4. /\ GoodAccount(locked) /\ locked.nonce = acc.nonce
        /\ locked.balance = acc.balance - n /\ locked.staked = acc.staked + n
    <3>1. GoodAccount(locked) /\ locked.nonce = acc.nonce
      BY <2>1, <2>3, RevisedTierGood
    <3>2. locked.balance = acc.balance - n /\ locked.staked = acc.staked + n
      BY RevisedTierFields
    <3>. QED
      BY <3>1, <3>2
  <2>. HIDE DEF locked
  <2>5. GoodMap(g)
    BY <2>4, SaveGood
  <2>6. ASSUME NEW b PROVE LegalMove(f, g, b)
    <3>1. /\ nonce_of(g, b) = IF b = a THEN locked.nonce ELSE nonce_of(f, b)
          /\ balance_of(g, b) = IF b = a THEN locked.balance ELSE balance_of(f, b)
          /\ staked_of(g, b) = IF b = a THEN locked.staked ELSE staked_of(f, b)
      BY SaveFields
    <3>2. balance_of(f, b) \in Nat
      BY FieldTypes
    <3>. HIDE DEF g
    <3>. QED
      BY <2>1, <2>2, <2>3, <2>4, <3>1, <3>2 DEF LegalMove
  <2>. QED
    BY <2>5, <2>6 DEF GoodStep
<1>. QED
  BY <1>1, <1>2, StayGood, StepGood

\* unlock_stake moves it back.
LEMMA UnlockStakeKeeps ==
    ASSUME NEW f, GoodMap(f), NEW a \in Address, NEW n \in U64
    PROVE  Keeps(f, unlock_stake(f, a, n).accts)
<1> DEFINE acc == get_or_create_account(f, a)
           freed == update_validator_tier(
                      Revised(acc, acc.balance + n, acc.staked - n, acc.nonce))
           refused == ~(acc.staked >= n /\ acc.balance + n \in U64)
<1>1. \/ unlock_stake(f, a, n).accts = f
      \/ ~refused /\ unlock_stake(f, a, n).accts = save_account(f, a, freed)
  BY DEF unlock_stake, Ok, Err
<1>2. ASSUME ~refused PROVE Keeps(f, save_account(f, a, freed))
  <2>1. /\ acc \in Account /\ acc.balance \in Nat /\ acc.staked \in U64 /\ acc.nonce \in Nat
        /\ acc.nonce = nonce_of(f, a) /\ acc.balance = balance_of(f, a)
    BY GetGood, AccountFields DEF GoodAccount, nonce_of, balance_of
  <2>. HIDE DEF acc
  <2>2. acc.staked - n \in U64 /\ acc.balance + n \in U64 /\ n \in Nat
    BY <1>2, <2>1, WidthAssumption DEF U64
  <2>3. GoodAccount(freed) /\ freed.nonce = acc.nonce /\ freed.balance = acc.balance + n
    <3>1. GoodAccount(freed) /\ freed.nonce = acc.nonce
      <4>1. PICK b \in U64, s \in U64, m \in Nat :
              b = acc.balance + n /\ s = acc.staked - n /\ m = acc.nonce
        BY <2>1, <2>2
      <4>2. freed = update_validator_tier(Revised(acc, b, s, m))
        BY <4>1
      <4>. HIDE DEF freed
      <4>. QED
        BY <2>1, <4>1, <4>2, RevisedTierGood
    <3>2. freed.balance = acc.balance + n
      BY RevisedTierFields
    <3>. QED
      BY <3>1, <3>2
  <2>. HIDE DEF freed
  <2>4. freed.nonce = nonce_of(f, a) /\ freed.balance >= balance_of(f, a)
    BY <2>1, <2>2, <2>3
  <2>. QED
    BY <2>3, <2>4, SaveKeeps
<1>. QED
  BY <1>1, <1>2, StayGood

\* Taking n coins off a stake: what request_unstake and slash_validator save.
LEMMA LoweredKeeps ==
    ASSUME NEW f, GoodMap(f), NEW a \in DOMAIN f, NEW n \in Nat, f[a].staked >= n
    PROVE  LET new == update_validator_tier([f[a] EXCEPT !.staked = @ - n]) IN
           /\ new \in Account
           /\ Coins(new) = Coins(f[a]) - n
           /\ Keeps(f, save_account(f, a, new))
<1> DEFINE acc == f[a]
           lower == Revised(acc, acc.balance, acc.staked - n, acc.nonce)
           new == update_validator_tier(lower)
<1>1. /\ acc \in Account /\ acc.balance \in U64 /\ acc.balance \in Nat
      /\ acc.staked \in U64 /\ acc.staked \in Nat /\ acc.nonce \in Nat
      /\ acc.staked >= n
    BY AccountFields DEF GoodMap, GoodAccount
<1>2. a \in Address /\ acc.nonce = nonce_of(f, a) /\ acc.balance = balance_of(f, a)
    BY DEF GoodMap, IsAccountMap, nonce_of, balance_of, get_or_create_account
<1>3. [f[a] EXCEPT !.staked = @ - n] = lower
    BY <1>1 DEF Revised, Account
<1>. HIDE DEF acc
<1>4. acc.staked - n \in U64
  BY <1>1, WidthAssumption DEF U64
<1>5. /\ GoodAccount(new) /\ new \in Account /\ new.nonce = acc.nonce
      /\ new.balance = acc.balance /\ new.staked = acc.staked - n
  <2>1. GoodAccount(new) /\ new.nonce = acc.nonce
    BY <1>1, <1>4, RevisedTierGood
  <2>2. new.balance = acc.balance /\ new.staked = acc.staked - n
    BY RevisedTierFields
  <2>. HIDE DEF new
  <2>. QED
    BY <2>1, <2>2 DEF GoodAccount
<1>. HIDE DEF new
<1>6. new.nonce = nonce_of(f, a) /\ new.balance >= balance_of(f, a)
  BY <1>1, <1>2, <1>5
<1>7. Keeps(f, save_account(f, a, new))
  BY <1>2, <1>5, <1>6, SaveKeeps
<1>8. Coins(new) = Coins(acc) - n
  BY <1>1, <1>5 DEF Coins
<1>. QED
  BY <1>3, <1>5, <1>7, <1>8 DEF new, acc

-----------------------------------------------------------------------------
\* The fractions slash_validator may be called with.
BasisPoints == 0..10000

\* A slash of at most 10000 basis points takes at most the stake, saturated
\* product included: the unsigned subtraction does not underflow.
LEMMA SlashBound ==
    \A s \in U64, bps \in BasisPoints :
        slash_amount(s, bps) \in Nat /\ slash_amount(s, bps) <= s
<1>. SUFFICES ASSUME NEW s \in U64, NEW bps \in 0..10000
              PROVE  slash_amount(s, bps) \in Nat /\ slash_amount(s, bps) <= s
  BY DEF BasisPoints
<1> DEFINE p == saturating_mul(s, bps)
<1>1. s \in Nat
  BY WidthAssumption DEF U64
<1>2. s * bps \in Nat /\ s * bps <= s * 10000
  BY <1>1
<1>3. p \in Nat /\ p <= s * 10000
  <2>. DEFINE q == s * bps
  <2>1. q \in Nat /\ q <= s * 10000
    BY <1>2
  <2>2. p = IF q \in U64 THEN q ELSE MaxU64
    BY DEF saturating_mul
  <2>. HIDE DEF q, p
  <2>. QED
    BY <1>1, <2>1, <2>2, WidthAssumption DEF U64
<1>. HIDE DEF p
<1>4. p \div 10000 \in Nat /\ p \div 10000 <= s
  BY <1>1, <1>3
<1>. QED
  BY <1>4 DEF slash_amount, p

\* slash_validator: stake to the treasury, tier evaluated again.
LEMMA SlashKeeps ==
    ASSUME NEW f, GoodMap(f), NEW a \in DOMAIN f, NEW bps \in BasisPoints
    PROVE  Keeps(f, slash_validator(f, a, bps).accts)
<1> DEFINE acc == f[a]
           cut == slash_amount(acc.staked, bps)
           new == update_validator_tier([acc EXCEPT !.staked = @ - cut])
           slashed == save_account(f, a, new)
           paid == credit_account(slashed, Treasury, cut).accts
<1>1. slash_validator(f, a, bps).accts \in {f, paid}
  BY DEF slash_validator, Ok, Err
<1>2. acc \in Account /\ acc.staked \in U64 /\ acc.staked \in Nat
  BY AccountFields DEF GoodMap, GoodAccount
<1>3. cut \in Nat /\ cut <= acc.staked
  BY <1>2, SlashBound
<1>. HIDE DEF cut
<1>4. Keeps(f, slashed)
  BY <1>2, <1>3, LoweredKeeps
<1>. HIDE DEF slashed
<1>5. Keeps(slashed, paid)
  BY <1>3, <1>4, CreditKeeps, TreasuryAssumption DEF Keeps
<1>. HIDE DEF paid
<1>6. Keeps(f, paid)
  BY <1>4, <1>5, KeepsTrans
<1>. QED
  BY <1>1, <1>6, StayGood

\* A loop of credits, stopped early or not.
LEMMA CreditAllKeeps ==
    ASSUME NEW f, GoodMap(f), NEW C, IsCredits(C)
    PROVE  Keeps(f, CreditAll(f, C).accts)
<1> DEFINE g == CreditAll(f, C).accts
<1>1. PICK P, T :
        /\ P \subseteq Address
        /\ \A x \in P : T[x] \in Nat
        /\ g = [x \in DOMAIN f \cup P |->
                  IF x \in P THEN Credited(get_or_create_account(f, x), T[x]) ELSE f[x]]
  <2>. DEFINE upTo(c) == {d \in C : Precedes(d, c)}
              fits(c) == get_or_create_account(f, c.to).balance
                           + TotalTo(upTo(c), c.to) \in U64
              done == {c \in C : \A d \in upTo(c) : fits(d)}
              paid == {c.to : c \in done}
              tot == [x \in paid |-> TotalTo(done, x)]
  <2>1. g = [x \in DOMAIN f \cup paid |->
               IF x \in paid THEN Credited(get_or_create_account(f, x), TotalTo(done, x))
               ELSE f[x]]
    BY DEF CreditAll
  <2>2. paid \subseteq Address /\ done \in SUBSET C
    BY DEF IsCredits
  <2>. HIDE DEF done
  <2>3. g = [x \in DOMAIN f \cup paid |->
               IF x \in paid THEN Credited(get_or_create_account(f, x), tot[x])
               ELSE f[x]]
    <3>. HIDE DEF paid
    <3>. QED
      BY <2>1
  <2>4. ASSUME NEW x \in paid PROVE tot[x] \in Nat
    <3>1. {c \in done : c.to = x} \in SUBSET C
      BY <2>2
    <3>. QED
      BY <3>1, AmountSubset DEF TotalTo
  <2>. HIDE DEF paid, tot, g
  <2>. QED
    BY <2>2, <2>3, <2>4
<1>. HIDE DEF g
<1>2. \A x \in DOMAIN g : GoodAccount(g[x])
  BY <1>1, GetGood, CreditedGood DEF GoodMap
<1>3. DOMAIN g \subseteq Address
  BY <1>1 DEF GoodMap, IsAccountMap
<1>4. g \in [DOMAIN g -> Account]
  BY <1>1, <1>2 DEF GoodAccount
<1>5. ASSUME NEW b
      PROVE  nonce_of(g, b) = nonce_of(f, b) /\ balance_of(g, b) >= balance_of(f, b)
  <2>. DEFINE acc == get_or_create_account(f, b)
  <2>1. acc.balance >= acc.balance
    BY GetGood, AccountFields DEF GoodAccount
  <2>2. CASE b \in P
    <3>1. get_or_create_account(g, b) = Credited(acc, T[b])
      BY <1>1, <2>2 DEF get_or_create_account
    <3>2. GoodAccount(acc) /\ T[b] \in Nat
      BY <1>1, <2>2, GetGood
    <3>. HIDE DEF acc
    <3>3. Credited(acc, T[b]).nonce = acc.nonce /\ Credited(acc, T[b]).balance >= acc.balance
      BY <3>2, CreditedGood
    <3>. QED
      BY <3>1, <3>3 DEF nonce_of, balance_of, acc
  <2>3. CASE b \notin P
    <3>1. get_or_create_account(g, b) = acc
      BY <1>1, <2>3 DEF get_or_create_account
    <3>. QED
      BY <2>1, <3>1 DEF nonce_of, balance_of
  <2>. QED
    BY <2>2, <2>3
<1>6. Keeps(f, g)
  BY <1>2, <1>3, <1>4, <1>5 DEF Keeps, GoodMap, IsAccountMap
<1>. QED
  BY <1>6 DEF g

\* The reward of a block is a natural.
LEMMA RewardType ==
    ASSUME NEW e \in 0..(MaxEpoch + 1)
    PROVE  calculate_block_reward(e) \in Nat
<1> DEFINE n == e \div HALVING_INTERVAL
<1>1. n \in Nat
  BY BoundsAssumption, RewardAssumption
<1>2. CASE n < REWARD_BITS
  <2>1. n \in 0..REWARD_BITS
    BY <1>1, <1>2, RewardAssumption
  <2>2. PICK d \in Nat \ {0} : d = 2^n
    BY <2>1, PowerAssumption
  <2>3. GENESIS_BLOCK_REWARD \div d \in Nat
    BY RewardAssumption
  <2>. QED
    BY <1>2, <2>2, <2>3 DEF calculate_block_reward
<1>3. CASE ~(n < REWARD_BITS)
  BY <1>3 DEF calculate_block_reward
<1>. QED
  BY <1>2, <1>3

\* The validators' share of the fees is at most four tenths, wrapped or not.
LEMMA ShareBound ==
    ASSUME NEW total \in Nat
    PROVE  LET share == calculate_validator_fee_share(total) IN
           /\ share \in Nat
           /\ 10 * share <= 4 * total
           /\ 40 * total <= MaxU64 => 10 * share + 10 >= 4 * total
<1> DEFINE p == (total * 40) % (MaxU64 + 1)
<1>1. p \in Nat /\ p <= total * 40 /\ (40 * total <= MaxU64 => p = total * 40)
  BY WidthAssumption
<1>. HIDE DEF p
<1>2. /\ p \div 100 \in Nat /\ 10 * (p \div 100) <= 4 * total
      /\ 40 * total <= MaxU64 => 10 * (p \div 100) + 10 >= 4 * total
  BY <1>1, WidthAssumption
<1>. QED
  BY <1>2 DEF p, calculate_validator_fee_share

\* The weight of a validator is a natural.
LEMMA WeightType ==
    ASSUME NEW acc \in Account
    PROVE  calculate_validator_weight(acc) \in Nat
<1> DEFINE bps == reward_bonus_bps(acc.tier)
           p == saturating_mul(acc.staked, bps)
<1>1. acc.staked \in Nat
  BY AccountFields
<1>2. bps \in Nat
  BY DEF reward_bonus_bps
<1>. HIDE DEF bps
<1>3. p \in Nat
  <2>. DEFINE q == acc.staked * bps
  <2>1. q \in Nat
    BY <1>1, <1>2
  <2>2. p = IF q \in U64 THEN q ELSE MaxU64
    BY DEF saturating_mul
  <2>. HIDE DEF p, q
  <2>. QED
    BY <2>1, <2>2, WidthAssumption
<1>. HIDE DEF p
<1>4. saturating_add(acc.staked, p \div 10000) \in Nat
  BY <1>1, <1>3, WidthAssumption DEF saturating_add
<1>. QED
  BY <1>4 DEF calculate_validator_weight, p, bps

\* The validators' credits share out no more than there is to share.
LEMMA RewardCredits ==
    ASSUME NEW f, IsAccountMap(f), NEW total \in Nat
    PROVE  LET C == reward_credits(f, total) IN
           IsCredits(C) /\ TotalAmount(C) \in Nat /\ TotalAmount(C) <= total
<1> DEFINE V == get_validators(f)
           w == [a \in V |-> calculate_validator_weight(f[a])]
           W == SumFunction(w)
           s == [a \in V |-> (total * w[a]) \div W]
           K == {v \in V : s[v] > 0}
           m == [a \in K |-> [at |-> 0, to |-> a, amount |-> s[a]]]
           C == reward_credits(f, total)
<1>1. V \subseteq DOMAIN f /\ V \subseteq Address
  BY DEF get_validators, IsAccountMap
<1>2. IsFiniteSet(V) /\ IsFiniteSet(K) /\ K \in SUBSET V
  BY <1>1, AddressAssumption, FS_Subset
<1>3. \A a \in V : w[a] \in Nat
  BY <1>1, WeightType DEF IsAccountMap
<1>4. W = SumFunctionOnSet(w, V)
  BY DEF SumFunction
<1>5. C = IF total = 0 \/ W = 0 THEN {} ELSE {m[a] : a \in K}
  <2>1. C = IF total = 0 \/ W = 0 THEN {}
            ELSE {[at |-> 0, to |-> a, amount |-> s[a]] : a \in K}
    BY DEF reward_credits
  <2>2. {m[a] : a \in K} = {[at |-> 0, to |-> a, amount |-> s[a]] : a \in K}
    <3>. HIDE DEF K, s
    <3>. QED
      OBVIOUS
  <2>. QED
    BY <2>1, <2>2
<1>. HIDE DEF C, w
<1>6. W \in Nat
  <2>. HIDE DEF W
  <2>. QED
    BY <1>2, <1>3, <1>4, SumNat
<1>7. CASE total = 0 \/ W = 0
  <2>1. C = {}
    BY <1>5, <1>7
  <2>2. IsCredits(C) /\ TotalAmount(C) = 0
    BY <2>1, AmountEmpty, FS_EmptySet DEF IsCredits
  <2>. QED
    BY <2>2 DEF C
<1>8. CASE ~(total = 0 \/ W = 0)
  <2>. HIDE DEF W
  <2>1. ASSUME NEW a \in V
        PROVE  s[a] \in Nat /\ s[a] * W <= total * w[a]
    <3>1. PICK q \in Nat : q = total * w[a]
      BY <1>3
    <3>2. q \div W \in Nat /\ (q \div W) * W <= q
      BY <1>6, <1>8
    <3>. QED
      BY <3>1, <3>2
  <2>. HIDE DEF s
  <2>2. SumFunctionOnSet(s, V) * W <= total * W
    <3>1. SumFunctionOnSet(s, V) * W <= total * SumFunctionOnSet(w, V)
      BY <1>2, <1>3, <1>6, <2>1, SumProportional
    <3>. QED
      BY <1>4, <3>1
  <2>3. SumFunctionOnSet(s, V) \in Nat
    BY <1>2, <2>1, SumNat
  <2>4. SumFunctionOnSet(s, V) <= total
    <3>1. PICK x \in Nat : x = SumFunctionOnSet(s, V)
      BY <2>3
    <3>2. x * W <= total * W /\ W > 0
      BY <1>6, <1>8, <2>2, <3>1
    <3>3. x <= total
      BY <1>6, <3>2
    <3>. QED
      BY <3>1, <3>3
  <2>5. SumFunctionOnSet(s, K) \in Nat /\ SumFunctionOnSet(s, K) <= SumFunctionOnSet(s, V)
    BY <1>2, <2>1, SumSubset
  <2>6. IsCredits({m[k] : k \in K}) /\ TotalAmount({m[k] : k \in K}) = SumFunctionOnSet(s, K)
    <3>1. \A a \in K : m[a].to = a /\ m[a].amount = s[a]
      OBVIOUS
    <3>2. \A k \in K : m[k].to \in Address /\ m[k].amount = s[k] /\ s[k] \in Nat
      BY <1>1, <1>2, <2>1, <3>1
    <3>3. ASSUME NEW j \in K, NEW k \in K, m[j] = m[k] PROVE j = k
      BY <3>1, <3>3
    <3>4. IsFiniteSet(K)
      BY <1>2
    <3>. HIDE DEF m, K, V
    <3>5. PaysEntries(m, s, K)
      BY <3>2, <3>3, <3>4 DEF PaysEntries
    <3>. QED
      BY <3>5, CreditsOfEntries
  <2>7. C = {m[k] : k \in K}
    BY <1>5, <1>8
  <2>. HIDE DEF m, K, V
  <2>8. IsCredits(C) /\ TotalAmount(C) = SumFunctionOnSet(s, K)
    BY <2>6, <2>7
  <2>9. TotalAmount(C) \in Nat /\ TotalAmount(C) <= total
    BY <2>3, <2>4, <2>5, <2>8
  <2>. QED
    BY <2>8, <2>9 DEF C
<1>. QED
  BY <1>7, <1>8

\* A coinbase of this miner and reward.
Coinbase(miner, reward) == [sender |-> COINBASE_SENDER, receiver |-> miner, amount |-> reward]

\* Applied without a fee share it credits the reward, if there is one.
LEMMA CoinbaseCredits ==
    ASSUME NEW f, NEW miner, NEW reward
    PROVE  apply_coinbase(f, Coinbase(miner, reward), 0)
             = IF reward > 0 THEN credit_account(f, miner, reward) ELSE Ok(f)
<1>1. PICK cb : cb = Coinbase(miner, reward)
  OBVIOUS
<1>2. cb.sender = COINBASE_SENDER /\ cb.receiver = miner /\ cb.amount = reward
  BY <1>1 DEF Coinbase
<1>3. ~(0 > 0)
  OBVIOUS
<1>. QED
  BY <1>1, <1>2, <1>3 DEF apply_coinbase

\* The rewards of an epoch block, stopped at any error.
LEMMA EpochRewardsKeeps ==
    ASSUME NEW f, GoodMap(f), NEW miner \in Address, NEW reward \in Nat, NEW fees \in Nat
    PROVE  Keeps(f, apply_epoch_rewards(f, Coinbase(miner, reward), fees).accts)
<1> DEFINE mined == apply_coinbase(f, Coinbase(miner, reward), 0).accts
           share == calculate_validator_fee_share(fees)
           credits == reward_credits(mined, share)
           staked == CreditAll(mined, credits).accts
           leftover == share - TotalAmount(credits)
           settled == credit_account(staked, Treasury, leftover).accts
<1>1. \/ apply_epoch_rewards(f, Coinbase(miner, reward), fees).accts \in {mined, staked}
      \/ ~(leftover <= 0) /\ apply_epoch_rewards(f, Coinbase(miner, reward), fees).accts = settled
  BY DEF apply_epoch_rewards
<1>2. Keeps(f, mined)
  <2>1. mined \in {f, credit_account(f, miner, reward).accts}
    BY CoinbaseCredits DEF Ok
  <2>. QED
    BY <2>1, CreditKeeps, StayGood
<1>3. share \in Nat
  BY ShareBound
<1>. HIDE DEF mined, share
<1>4. IsCredits(credits) /\ TotalAmount(credits) \in Nat
  BY <1>2, <1>3, RewardCredits DEF Keeps, GoodMap
<1>. HIDE DEF credits
<1>5. Keeps(mined, staked)
  BY <1>2, <1>4, CreditAllKeeps DEF Keeps
<1>6. Keeps(f, staked)
  <2>. HIDE DEF staked
  <2>. QED
    BY <1>2, <1>5, KeepsTrans
<1>. HIDE DEF staked
<1>7. ASSUME ~(leftover <= 0) PROVE Keeps(f, settled)
  <2>1. leftover \in Nat
    BY <1>3, <1>4, <1>7
  <2>. HIDE DEF leftover
  <2>2. Keeps(staked, settled)
    BY <1>6, <2>1, CreditKeeps, TreasuryAssumption DEF Keeps
  <2>. HIDE DEF settled
  <2>. QED
    BY <1>6, <2>2, KeepsTrans
<1>. HIDE DEF settled, leftover
<1>. QED
  BY <1>1, <1>2, <1>6, <1>7

-----------------------------------------------------------------------------
(***************************************************************************)
(* The inductive invariant IInv.  Typing alone is not enough: a slash or   *)
(* an unstake stays inside u64 because the loaded account is well typed,   *)
(* and the stored tier is right only if every account it is copied from is *)
(* good.  The window needs the epoch of every request to be in the past.   *)
(***************************************************************************)
\* A good tree is what TypeOK and TierMatchesStake say of accounts.
LEMMA GoodState == TypeOK /\ TierMatchesStake => GoodMap(accounts)
  BY DEF TypeOK, TierMatchesStake, GoodMap, IsAccountMap, GoodAccount

\* The initial state satisfies the invariant.
LEMMA IInvInit == Init => IInv
  BY GenesisAssumption, GenesisTierAssumption, BoundsAssumption
  DEF Init, IInv, TypeOK, TierMatchesStake, PendingWithinWindow

\* Every transaction block processing may be given is well formed.
LEMMA TxsTypes == \A tx \in Txs : IsTx(tx)
  BY CallsAssumption DEF Txs, IsTx

\* Withdrawals requested up to epoch e are finitely many, one per address and
\* epoch at most, and add up to a natural.
LEMMA QueueFinite ==
    ASSUME NEW p, NEW e \in Nat, DOMAIN p \subseteq Address \X Nat,
           p \in [DOMAIN p -> U64], \A k \in DOMAIN p : k[2] <= e
    PROVE  IsFiniteSet(DOMAIN p) /\ SumFunction(p) \in Nat
<1>1. IsFiniteSet(0..e)
  <2>1. 0 \in Int /\ e \in Int
    OBVIOUS
  <2>. QED
    BY <2>1, FS_Interval
<1>2. IsFiniteSet(Address \X (0..e))
  BY <1>1, AddressAssumption, FS_Product
<1>3. ASSUME NEW k \in DOMAIN p PROVE k \in Address \X (0..e)
  <2>1. PICK a \in Address, r \in Nat : k = <<a, r>>
    OBVIOUS
  <2>2. r \in 0..e
    BY <2>1
  <2>. QED
    BY <2>1, <2>2
<1>4. DOMAIN p \in SUBSET (Address \X (0..e))
  BY <1>3
<1>5. IsFiniteSet(DOMAIN p)
  BY <1>2, <1>4, FS_Subset
<1>6. \A k \in DOMAIN p : p[k] \in Nat
  BY WidthAssumption DEF U64
<1>. QED
  BY <1>5, <1>6, SumNat DEF SumFunction

\* So are those that are pending.
LEMMA PendingFinite ==
    ASSUME TypeOK, PendingWithinWindow
    PROVE  IsFiniteSet(DOMAIN pending)
<1>1. epoch \in Nat /\ \A k \in DOMAIN pending : k[2] <= epoch
  BY BoundsAssumption DEF TypeOK, PendingWithinWindow
<1>. QED
  BY <1>1, QueueFinite DEF TypeOK

\* The credits of matured withdrawals add up to the withdrawals.
LEMMA MaturityCredits ==
    ASSUME TypeOK, PendingWithinWindow, NEW e
    PROVE  LET C == maturity_credits(pending, e) IN
           IsCredits(C) /\ TotalAmount(C) = SumFunctionOnSet(pending, matured(pending, e))
<1> DEFINE K == matured(pending, e)
           m == [k \in K |-> [at |-> unlock_epoch(k), to |-> k[1], amount |-> pending[k]]]
           C == maturity_credits(pending, e)
<1>1. K \in SUBSET DOMAIN pending
  BY DEF matured
<1>2. IsFiniteSet(K)
  BY <1>1, PendingFinite, FS_Subset
<1>3. C = {m[k] : k \in K}
  BY DEF maturity_credits
<1>4. \A k \in K : m[k].at = unlock_epoch(k) /\ m[k].to = k[1] /\ m[k].amount = pending[k]
  OBVIOUS
<1>5. \A k \in K : k \in Address \X Nat /\ pending[k] \in Nat
  BY <1>1, WidthAssumption DEF TypeOK, U64
<1>. HIDE DEF m, K, C
<1>6. \A k \in K : m[k].to \in Address /\ m[k].amount = pending[k] /\ pending[k] \in Nat
  BY <1>4, <1>5
<1>7. ASSUME NEW j \in K, NEW k \in K, m[j] = m[k] PROVE j = k
  <2>1. j \in Address \X Nat /\ k \in Address \X Nat
    BY <1>5
  <2>2. j[1] = k[1] /\ unlock_epoch(j) = unlock_epoch(k)
    BY <1>4, <1>7
  <2>3. j[2] \in Nat /\ k[2] \in Nat
    BY <2>1
  <2>4. j[2] = k[2]
    BY <2>2, <2>3, PeriodAssumption DEF unlock_epoch
  <2>. QED
    BY <2>1, <2>2, <2>4
<1>8. IsCredits({m[k] : k \in K}) /\ TotalAmount({m[k] : k \in K}) = SumFunctionOnSet(pending, K)
  <2>1. PaysEntries(m, pending, K)
    BY <1>2, <1>6, <1>7 DEF PaysEntries
  <2>. QED
    BY <2>1, CreditsOfEntries
<1>. QED
  BY <1>3, <1>8 DEF C, K

\* Every step of the ledger is a good step of the accounts tree.
LEMMA AccountsStep ==
    ASSUME IInv, Next
    PROVE  GoodStep(accounts, accounts')
<1>0. GoodMap(accounts) /\ TypeOK /\ PendingWithinWindow
  BY GoodState DEF IInv
<1>1. ASSUME NEW tx \in Txs, ApplyTransaction(tx) PROVE GoodStep(accounts, accounts')
  <2>1. Charges(accounts, apply_transaction(accounts, tx).accts)
    BY <1>0, TxsTypes, ApplyTransactionGood
  <2>. QED
    BY <1>1, <2>1, StepGood DEF ApplyTransaction
<1>2. ASSUME NEW a \in Users, NEW n \in Amounts, LockStake(a, n)
      PROVE  GoodStep(accounts, accounts')
  BY <1>0, <1>2, LockStakeGood, CallsAssumption DEF LockStake
<1>3. ASSUME NEW a \in Users, NEW n \in Amounts, UnlockStake(a, n)
      PROVE  GoodStep(accounts, accounts')
  <2>1. Keeps(accounts, unlock_stake(accounts, a, n).accts)
    BY <1>0, UnlockStakeKeeps, CallsAssumption
  <2>. QED
    BY <1>3, <2>1, StepGood DEF UnlockStake
<1>4. ASSUME NEW a \in Users, NEW n \in Amounts, RequestUnstake(a, n)
      PROVE  GoodStep(accounts, accounts')
  <2>. DEFINE new == update_validator_tier([accounts[a] EXCEPT !.staked = @ - n])
  <2>1. a \in DOMAIN accounts /\ accounts[a].staked >= n /\ n \in Nat
    BY <1>4, CallsAssumption, WidthAssumption DEF RequestUnstake, U64
  <2>2. Keeps(accounts, save_account(accounts, a, new))
    BY <1>0, <2>1, LoweredKeeps
  <2>. QED
    BY <1>4, <2>2, StepGood DEF RequestUnstake
<1>5. ASSUME NEW a \in Users, NEW bps \in SlashBps, SlashValidator(a, bps)
      PROVE  GoodStep(accounts, accounts')
  <2>1. bps \in BasisPoints
    BY CallsAssumption DEF BasisPoints
  <2>2. a \in DOMAIN accounts /\ accounts' = slash_validator(accounts, a, bps).accts
    BY <1>5 DEF SlashValidator
  <2>. QED
    BY <1>0, <2>1, <2>2, SlashKeeps, StepGood
<1>6. ASSUME NEW miner \in Users, EpochBlock(miner) PROVE GoodStep(accounts, accounts')
  <2>. DEFINE e == epoch + 1
              reward == calculate_block_reward(e)
              mid == apply_epoch_rewards(accounts, Coinbase(miner, reward), fee_pool).accts
              credits == maturity_credits(pending, e)
              new == CreditAll(mid, credits).accts
  <2>1. accounts' \in {mid, new}
    BY <1>6 DEF EpochBlock, build_coinbase, Coinbase
  <2>2. reward \in Nat /\ fee_pool \in Nat /\ miner \in Address
    BY <1>0, RewardType, BoundsAssumption, CallsAssumption DEF TypeOK
  <2>. HIDE DEF reward
  <2>3. Keeps(accounts, mid)
    BY <1>0, <2>2, EpochRewardsKeeps
  <2>4. IsCredits(credits)
    BY <1>0, MaturityCredits
  <2>. HIDE DEF mid, credits
  <2>5. Keeps(mid, new)
    BY <2>3, <2>4, CreditAllKeeps DEF Keeps
  <2>. HIDE DEF new
  <2>. QED
    BY <1>0, <2>1, <2>3, <2>5, KeepsTrans, StepGood
<1>. QED
  BY <1>1, <1>2, <1>3, <1>4, <1>5, <1>6 DEF Next

\* What a step does to the withdrawals and the counters.
LEMMA PendingStep ==
    ASSUME TypeOK, PendingWithinWindow, Next
    PROVE  /\ DOMAIN pending' \subseteq Address \X Nat
           /\ pending' \in [DOMAIN pending' -> U64]
           /\ epoch' \in 0..MaxEpoch
           /\ fee_pool' \in Nat
           /\ PendingWithinWindow'
<1> DEFINE Goal == /\ DOMAIN pending' \subseteq Address \X Nat
                   /\ pending' \in [DOMAIN pending' -> U64]
                   /\ epoch' \in 0..MaxEpoch
                   /\ fee_pool' \in Nat
                   /\ PendingWithinWindow'
<1>1. ASSUME UNCHANGED <<pending, epoch>>, fee_pool' \in Nat PROVE Goal
  BY <1>1 DEF TypeOK, PendingWithinWindow
<1>2. ASSUME NEW tx \in Txs, ApplyTransaction(tx) PROVE Goal
  <2>1. tx.fee \in Nat
    BY TxsTypes, WidthAssumption DEF IsTx, U64
  <2>2. fee_pool' \in Nat
    BY <1>2, <2>1 DEF ApplyTransaction, TypeOK
  <2>. QED
    BY <1>1, <1>2, <2>2 DEF ApplyTransaction
<1>3. ASSUME NEW a \in Users, NEW n \in Amounts, RequestUnstake(a, n) PROVE Goal
  <2>. DEFINE k == <<a, epoch>>
  <2>1. /\ pending' = [j \in DOMAIN pending \cup {k} |-> IF j = k THEN n ELSE pending[j]]
        /\ epoch' = epoch /\ fee_pool' = fee_pool
    BY <1>3 DEF RequestUnstake, save_pending_unstake
  <2>2. k \in Address \X Nat /\ n \in U64 /\ k[2] = epoch /\ epoch \in Nat
    BY CallsAssumption, BoundsAssumption DEF TypeOK
  <2>. HIDE DEF k
  <2>3. DOMAIN pending' \subseteq Address \X Nat
    BY <2>1, <2>2 DEF TypeOK
  <2>4. pending' \in [DOMAIN pending' -> U64]
    BY <2>1, <2>2 DEF TypeOK
  <2>5. ASSUME NEW j \in DOMAIN pending' PROVE j[2] <= epoch /\ epoch < unlock_epoch(j)
    BY <2>1, <2>2, PeriodAssumption DEF PendingWithinWindow, unlock_epoch
  <2>6. PendingWithinWindow'
    BY <2>1, <2>5 DEF PendingWithinWindow, unlock_epoch
  <2>. QED
    BY <2>1, <2>3, <2>4, <2>6 DEF TypeOK
<1>4. ASSUME NEW miner \in Users, EpochBlock(miner) PROVE Goal
  <2>. DEFINE e == epoch + 1
              left == DOMAIN pending \ matured(pending, e)
  <2>1. /\ epoch < MaxEpoch
        /\ \/ pending' = pending /\ epoch' = epoch /\ fee_pool' = fee_pool
           \/ pending' = Restrict(pending, left) /\ epoch' = e /\ fee_pool' = 0
    BY <1>4 DEF EpochBlock
  <2>2. CASE pending' = pending /\ epoch' = epoch /\ fee_pool' = fee_pool
    BY <1>1, <2>2 DEF TypeOK
  <2>3. CASE pending' = Restrict(pending, left) /\ epoch' = e /\ fee_pool' = 0
    <3>1. pending' = [j \in left |-> pending[j]] /\ left \subseteq DOMAIN pending
      BY <2>3 DEF Restrict
    <3>2. DOMAIN pending' \subseteq Address \X Nat /\ pending' \in [DOMAIN pending' -> U64]
      BY <3>1 DEF TypeOK
    <3>3. epoch' \in 0..MaxEpoch
      BY <2>1, <2>3, BoundsAssumption DEF TypeOK
    <3>4. ASSUME NEW j \in left PROVE j[2] <= e /\ e < unlock_epoch(j)
      <4>1. j[2] \in Nat /\ j[2] <= epoch /\ epoch \in Nat
        BY BoundsAssumption DEF TypeOK, PendingWithinWindow
      <4>2. ~(unlock_epoch(j) <= e) /\ unlock_epoch(j) = j[2] + UNBONDING_PERIOD_EPOCHS
        BY DEF matured, unlock_epoch
      <4>. QED
        BY <4>1, <4>2, PeriodAssumption
    <3>5. PendingWithinWindow'
      BY <2>3, <3>1, <3>4 DEF PendingWithinWindow, unlock_epoch
    <3>. QED
      BY <2>3, <3>2, <3>3, <3>5
  <2>. QED
    BY <2>1, <2>2, <2>3
<1>5. ASSUME NEW a \in Users, NEW n \in Amounts, LockStake(a, n) \/ UnlockStake(a, n) PROVE Goal
  BY <1>1, <1>5 DEF LockStake, UnlockStake, TypeOK
<1>6. ASSUME NEW a \in Users, NEW bps \in SlashBps, SlashValidator(a, bps) PROVE Goal
  BY <1>1, <1>6 DEF SlashValidator, TypeOK
<1>. QED
  BY <1>2, <1>3, <1>4, <1>5, <1>6 DEF Next

\* Every step keeps the invariant.
LEMMA IInvStep == IInv /\ [Next]_vars => IInv'
<1>1. ASSUME IInv, Next PROVE IInv'
  <2>1. GoodMap(accounts')
    BY <1>1, AccountsStep DEF IInv, GoodStep
  <2>2. IsAccountMap(accounts') /\ TierMatchesStake'
    BY <2>1 DEF GoodMap, GoodAccount, TierMatchesStake
  <2>. QED
    BY <1>1, <2>2, PendingStep DEF IInv, TypeOK
<1>2. ASSUME IInv, UNCHANGED vars PROVE IInv'
  BY <1>2 DEF IInv, vars, TypeOK, TierMatchesStake, PendingWithinWindow
<1>. QED
  BY <1>1, <1>2

\* The conjunction of the three holds in every reachable state.
THEOREM LedgerInvariant == Spec => []IInv
<1>. QED
  BY IInvInit, IInvStep, PTL DEF Spec

\* Balances and stakes stay inside u64, whatever calls are made in whatever
\* order and wherever they fail: no unsigned subtraction of the account code
\* underflows.
THEOREM LedgerTypeOK == Spec => []TypeOK
<1>1. IInv => TypeOK
  BY DEF IInv
<1>. QED
  BY <1>1, LedgerInvariant, PTL

\* The stored tier of every account is the tier of its stake.
THEOREM LedgerTierMatchesStake == Spec => []TierMatchesStake
<1>1. IInv => TierMatchesStake
  BY DEF IInv
<1>. QED
  BY <1>1, LedgerInvariant, PTL

\* Withdrawals sit in the tree from their request to their unlock epoch and no
\* longer, for every unbonding period.
THEOREM LedgerPendingWithinWindow == Spec => []PendingWithinWindow
<1>1. IInv => PendingWithinWindow
  BY DEF IInv
<1>. QED
  BY <1>1, LedgerInvariant, PTL

\* When callers unstake at most once per address and epoch, nothing but an
\* epoch block at its unlock epoch touches a withdrawal.  Without that
\* hypothesis the claim is false: a second request overwrites the first.
THEOREM LedgerUnbondingRespected ==
    ASSUME SpacedRequests
    PROVE  Spec => UnbondingRespected
<1> DEFINE A == \A k \in DOMAIN pending :
                  \/ k \in DOMAIN pending' /\ pending'[k] = pending[k]
                  \/ epoch' = epoch + 1 /\ unlock_epoch(k) <= epoch'
<1>1. ASSUME UNCHANGED pending PROVE A
  BY <1>1
<1>2. ASSUME NEW a, NEW n, RequestUnstake(a, n) PROVE A
  BY <1>2 DEF RequestUnstake, save_pending_unstake
<1>3. ASSUME NEW miner, EpochBlock(miner) PROVE A
  <2>. DEFINE left == DOMAIN pending \ matured(pending, epoch + 1)
  <2>1. \/ pending' = pending
        \/ pending' = Restrict(pending, left) /\ epoch' = epoch + 1
    BY <1>3 DEF EpochBlock
  <2>2. CASE pending' = pending
    BY <2>2
  <2>3. CASE pending' = Restrict(pending, left) /\ epoch' = epoch + 1
    BY <2>3 DEF Restrict, matured
  <2>. QED
    BY <2>1, <2>2, <2>3
<1>4. [Next]_vars => [A]_vars
  BY <1>1, <1>2, <1>3
  DEF Next, vars, ApplyTransaction, LockStake, UnlockStake, SlashValidator
<1>. QED
  BY <1>4, PTL DEF Spec, UnbondingRespected

\* Replay protection, call by call, wherever a call fails: nonces never go back,
\* and a balance falls only with its nonce or into its own stake.
THEOREM LedgerSpendingUsesNonce == Spec => SpendingUsesNonce
<1> DEFINE A == \A a \in Address :
                  LET n == nonce_of(accounts, a)
                      m == nonce_of(accounts', a)
                      spent == balance_of(accounts, a) - balance_of(accounts', a)
                  IN  /\ m \in {n, n + 1}
                      /\ \/ spent <= 0
                         \/ m = n + 1
                         \/ staked_of(accounts', a) = staked_of(accounts, a) + spent
<1>1. ASSUME IInv, Next PROVE A
  <2>1. GoodMap(accounts) /\ GoodStep(accounts, accounts')
    BY <1>1, GoodState, AccountsStep DEF IInv
  <2>2. ASSUME NEW a \in Address
        PROVE  balance_of(accounts, a) \in Nat /\ balance_of(accounts', a) \in Nat
    BY <2>1, FieldTypes DEF GoodStep
  <2>3. \A a \in Address : LegalMove(accounts, accounts', a)
    BY <2>1 DEF GoodStep
  <2>. QED
    BY <2>2, <2>3 DEF LegalMove
<1>2. IInv /\ [Next]_vars => [A]_vars
  BY <1>1
<1>. QED
  BY <1>2, LedgerInvariant, PTL DEF Spec, SpendingUsesNonce

-----------------------------------------------------------------------------
(***************************************************************************)
(* What each call does to the coins in the tree and to the number of       *)
(* nonces used up, while all coins together fit in a u64.                  *)
(***************************************************************************)
\* Nonces used up so far: Applied is Used(accounts).
Used(f) == SumFunction([a \in DOMAIN f |-> f[a].nonce])

\* They may be counted over all addresses.
LEMMA UsedOverAddresses ==
    ASSUME NEW f, GoodMap(f)
    PROVE  LET H == [x \in Address |-> nonce_of(f, x)] IN
           /\ \A x \in Address : H[x] \in Nat
           /\ Used(f) = SumFunctionOnSet(H, Address)
           /\ Used(f) \in Nat
<1> DEFINE H == [x \in Address |-> nonce_of(f, x)]
           F == [x \in DOMAIN f |-> f[x].nonce]
<1>1. \A x \in Address : H[x] \in Nat /\ H[x] \in Int
  BY FieldTypes
<1>2. DOMAIN f \in SUBSET Address
  BY DEF GoodMap, IsAccountMap
<1>3. \A x \in Address \ DOMAIN f : H[x] = 0
  BY DEF nonce_of, get_or_create_account, NewAccount
<1>4. \A x \in DOMAIN f : F[x] = H[x]
  BY <1>2 DEF nonce_of, get_or_create_account
<1>5. Used(f) = SumFunctionOnSet(F, DOMAIN f)
  BY DEF Used, SumFunction
<1>6. IsFiniteSet(DOMAIN f)
  BY <1>2, AddressAssumption, FS_Subset
<1>. HIDE DEF F, H
<1>7. SumFunctionOnSet(F, DOMAIN f) = SumFunctionOnSet(H, DOMAIN f)
  BY <1>4, <1>6, SumSame
<1>8. SumFunctionOnSet(H, Address) = SumFunctionOnSet(H, DOMAIN f)
  BY <1>1, <1>2, <1>3, AddressAssumption, SumExtend
<1>9. SumFunctionOnSet(H, Address) \in Nat
  BY <1>1, AddressAssumption, SumNat
<1>. QED
  BY <1>1, <1>5, <1>7, <1>8, <1>9 DEF H

\* Calls that charge nobody use up no nonce.
LEMMA UsedKept ==
    ASSUME NEW f, GoodMap(f), NEW g, Keeps(f, g)
    PROVE  Used(g) = Used(f)
<1> DEFINE F == [x \in Address |-> nonce_of(f, x)]
           G == [x \in Address |-> nonce_of(g, x)]
<1>1. Used(f) = SumFunctionOnSet(F, Address)
  BY UsedOverAddresses
<1>2. Used(g) = SumFunctionOnSet(G, Address)
  BY UsedOverAddresses DEF Keeps
<1>3. \A x \in Address : F[x] = G[x]
  BY DEF Keeps
<1>. HIDE DEF F, G
<1>4. SumFunctionOnSet(F, Address) = SumFunctionOnSet(G, Address)
  BY <1>3, AddressAssumption, SumSame
<1>. QED
  BY <1>1, <1>2, <1>4

\* Saving an account whose nonce has moved by one uses up one.
LEMMA UsedMore ==
    ASSUME NEW f, GoodMap(f), NEW a \in Address, NEW acc, GoodAccount(acc),
           acc.nonce = nonce_of(f, a) + 1
    PROVE  Used(save_account(f, a, acc)) = Used(f) + 1
<1> DEFINE g == save_account(f, a, acc)
           F == [x \in Address |-> nonce_of(f, x)]
           G == [x \in Address |-> nonce_of(g, x)]
<1>1. (\A x \in Address : F[x] \in Nat) /\ Used(f) = SumFunctionOnSet(F, Address)
  BY UsedOverAddresses
<1>2. GoodMap(g)
  BY SaveGood
<1>3. Used(g) = SumFunctionOnSet(G, Address) /\ \A x \in Address : G[x] \in Nat
  <2>. HIDE DEF g
  <2>. QED
    BY <1>2, UsedOverAddresses
<1>4. G[a] = F[a] + 1 /\ \A x \in Address \ {a} : G[x] = F[x]
  BY SaveFields
<1>. HIDE DEF F, G, g
<1>5. IsFiniteSet(Address) /\ \A x \in Address : F[x] \in Int
  BY <1>1, AddressAssumption
<1>6. IsFiniteSet(Address) /\ \A x \in Address : G[x] \in Int
  BY <1>3, AddressAssumption
<1>7. SumFunctionOnSet(F, Address) = F[a] + SumFunctionOnSet(F, Address \ {a})
  BY <1>5, SumRemove
<1>8. SumFunctionOnSet(G, Address) = G[a] + SumFunctionOnSet(G, Address \ {a})
  BY <1>6, SumRemove
<1>9. IsFiniteSet(Address \ {a})
  BY AddressAssumption, FS_Subset
<1>10. SumFunctionOnSet(G, Address \ {a}) = SumFunctionOnSet(F, Address \ {a})
  BY <1>4, <1>9, SumSame
<1>11. SumFunctionOnSet(F, Address \ {a}) \in Int /\ F[a] \in Int
  BY <1>5, <1>9, SumRemove
<1>. QED
  BY <1>1, <1>3, <1>4, <1>7, <1>8, <1>10, <1>11 DEF g

\* A transaction that is applied: nine tenths of its fee leave the tree, rounded
\* up, and one nonce is used up.
Paid(f, r, fee) ==
    /\ r.ok
    /\ TotalBalance(r.accts) = TotalBalance(f) - fee + fee \div 10
    /\ Used(r.accts) = Used(f) + 1

\* A transaction that is refused has written nothing.
Refused(f, r) == ~r.ok /\ r.accts = f

\* Saving the sender with x coins less and its nonce used up.
LEMMA SenderSaved ==
    ASSUME NEW f, GoodMap(f), NEW a \in Address, NEW acc, GoodAccount(acc),
           acc.nonce = nonce_of(f, a) + 1, NEW x \in Nat,
           Coins(acc) = Coins(get_or_create_account(f, a)) - x
    PROVE  LET g == save_account(f, a, acc) IN
           /\ GoodMap(g) /\ IsAccountMap(g)
           /\ TotalBalance(f) \in Nat
           /\ TotalBalance(g) = TotalBalance(f) - x
           /\ Used(g) = Used(f) + 1
<1> DEFINE g == save_account(f, a, acc)
           old == get_or_create_account(f, a)
<1>1. GoodMap(g) /\ IsAccountMap(g) /\ Used(g) = Used(f) + 1
  BY SaveGood, UsedMore DEF GoodMap
<1>2. acc \in Account /\ old \in Account /\ IsAccountMap(f)
  BY GetGood DEF GoodAccount, GoodMap
<1>3. TotalBalance(f) \in Nat /\ TotalBalance(g) = TotalBalance(f) - Coins(old) + Coins(acc)
  BY <1>2, SavedAccount
<1>4. Coins(old) \in Nat
  BY <1>2, AccountFields DEF Coins
<1>. HIDE DEF g, old
<1>5. TotalBalance(g) = TotalBalance(f) - x
  BY <1>3, <1>4 DEF old
<1>. QED
  BY <1>1, <1>3, <1>5 DEF g

\* The three transaction types that rewrite only the sender before the split.
LEMMA ChargeTotals ==
    ASSUME NEW f, GoodMap(f), TotalBalance(f) <= MaxU64,
           NEW a \in Address, NEW acc, GoodAccount(acc),
           acc.nonce = nonce_of(f, a) + 1, NEW fee \in U64,
           Coins(acc) = Coins(get_or_create_account(f, a)) - fee
    PROVE  Paid(f, apply_fee_split(save_account(f, a, acc), fee), fee)
<1> DEFINE g == save_account(f, a, acc)
           r == apply_fee_split(g, fee)
<1>1. fee \in Nat
  BY WidthAssumption DEF U64
<1>2. /\ GoodMap(g) /\ IsAccountMap(g) /\ TotalBalance(f) \in Nat
      /\ TotalBalance(g) = TotalBalance(f) - fee /\ Used(g) = Used(f) + 1
  BY <1>1, SenderSaved
<1>. HIDE DEF g
<1>3. TotalBalance(g) + fee \div 10 <= MaxU64
  BY <1>1, <1>2, WidthAssumption
<1>4. r.ok /\ TotalBalance(r.accts) = TotalBalance(g) + fee \div 10
  BY <1>1, <1>2, <1>3, FeeSplitTotals
<1>5. Used(r.accts) = Used(g)
  BY <1>1, <1>2, FeeSplitKeeps, UsedKept
<1>. HIDE DEF r
<1>6. Paid(f, r, fee)
  BY <1>1, <1>2, <1>4, <1>5 DEF Paid
<1>. QED
  BY <1>6 DEF r, g

\* apply_stake_lock.
LEMMA StakeLockTotals ==
    ASSUME NEW f, GoodMap(f), TotalBalance(f) <= MaxU64, NEW tx, IsTx(tx)
    PROVE  LET r == apply_stake_lock(f, tx) IN Paid(f, r, tx.fee) \/ Refused(f, r)
<1> DEFINE acc == get_or_create_account(f, tx.sender)
           cost == tx.amount + tx.fee
           locked == update_validator_tier(
                       Revised(acc, acc.balance - cost, acc.staked + tx.amount, acc.nonce + 1))
           r == apply_fee_split(save_account(f, tx.sender, locked), tx.fee)
           refused == acc.balance < cost \/ acc.staked + tx.amount \notin U64
<1>1. apply_stake_lock(f, tx) = Err(f) \/ (~refused /\ apply_stake_lock(f, tx) = r)
  BY DEF apply_stake_lock, sender_after_stake_lock
<1>2. ASSUME ~refused PROVE Paid(f, r, tx.fee)
  <2>1. /\ acc \in Account /\ acc.nonce = nonce_of(f, tx.sender)
        /\ acc.balance \in U64 /\ acc.balance \in Nat /\ acc.staked \in Nat /\ acc.nonce + 1 \in Nat
    BY GetGood, AccountFields DEF GoodAccount, nonce_of
  <2>2. cost \in Nat /\ tx.amount \in Nat /\ tx.fee \in Nat /\ cost = tx.amount + tx.fee
    BY WidthAssumption DEF IsTx, U64
  <2>. HIDE DEF cost, acc
  <2>3. acc.balance - cost \in U64 /\ acc.staked + tx.amount \in U64
    BY <1>2, <2>1, <2>2, WidthAssumption DEF U64
  <2>4. GoodAccount(locked) /\ locked.nonce = nonce_of(f, tx.sender) + 1
    BY <2>1, <2>3, RevisedTierGood
  <2>5. locked.balance = acc.balance - cost /\ locked.staked = acc.staked + tx.amount
    BY RevisedTierFields
  <2>. HIDE DEF locked
  <2>6. Coins(locked) = Coins(acc) - tx.fee
    BY <2>1, <2>2, <2>5 DEF Coins
  <2>7. tx.fee \in U64 /\ tx.sender \in Address
    BY DEF IsTx
  <2>. QED
    BY <2>4, <2>6, <2>7, ChargeTotals DEF acc
<1>. HIDE DEF r
<1>. QED
  BY <1>1, <1>2 DEF Refused, Err

\* apply_stake_unlock.
LEMMA StakeUnlockTotals ==
    ASSUME NEW f, GoodMap(f), TotalBalance(f) <= MaxU64, NEW tx, IsTx(tx)
    PROVE  LET r == apply_stake_unlock(f, tx) IN Paid(f, r, tx.fee) \/ Refused(f, r)
<1> DEFINE acc == get_or_create_account(f, tx.sender)
           freed == update_validator_tier(
                      Revised(acc, acc.balance + tx.amount - tx.fee,
                              acc.staked - tx.amount, acc.nonce + 1))
           r == apply_fee_split(save_account(f, tx.sender, freed), tx.fee)
           refused == \/ acc.staked < tx.amount \/ acc.balance < tx.fee
                      \/ acc.balance + tx.amount \notin U64
<1>1. apply_stake_unlock(f, tx) = Err(f) \/ (~refused /\ apply_stake_unlock(f, tx) = r)
  BY DEF apply_stake_unlock, sender_after_stake_unlock
<1>2. ASSUME ~refused PROVE Paid(f, r, tx.fee)
  <2>1. /\ acc \in Account /\ acc.nonce = nonce_of(f, tx.sender)
        /\ acc.balance \in Nat /\ acc.staked \in Nat /\ acc.staked \in U64 /\ acc.nonce + 1 \in Nat
    BY GetGood, AccountFields DEF GoodAccount, nonce_of
  <2>2. tx.amount \in Nat /\ tx.fee \in Nat
    BY WidthAssumption DEF IsTx, U64
  <2>. HIDE DEF acc
  <2>3. acc.balance + tx.amount - tx.fee \in U64 /\ acc.staked - tx.amount \in U64
    BY <1>2, <2>1, <2>2, WidthAssumption DEF U64
  <2>4. GoodAccount(freed) /\ freed.nonce = nonce_of(f, tx.sender) + 1
    BY <2>1, <2>3, RevisedTierGood
  <2>5. freed.balance = acc.balance + tx.amount - tx.fee /\ freed.staked = acc.staked - tx.amount
    BY RevisedTierFields
  <2>. HIDE DEF freed
  <2>6. Coins(freed) = Coins(acc) - tx.fee
    BY <2>1, <2>2, <2>5 DEF Coins
  <2>7. tx.fee \in U64 /\ tx.sender \in Address
    BY DEF IsTx
  <2>. QED
    BY <2>4, <2>6, <2>7, ChargeTotals DEF acc
<1>. HIDE DEF r
<1>. QED
  BY <1>1, <1>2 DEF Refused, Err

\* apply_fee_only.
LEMMA FeeOnlyTotals ==
    ASSUME NEW f, GoodMap(f), TotalBalance(f) <= MaxU64, NEW tx, IsTx(tx)
    PROVE  LET r == apply_fee_only(f, tx) IN Paid(f, r, tx.fee) \/ Refused(f, r)
<1> DEFINE acc == get_or_create_account(f, tx.sender)
           charged == Revised(acc, acc.balance - tx.fee, acc.staked, acc.nonce + 1)
           r == apply_fee_split(save_account(f, tx.sender, charged), tx.fee)
<1>1. apply_fee_only(f, tx) = Err(f) \/ (~(acc.balance < tx.fee) /\ apply_fee_only(f, tx) = r)
  BY DEF apply_fee_only, sender_after_fee_only
<1>2. ASSUME ~(acc.balance < tx.fee) PROVE Paid(f, r, tx.fee)
  <2>1. /\ GoodAccount(acc) /\ acc.nonce = nonce_of(f, tx.sender)
        /\ acc.balance \in U64 /\ acc.balance \in Nat /\ acc.staked \in Nat /\ acc.nonce + 1 \in Nat
    BY GetGood, AccountFields DEF GoodAccount, nonce_of
  <2>2. tx.fee \in Nat
    BY WidthAssumption DEF IsTx, U64
  <2>. HIDE DEF acc
  <2>3. acc.balance - tx.fee \in U64
    BY <1>2, <2>1, <2>2, WidthAssumption DEF U64
  <2>4. GoodAccount(charged) /\ charged.nonce = nonce_of(f, tx.sender) + 1
    BY <2>1, <2>3, RevisedGood
  <2>5. charged.balance = acc.balance - tx.fee /\ charged.staked = acc.staked
    BY DEF Revised
  <2>. HIDE DEF charged
  <2>6. Coins(charged) = Coins(acc) - tx.fee
    BY <2>1, <2>2, <2>5 DEF Coins
  <2>7. tx.fee \in U64 /\ tx.sender \in Address
    BY DEF IsTx
  <2>. QED
    BY <2>4, <2>6, <2>7, ChargeTotals DEF acc
<1>. HIDE DEF r
<1>. QED
  BY <1>1, <1>2 DEF Refused, Err

\* apply_transfer: a receiver's credit, self-transfers and transfers to the
\* treasury included, cannot overflow because the sender held the coins before.
LEMMA TransferTotals ==
    ASSUME NEW f, GoodMap(f), TotalBalance(f) <= MaxU64, NEW tx, IsTx(tx)
    PROVE  LET r == apply_transfer(f, tx) IN Paid(f, r, tx.fee) \/ Refused(f, r)
<1> DEFINE acc == get_or_create_account(f, tx.sender)
           cost == tx.amount + tx.fee
           spent == Revised(acc, acc.balance - cost, acc.staked, acc.nonce + 1)
           debited == save_account(f, tx.sender, spent)
           credited == credit_account(debited, tx.receiver, tx.amount)
           r == apply_fee_split(credited.accts, tx.fee)
<1>1. \/ apply_transfer(f, tx) = Err(f)
      \/ /\ ~(acc.balance < cost)
         /\ credited.ok => apply_transfer(f, tx) = r
  BY DEF apply_transfer, sender_after_transfer
<1>2. ASSUME ~(acc.balance < cost) PROVE credited.ok /\ Paid(f, r, tx.fee)
  <2>1. /\ GoodAccount(acc) /\ acc.nonce = nonce_of(f, tx.sender)
        /\ acc.balance \in U64 /\ acc.balance \in Nat /\ acc.staked \in Nat /\ acc.nonce + 1 \in Nat
    BY GetGood, AccountFields DEF GoodAccount, nonce_of
  <2>2. cost \in Nat /\ tx.amount \in Nat /\ tx.fee \in Nat /\ cost = tx.amount + tx.fee
    BY WidthAssumption DEF IsTx, U64
  <2>3. tx.sender \in Address /\ tx.receiver \in Address
    BY DEF IsTx
  <2>. HIDE DEF acc, cost
  <2>4. acc.balance - cost \in U64
    BY <1>2, <2>1, <2>2, WidthAssumption DEF U64
  <2>5. GoodAccount(spent) /\ spent.nonce = nonce_of(f, tx.sender) + 1
    BY <2>1, <2>4, RevisedGood
  <2>6. spent.balance = acc.balance - cost /\ spent.staked = acc.staked
    BY DEF Revised
  <2>. HIDE DEF spent
  <2>7. Coins(spent) = Coins(acc) - cost
    BY <2>1, <2>2, <2>6 DEF Coins
  <2>8. /\ GoodMap(debited) /\ IsAccountMap(debited) /\ TotalBalance(f) \in Nat
        /\ TotalBalance(debited) = TotalBalance(f) - cost /\ Used(debited) = Used(f) + 1
    BY <2>2, <2>3, <2>5, <2>7, SenderSaved DEF acc
  <2>. HIDE DEF debited
  <2>9. TotalBalance(debited) + tx.amount <= MaxU64
    BY <2>2, <2>8, WidthAssumption
  <2>10. credited.ok /\ TotalBalance(credited.accts) = TotalBalance(debited) + tx.amount
    BY <2>2, <2>3, <2>8, <2>9, CreditTotals
  <2>11. Keeps(debited, credited.accts)
    BY <2>2, <2>3, <2>8, CreditKeeps
  <2>12. Used(credited.accts) = Used(debited)
    BY <2>8, <2>11, UsedKept
  <2>. DEFINE c == credited.accts
  <2>13. GoodMap(c) /\ IsAccountMap(c)
    BY <2>11 DEF Keeps, GoodMap
  <2>14. TotalBalance(c) = TotalBalance(f) - tx.fee /\ Used(c) = Used(f) + 1
    BY <2>2, <2>8, <2>10, <2>12
  <2>. HIDE DEF c
  <2>. DEFINE q == apply_fee_split(c, tx.fee)
  <2>15. TotalBalance(c) + tx.fee \div 10 <= MaxU64
    BY <2>2, <2>8, <2>14, WidthAssumption
  <2>16. q.ok /\ TotalBalance(q.accts) = TotalBalance(c) + tx.fee \div 10
    BY <2>2, <2>13, <2>15, FeeSplitTotals
  <2>17. Used(q.accts) = Used(c)
    BY <2>2, <2>13, FeeSplitKeeps, UsedKept
  <2>18. Paid(f, q, tx.fee)
    <3>. HIDE DEF q
    <3>. QED
      BY <2>14, <2>16, <2>17 DEF Paid
  <2>. QED
    BY <2>10, <2>18 DEF c
<1>. HIDE DEF r, credited
<1>. QED
  BY <1>1, <1>2 DEF Refused, Err

\* Every transaction is either paid for or has written nothing.
LEMMA TransactionTotals ==
    ASSUME NEW f, GoodMap(f), TotalBalance(f) <= MaxU64, NEW tx, IsTx(tx)
    PROVE  LET r == apply_transaction(f, tx) IN Paid(f, r, tx.fee) \/ Refused(f, r)
<1>1. apply_transaction(f, tx) \in {apply_transfer(f, tx), apply_stake_lock(f, tx),
                                   apply_stake_unlock(f, tx), apply_fee_only(f, tx)}
  BY DEF apply_transaction
<1>. QED
  BY <1>1, TransferTotals, StakeLockTotals, StakeUnlockTotals, FeeOnlyTotals

\* Saving an account with as many coins as before.
LEMMA SaveSameCoins ==
    ASSUME NEW f, IsAccountMap(f), NEW a \in Address, NEW acc \in Account,
           Coins(acc) = Coins(get_or_create_account(f, a))
    PROVE  TotalBalance(save_account(f, a, acc)) = TotalBalance(f)
<1> DEFINE old == get_or_create_account(f, a)
<1>1. /\ TotalBalance(f) \in Nat
      /\ TotalBalance(save_account(f, a, acc)) = TotalBalance(f) - Coins(old) + Coins(acc)
  BY SavedAccount
<1>2. Coins(old) \in Nat
  BY LoadedAccount, AccountFields DEF Coins
<1>. HIDE DEF old
<1>. QED
  BY <1>1, <1>2 DEF old

\* lock_stake and unlock_stake move coins inside an account, no nonce used.
LEMMA StakeCallTotals ==
    ASSUME NEW f, GoodMap(f), NEW a \in Address, NEW n \in U64, NEW g,
           g \in {lock_stake(f, a, n).accts, unlock_stake(f, a, n).accts}
    PROVE  TotalBalance(g) = TotalBalance(f) /\ Used(g) = Used(f)
<1> DEFINE acc == get_or_create_account(f, a)
           locked == update_validator_tier(
                       Revised(acc, acc.balance - n, acc.staked + n, acc.nonce))
           freed == update_validator_tier(
                      Revised(acc, acc.balance + n, acc.staked - n, acc.nonce))
<1>1. \/ g = f
      \/ acc.balance >= n /\ acc.staked + n \in U64 /\ g = save_account(f, a, locked)
      \/ acc.staked >= n /\ acc.balance + n \in U64 /\ g = save_account(f, a, freed)
  BY DEF lock_stake, unlock_stake, Ok, Err
<1>2. /\ acc \in Account /\ acc.balance \in U64 /\ acc.balance \in Nat
      /\ acc.staked \in U64 /\ acc.staked \in Nat /\ acc.nonce \in Nat
      /\ IsAccountMap(f) /\ acc.nonce = nonce_of(f, a)
  BY GetGood, AccountFields DEF GoodAccount, GoodMap, nonce_of
<1>3. n \in Nat
  BY WidthAssumption DEF U64
<1>4. ASSUME NEW new, GoodAccount(new), new.nonce = acc.nonce, Coins(new) = Coins(acc)
      PROVE  /\ TotalBalance(save_account(f, a, new)) = TotalBalance(f)
             /\ Used(save_account(f, a, new)) = Used(f)
  <2>. DEFINE h == save_account(f, a, new)
              F == [x \in Address |-> nonce_of(f, x)]
              H == [x \in Address |-> nonce_of(h, x)]
  <2>1. TotalBalance(h) = TotalBalance(f)
    BY <1>2, <1>4, SaveSameCoins DEF GoodAccount
  <2>2. GoodMap(h)
    BY <1>4, SaveGood
  <2>3. \A x \in Address : F[x] = H[x]
    BY <1>2, <1>4, SaveFields
  <2>. HIDE DEF h
  <2>4. Used(f) = SumFunctionOnSet(F, Address)
    BY UsedOverAddresses
  <2>5. Used(h) = SumFunctionOnSet(H, Address)
    BY <2>2, UsedOverAddresses
  <2>. HIDE DEF F, H
  <2>6. SumFunctionOnSet(F, Address) = SumFunctionOnSet(H, Address)
    BY <2>3, AddressAssumption, SumSame
  <2>. QED
    BY <2>1, <2>4, <2>5, <2>6 DEF h
<1>5. CASE acc.balance >= n /\ acc.staked + n \in U64 /\ g = save_account(f, a, locked)
  <2>. HIDE DEF acc
  <2>1. acc.balance - n \in U64
    BY <1>2, <1>3, <1>5, WidthAssumption DEF U64
  <2>2. GoodAccount(locked) /\ locked.nonce = acc.nonce
    BY <1>2, <1>5, <2>1, RevisedTierGood
  <2>3. locked.balance = acc.balance - n /\ locked.staked = acc.staked + n
    BY RevisedTierFields
  <2>. HIDE DEF locked
  <2>4. Coins(locked) = Coins(acc)
    BY <1>2, <1>3, <2>3 DEF Coins
  <2>. QED
    BY <1>4, <1>5, <2>2, <2>4
<1>6. CASE acc.staked >= n /\ acc.balance + n \in U64 /\ g = save_account(f, a, freed)
  <2>. HIDE DEF acc
  <2>1. acc.staked - n \in U64
    BY <1>2, <1>3, <1>6, WidthAssumption DEF U64
  <2>2. GoodAccount(freed) /\ freed.nonce = acc.nonce
    BY <1>2, <1>6, <2>1, RevisedTierGood
  <2>3. freed.balance = acc.balance + n /\ freed.staked = acc.staked - n
    BY RevisedTierFields
  <2>. HIDE DEF freed
  <2>4. Coins(freed) = Coins(acc)
    BY <1>2, <1>3, <2>3 DEF Coins
  <2>. QED
    BY <1>4, <1>6, <2>2, <2>4
<1>. QED
  BY <1>1, <1>5, <1>6

\* Taking n coins off a stake takes them out of the tree.
LEMMA LoweredTotals ==
    ASSUME NEW f, GoodMap(f), NEW a \in DOMAIN f, NEW n \in Nat, f[a].staked >= n
    PROVE  LET new == update_validator_tier([f[a] EXCEPT !.staked = @ - n])
               g == save_account(f, a, new)
           IN  /\ TotalBalance(f) \in Nat
               /\ TotalBalance(g) = TotalBalance(f) - n
               /\ Keeps(f, g) /\ Used(g) = Used(f)
<1> DEFINE new == update_validator_tier([f[a] EXCEPT !.staked = @ - n])
           g == save_account(f, a, new)
<1>1. new \in Account /\ Coins(new) = Coins(f[a]) - n /\ Keeps(f, g)
  BY LoweredKeeps
<1>. HIDE DEF new
<1>2. IsAccountMap(f) /\ a \in Address /\ get_or_create_account(f, a) = f[a]
  BY DEF GoodMap, IsAccountMap, get_or_create_account
<1>3. TotalBalance(f) \in Nat /\ TotalBalance(g) = TotalBalance(f) - Coins(f[a]) + Coins(new)
  BY <1>1, <1>2, SavedAccount
<1>4. Coins(f[a]) \in Nat
  BY AccountFields DEF Coins, GoodMap, GoodAccount
<1>5. Used(g) = Used(f)
  BY <1>1, UsedKept
<1>. HIDE DEF g
<1>6. TotalBalance(g) = TotalBalance(f) - n
  BY <1>1, <1>3, <1>4
<1>. QED
  BY <1>1, <1>3, <1>5, <1>6 DEF g, new

\* A slash moves stake to the treasury, or writes nothing.
LEMMA SlashTotals ==
    ASSUME NEW f, GoodMap(f), TotalBalance(f) <= MaxU64,
           NEW a \in DOMAIN f, NEW bps \in BasisPoints
    PROVE  LET r == slash_validator(f, a, bps) IN
           /\ TotalBalance(r.accts) = TotalBalance(f)
           /\ Used(r.accts) = Used(f)
           /\ ~r.ok => r.accts = f
<1> DEFINE acc == f[a]
           cut == slash_amount(acc.staked, bps)
           new == update_validator_tier([acc EXCEPT !.staked = @ - cut])
           slashed == save_account(f, a, new)
           paid == credit_account(slashed, Treasury, cut)
           r == slash_validator(f, a, bps)
<1>1. r \in {Err(f), Ok(f), paid}
  BY DEF slash_validator
<1>2. acc.staked \in U64 /\ acc.staked \in Nat
  BY AccountFields DEF GoodMap, GoodAccount
<1>3. cut \in Nat /\ cut <= acc.staked
  BY <1>2, SlashBound
<1>. HIDE DEF cut
<1>4. /\ TotalBalance(f) \in Nat /\ TotalBalance(slashed) = TotalBalance(f) - cut
      /\ Keeps(f, slashed)
  BY <1>2, <1>3, LoweredTotals
<1>. HIDE DEF slashed
<1>5. IsAccountMap(slashed) /\ TotalBalance(slashed) + cut <= MaxU64
  BY <1>3, <1>4, WidthAssumption DEF Keeps, GoodMap
<1>6. paid.ok /\ TotalBalance(paid.accts) = TotalBalance(slashed) + cut
  BY <1>3, <1>5, TreasuryAssumption, CreditTotals
<1>7. TotalBalance(paid.accts) = TotalBalance(f)
  BY <1>3, <1>4, <1>6
<1>8. Keeps(f, r.accts)
  BY SlashKeeps
<1>9. Used(r.accts) = Used(f)
  BY <1>8, UsedKept
<1>. HIDE DEF r, paid
<1>10. TotalBalance(r.accts) = TotalBalance(f) /\ (~r.ok => r.accts = f)
  BY <1>1, <1>6, <1>7 DEF Err, Ok
<1>. QED
  BY <1>9, <1>10 DEF r

\* The rewards of an epoch block that fit: reward and share all arrive.
LEMMA EpochRewardsTotals ==
    ASSUME NEW f, GoodMap(f), NEW miner \in Address, NEW reward \in Nat, NEW fees \in Nat,
           TotalBalance(f) + reward + calculate_validator_fee_share(fees) <= MaxU64
    PROVE  LET r == apply_epoch_rewards(f, Coinbase(miner, reward), fees) IN
           /\ r.ok
           /\ TotalBalance(r.accts)
                = TotalBalance(f) + reward + calculate_validator_fee_share(fees)
<1> DEFINE mined == apply_coinbase(f, Coinbase(miner, reward), 0)
           f1 == mined.accts
           share == calculate_validator_fee_share(fees)
           credits == reward_credits(f1, share)
           staked == CreditAll(f1, credits)
           f2 == staked.accts
           c == TotalAmount(credits)
           leftover == share - c
           settled == credit_account(f2, Treasury, leftover)
           r == apply_epoch_rewards(f, Coinbase(miner, reward), fees)
<1>1. r = IF ~mined.ok THEN mined
          ELSE IF ~staked.ok \/ leftover <= 0 THEN staked ELSE settled
  BY DEF apply_epoch_rewards
<1>2. share \in Nat
  BY ShareBound
<1>. HIDE DEF share
<1>3. TotalBalance(f) \in Nat /\ IsAccountMap(f)
  BY HoldingBound, TreasuryAssumption DEF GoodMap
<1>4. TotalBalance(f) + reward + share <= MaxU64
  BY DEF share
<1>5. mined.ok /\ TotalBalance(f1) = TotalBalance(f) + reward /\ Keeps(f, f1)
  <2>1. CASE reward > 0
    <3>1. mined = credit_account(f, miner, reward)
      BY <2>1, CoinbaseCredits
    <3>2. TotalBalance(f) + reward <= MaxU64
      BY <1>2, <1>3, <1>4, WidthAssumption
    <3>3. mined.ok /\ TotalBalance(f1) = TotalBalance(f) + reward
      BY <1>3, <3>1, <3>2, CreditTotals
    <3>. QED
      BY <3>1, <3>3, CreditKeeps
  <2>2. CASE ~(reward > 0)
    <3>1. mined = Ok(f) /\ reward = 0
      BY <2>2, CoinbaseCredits
    <3>. QED
      BY <1>3, <3>1, StayGood DEF Ok
  <2>. QED
    BY <2>1, <2>2
<1>. HIDE DEF f1
<1>6. GoodMap(f1) /\ IsAccountMap(f1)
  BY <1>5 DEF Keeps, GoodMap
<1>7. IsCredits(credits) /\ c \in Nat /\ c <= share
  BY <1>2, <1>6, RewardCredits
<1>. HIDE DEF credits, c
<1>8. TotalBalance(f1) + c <= MaxU64
  BY <1>2, <1>3, <1>4, <1>5, <1>7, WidthAssumption
<1>9. staked.ok /\ IsAccountMap(f2) /\ TotalBalance(f2) = TotalBalance(f1) + c
  BY <1>6, <1>7, <1>8, CreditAllTotals DEF c
<1>10. CASE leftover <= 0
  <2>1. r = staked /\ c = share
    BY <1>1, <1>2, <1>5, <1>7, <1>9, <1>10
  <2>. HIDE DEF r, staked
  <2>2. r.ok /\ TotalBalance(r.accts) = TotalBalance(f) + reward + share
    BY <1>3, <1>5, <1>7, <1>9, <2>1
  <2>. QED
    BY <2>2 DEF r, share
<1>11. CASE ~(leftover <= 0)
  <2>1. r = settled
    BY <1>1, <1>5, <1>9, <1>11
  <2>2. leftover \in Nat /\ c + leftover = share
    BY <1>2, <1>7, <1>11
  <2>. HIDE DEF leftover, f2
  <2>3. TotalBalance(f2) + leftover <= MaxU64
    BY <1>3, <1>4, <1>5, <1>7, <1>9, <2>2, WidthAssumption
  <2>4. settled.ok /\ TotalBalance(settled.accts) = TotalBalance(f2) + leftover
    BY <1>9, <2>2, <2>3, TreasuryAssumption, CreditTotals
  <2>. HIDE DEF r, settled
  <2>5. r.ok /\ TotalBalance(r.accts) = TotalBalance(f) + reward + share
    BY <1>3, <1>5, <1>7, <1>9, <2>1, <2>2, <2>4
  <2>. QED
    BY <2>5 DEF r, share
<1>. QED
  BY <1>10, <1>11

-----------------------------------------------------------------------------
(***************************************************************************)
(* Coins are conserved.  No credit overflows because all coins together    *)
(* fit in a u64, and all coins together fit because none was created: the  *)
(* two are proved together.  The induction needs the issued amount to be   *)
(* the part of the schedule paid so far, and the unsettled fees to be part *)
(* of the fees paid, since their burn is what makes room for the share.    *)
(***************************************************************************)
\* The rewards of the epoch blocks the model can make, one more included.
Schedule == [e \in 1..(MaxEpoch + 1) |-> calculate_block_reward(e)]

\* The genesis allocation and the whole schedule fit in a u64.
SupplyFits == TotalBalance(Genesis) + SumFunction(Schedule) <= MaxU64

\* The fees of one epoch fit in a u64 after the multiplication by 40.
FeesFit == 40 * fee_pool <= MaxU64

\* The inductive invariant.
CoinInv ==
    /\ issued = TotalBalance(Genesis) + SumFunctionOnSet(Schedule, 1..epoch)
    /\ fees_paid \in Nat
    /\ fee_pool <= fees_paid
    /\ BurnAtLeastHalf

\* What has been issued never exceeds the supply, the next reward included.
LEMMA IssuedFits ==
    ASSUME SupplyFits, NEW e \in 0..MaxEpoch,
           NEW i, i = TotalBalance(Genesis) + SumFunctionOnSet(Schedule, 1..e)
    PROVE  LET reward == calculate_block_reward(e + 1) IN
           /\ i \in Nat /\ reward \in Nat
           /\ i + reward <= MaxU64
           /\ i + reward = TotalBalance(Genesis) + SumFunctionOnSet(Schedule, 1..(e + 1))
<1> DEFINE S == 1..(MaxEpoch + 1)
           R == 1..(e + 1)
           reward == calculate_block_reward(e + 1)
<1>1. e \in Nat /\ e + 1 \in S /\ R \in SUBSET S /\ e + 1 \in R /\ R \ {e + 1} = 1..e
  BY BoundsAssumption
<1>2. IsFiniteSet(S) /\ IsFiniteSet(R)
  BY <1>1, BoundsAssumption, FS_Interval, FS_Subset
<1>3. \A x \in S : Schedule[x] \in Nat
  BY RewardType, BoundsAssumption DEF Schedule
<1>4. Schedule[e + 1] = reward
  BY <1>1 DEF Schedule
<1>5. SumFunction(Schedule) = SumFunctionOnSet(Schedule, S)
  BY DEF SumFunction, Schedule
<1>6. TotalBalance(Genesis) \in Nat
  BY GenesisAssumption, HoldingBound, TreasuryAssumption
<1>. HIDE DEF S, R
<1>7. SumFunctionOnSet(Schedule, R) \in Nat
      /\ SumFunctionOnSet(Schedule, R) <= SumFunctionOnSet(Schedule, S)
  BY <1>1, <1>2, <1>3, SumSubset
<1>8. SumFunctionOnSet(Schedule, R) = Schedule[e + 1] + SumFunctionOnSet(Schedule, 1..e)
  <2>1. \A x \in R : Schedule[x] \in Int
    BY <1>1, <1>3
  <2>. QED
    BY <1>1, <1>2, <2>1, SumRemove
<1>9. SumFunctionOnSet(Schedule, 1..e) \in Nat
  <2>1. 1..e \in SUBSET R
    BY <1>1
  <2>2. \A x \in R : Schedule[x] \in Nat
    BY <1>1, <1>3
  <2>. QED
    BY <1>2, <2>1, <2>2, SumSubset
<1>10. SumFunctionOnSet(Schedule, S) \in Nat
  BY <1>2, <1>3, SumNat
<1>11. reward \in Nat
  BY <1>1, <1>3, <1>4
<1>. HIDE DEF reward
<1>12. /\ i \in Nat /\ i + reward <= MaxU64
       /\ i + reward = TotalBalance(Genesis) + SumFunctionOnSet(Schedule, R)
  BY <1>4, <1>5, <1>6, <1>7, <1>8, <1>9, <1>10, <1>11, WidthAssumption DEF SupplyFits
<1>. QED
  BY <1>11, <1>12 DEF reward, R

\* In a state that satisfies the invariants all coins, withdrawals included, and
\* the next epoch block's reward and share fit in a u64.
LEMMA Room ==
    ASSUME SupplyFits, IInv, CoinInv
    PROVE  LET reward == calculate_block_reward(epoch + 1)
               share == calculate_validator_fee_share(fee_pool)
           IN  /\ TotalBalance(accounts) \in Nat /\ Unbonding \in Nat
               /\ reward \in Nat /\ share \in Nat /\ issued \in Nat
               /\ 10 * share <= 4 * fee_pool
               /\ FeesFit => 10 * share + 10 >= 4 * fee_pool
               /\ TotalBalance(accounts) + Unbonding + reward + share <= MaxU64
<1> DEFINE reward == calculate_block_reward(epoch + 1)
           share == calculate_validator_fee_share(fee_pool)
<1>1. fee_pool \in Nat /\ fees_paid \in Nat /\ fee_pool <= fees_paid /\ epoch \in 0..MaxEpoch
  BY DEF IInv, TypeOK, CoinInv
<1>2. issued \in Nat /\ reward \in Nat /\ issued + reward <= MaxU64
  BY <1>1, IssuedFits DEF CoinInv
<1>3. /\ share \in Nat /\ 10 * share <= 4 * fee_pool
      /\ FeesFit => 10 * share + 10 >= 4 * fee_pool
  BY <1>1, ShareBound DEF FeesFit
<1>4. TotalBalance(accounts) \in Nat
  BY HoldingBound, TreasuryAssumption DEF IInv, TypeOK
<1>5. Unbonding \in Nat
  <2>1. \A k \in DOMAIN pending : pending[k] \in Nat
    BY WidthAssumption DEF IInv, TypeOK, U64
  <2>2. IsFiniteSet(DOMAIN pending)
    BY PendingFinite DEF IInv
  <2>. QED
    BY <2>1, <2>2, SumNat DEF Unbonding, SumFunction
<1>6. 10 * (issued - TotalBalance(accounts) - Unbonding) >= 5 * fees_paid + 4 * fee_pool
  BY DEF CoinInv, BurnAtLeastHalf, Burned
<1>. HIDE DEF reward, share
<1>7. TotalBalance(accounts) + Unbonding + reward + share <= MaxU64
  BY <1>1, <1>2, <1>3, <1>4, <1>5, <1>6, WidthAssumption
<1>. QED
  BY <1>2, <1>3, <1>4, <1>5, <1>7 DEF reward, share

\* In such a state no call fails after its first write.
LEMMA InvAllOrNothing ==
    ASSUME SupplyFits, IInv, CoinInv
    PROVE  AllOrNothing
<1> DEFINE e == epoch + 1
           reward == calculate_block_reward(e)
           share == calculate_validator_fee_share(fee_pool)
           credits == maturity_credits(pending, e)
<1>1. /\ TotalBalance(accounts) \in Nat /\ Unbonding \in Nat
      /\ reward \in Nat /\ share \in Nat
      /\ TotalBalance(accounts) + Unbonding + reward + share <= MaxU64
  BY Room
<1>2. GoodMap(accounts) /\ IsAccountMap(accounts) /\ TypeOK /\ PendingWithinWindow
  BY GoodState DEF IInv, TypeOK
<1>3. TotalBalance(accounts) <= MaxU64
  <2>. HIDE DEF reward, share
  <2>. QED
    BY <1>1, WidthAssumption
<1>4. ASSUME NEW tx \in Txs
      PROVE  LET r == apply_transaction(accounts, tx) IN ~r.ok => r.accts = accounts
  <2>. DEFINE r == apply_transaction(accounts, tx)
  <2>1. Paid(accounts, r, tx.fee) \/ Refused(accounts, r)
    BY <1>2, <1>3, TxsTypes, TransactionTotals
  <2>. HIDE DEF r
  <2>2. ~r.ok => r.accts = accounts
    BY <2>1 DEF Paid, Refused
  <2>. QED
    BY <2>2 DEF r
<1>5. ASSUME NEW a \in Users \cap DOMAIN accounts, NEW bps \in SlashBps
      PROVE  LET r == slash_validator(accounts, a, bps) IN ~r.ok => r.accts = accounts
  <2>1. bps \in BasisPoints
    BY CallsAssumption DEF BasisPoints
  <2>. QED
    BY <1>2, <1>3, <2>1, SlashTotals
<1>6. ASSUME NEW miner \in Users
      PROVE  apply_epoch_rewards(accounts, Coinbase(miner, reward), fee_pool).ok
  <2>1. miner \in Address /\ fee_pool \in Nat
    BY <1>2, CallsAssumption DEF TypeOK
  <2>2. TotalBalance(accounts) + reward + share <= MaxU64
    <3>. HIDE DEF reward, share
    <3>. QED
      BY <1>1, WidthAssumption
  <2>. HIDE DEF reward
  <2>. QED
    BY <1>1, <1>2, <2>1, <2>2, EpochRewardsTotals
<1>7. CreditAll(accounts, credits).ok
  <2>1. IsCredits(credits) /\ TotalAmount(credits) = SumFunctionOnSet(pending, matured(pending, e))
    BY <1>2, MaturityCredits
  <2>2. /\ SumFunctionOnSet(pending, matured(pending, e)) \in Nat
        /\ SumFunctionOnSet(pending, matured(pending, e)) <= Unbonding
    <3>1. matured(pending, e) \in SUBSET DOMAIN pending
      BY DEF matured
    <3>2. \A k \in DOMAIN pending : pending[k] \in Nat
      BY <1>2, WidthAssumption DEF TypeOK, U64
    <3>3. IsFiniteSet(DOMAIN pending)
      BY <1>2, PendingFinite
    <3>. QED
      BY <3>1, <3>2, <3>3, SumSubset DEF Unbonding, SumFunction
  <2>. HIDE DEF credits
  <2>3. TotalBalance(accounts) + TotalAmount(credits) <= MaxU64
    <3>. HIDE DEF reward, share, e
    <3>. QED
      BY <1>1, <2>1, <2>2, WidthAssumption
  <2>. QED
    BY <1>2, <2>1, <2>3, CreditAllTotals
<1>. QED
  BY <1>4, <1>5, <1>6, <1>7 DEF AllOrNothing, build_coinbase, Coinbase

\* The four things a step can do to the coins: a paid transaction,
PaidStep ==
    \E fee \in Nat :
        /\ TotalBalance(accounts') = TotalBalance(accounts) - fee + fee \div 10
        /\ Used(accounts') = Used(accounts) + 1
        /\ fee_pool' = fee_pool + fee /\ fees_paid' = fees_paid + fee
        /\ UNCHANGED <<pending, epoch, issued>>

\* coins moved inside the tree and the queue,
MovedStep ==
    /\ TotalBalance(accounts') + SumFunction(pending') = TotalBalance(accounts) + Unbonding
    /\ Used(accounts') = Used(accounts)
    /\ UNCHANGED <<epoch, fee_pool, issued, fees_paid>>

\* a withdrawal overwritten by a second request of the same epoch,
OverwrittenStep ==
    /\ ~SpacedRequests
    /\ TotalBalance(accounts') + SumFunction(pending') \in Int
    /\ TotalBalance(accounts') + SumFunction(pending') <= TotalBalance(accounts) + Unbonding
    /\ Used(accounts') = Used(accounts)
    /\ UNCHANGED <<epoch, fee_pool, issued, fees_paid>>

\* and an epoch block.
EpochStep ==
    LET reward == calculate_block_reward(epoch + 1)
        share == calculate_validator_fee_share(fee_pool)
    IN  /\ TotalBalance(accounts') + SumFunction(pending')
             = TotalBalance(accounts) + Unbonding + reward + share
        /\ Used(accounts') = Used(accounts)
        /\ epoch < MaxEpoch /\ epoch' = epoch + 1
        /\ fee_pool' = 0 /\ issued' = issued + reward
        /\ UNCHANGED fees_paid

\* A second request overwrites, a first one is added: what the queue then holds.
LEMMA QueuedTotals ==
    ASSUME TypeOK, PendingWithinWindow, NEW k, NEW n \in Nat,
           NEW p, p = save_pending_unstake(pending, k, n)
    PROVE  /\ Unbonding \in Nat
           /\ SumFunction(p) \in Int
           /\ SumFunction(p) <= Unbonding + n
           /\ k \notin DOMAIN pending => SumFunction(p) = Unbonding + n
<1>1. p = [j \in DOMAIN pending \cup {k} |-> IF j = k THEN n ELSE pending[j]]
  BY DEF save_pending_unstake
<1>2. IsFiniteSet(DOMAIN pending) /\ \A j \in DOMAIN pending : pending[j] \in Nat
  BY PendingFinite, WidthAssumption DEF TypeOK, U64
<1>3. SumFunction(pending) \in Nat
  BY <1>2, SumNat DEF SumFunction
<1>4. SumFunction(p) = SumFunction(pending)
                         - (IF k \in DOMAIN pending THEN pending[k] ELSE 0) + n
  <2>1. n \in Int /\ \A j \in DOMAIN pending : pending[j] \in Int
    BY <1>2
  <2>. QED
    BY <1>1, <1>2, <2>1, SumWrite
<1>. QED
  BY <1>2, <1>3, <1>4 DEF Unbonding

\* What an epoch block leaves in the queue.
LEMMA ReleasedTotals ==
    ASSUME TypeOK, PendingWithinWindow, NEW e,
           NEW p, p = Restrict(pending, DOMAIN pending \ matured(pending, e))
    PROVE  LET out == SumFunctionOnSet(pending, matured(pending, e)) IN
           out \in Nat /\ SumFunction(p) \in Nat /\ Unbonding = out + SumFunction(p)
<1> DEFINE M == matured(pending, e)
           L == DOMAIN pending \ M
<1>1. p = [j \in L |-> pending[j]] /\ M \in SUBSET DOMAIN pending /\ L \in SUBSET DOMAIN pending
  BY DEF Restrict, matured
<1>2. IsFiniteSet(DOMAIN pending) /\ \A j \in DOMAIN pending : pending[j] \in Nat
  BY PendingFinite, WidthAssumption DEF TypeOK, U64
<1>3. IsFiniteSet(L)
  BY <1>1, <1>2, FS_Subset
<1>4. SumFunction(p) = SumFunctionOnSet(p, L)
  BY <1>1 DEF SumFunction
<1>5. \A j \in L : p[j] = pending[j]
  BY <1>1
<1>6. Unbonding = SumFunctionOnSet(pending, M) + SumFunctionOnSet(pending, L)
  <2>1. \A j \in DOMAIN pending : pending[j] \in Int
    BY <1>2
  <2>. HIDE DEF M
  <2>. QED
    BY <1>1, <1>2, <2>1, SumSplit DEF Unbonding, SumFunction
<1>. HIDE DEF L, M
<1>7. SumFunctionOnSet(p, L) = SumFunctionOnSet(pending, L)
  BY <1>3, <1>5, SumSame
<1>8. SumFunctionOnSet(pending, M) \in Nat
  BY <1>1, <1>2, SumSubset
<1>9. SumFunctionOnSet(pending, L) \in Nat
  BY <1>1, <1>2, SumSubset
<1>. QED
  BY <1>4, <1>6, <1>7, <1>8, <1>9 DEF M

\* Every step is one of the four.
LEMMA CoinStep ==
    ASSUME SupplyFits, IInv, CoinInv, Next
    PROVE  PaidStep \/ MovedStep \/ OverwrittenStep \/ EpochStep
<1> DEFINE e == epoch + 1
           reward == calculate_block_reward(e)
           share == calculate_validator_fee_share(fee_pool)
           T == TotalBalance(accounts)
<1>1. /\ T \in Nat /\ Unbonding \in Nat /\ reward \in Nat /\ share \in Nat
      /\ T + Unbonding + reward + share <= MaxU64
  BY Room
<1>2. GoodMap(accounts) /\ IsAccountMap(accounts) /\ TypeOK /\ PendingWithinWindow
  BY GoodState DEF IInv, TypeOK
<1>3. T <= MaxU64 /\ T + reward + share <= MaxU64
  <2>. HIDE DEF reward, share, T
  <2>. QED
    BY <1>1, WidthAssumption
<1>4. ASSUME NEW g, accounts' = g, TotalBalance(g) = T, Used(g) = Used(accounts),
             UNCHANGED <<pending, epoch, fee_pool, issued, fees_paid>>
      PROVE  MovedStep
  BY <1>4 DEF MovedStep, Unbonding
<1>5. ASSUME NEW tx \in Txs, ApplyTransaction(tx) PROVE PaidStep \/ MovedStep
  <2>. DEFINE r == apply_transaction(accounts, tx)
  <2>1. /\ accounts' = r.accts
        /\ fee_pool' = IF r.ok THEN fee_pool + tx.fee ELSE fee_pool
        /\ fees_paid' = IF r.ok THEN fees_paid + tx.fee ELSE fees_paid
        /\ UNCHANGED <<pending, epoch, issued>>
    BY <1>5 DEF ApplyTransaction
  <2>2. Paid(accounts, r, tx.fee) \/ Refused(accounts, r)
    BY <1>2, <1>3, TxsTypes, TransactionTotals
  <2>3. tx.fee \in Nat
    BY TxsTypes, WidthAssumption DEF IsTx, U64
  <2>. HIDE DEF r
  <2>4. CASE Paid(accounts, r, tx.fee)
    BY <2>1, <2>3, <2>4 DEF Paid, PaidStep
  <2>5. CASE Refused(accounts, r)
    BY <1>4, <2>1, <2>5 DEF Refused
  <2>. QED
    BY <2>2, <2>4, <2>5
<1>6. ASSUME NEW a \in Users, NEW n \in Amounts, LockStake(a, n) \/ UnlockStake(a, n)
      PROVE  MovedStep
  <2>1. PICK g : /\ accounts' = g
                 /\ g \in {lock_stake(accounts, a, n).accts, unlock_stake(accounts, a, n).accts}
                 /\ UNCHANGED <<pending, epoch, fee_pool, issued, fees_paid>>
    BY <1>6 DEF LockStake, UnlockStake
  <2>2. a \in Address /\ n \in U64
    BY CallsAssumption
  <2>3. TotalBalance(g) = T /\ Used(g) = Used(accounts)
    BY <1>2, <2>1, <2>2, StakeCallTotals
  <2>. QED
    BY <1>4, <2>1, <2>3
<1>7. ASSUME NEW a \in Users, NEW n \in Amounts, RequestUnstake(a, n)
      PROVE  MovedStep \/ OverwrittenStep
  <2>. DEFINE new == update_validator_tier([accounts[a] EXCEPT !.staked = @ - n])
              k == <<a, epoch>>
  <2>1. /\ a \in DOMAIN accounts /\ accounts[a].staked >= n
        /\ SpacedRequests => k \notin DOMAIN pending
        /\ UNCHANGED <<epoch, fee_pool, issued, fees_paid>>
    BY <1>7 DEF RequestUnstake
  <2>2. PICK g, p : /\ accounts' = g /\ g = save_account(accounts, a, new)
                    /\ pending' = p /\ p = save_pending_unstake(pending, k, n)
    BY <1>7 DEF RequestUnstake
  <2>3. n \in Nat
    BY CallsAssumption, WidthAssumption DEF U64
  <2>4. TotalBalance(g) = T - n /\ Used(g) = Used(accounts)
    BY <1>2, <2>1, <2>2, <2>3, LoweredTotals
  <2>. HIDE DEF k
  <2>5. /\ SumFunction(p) \in Int /\ SumFunction(p) <= Unbonding + n
        /\ k \notin DOMAIN pending => SumFunction(p) = Unbonding + n
    BY <1>2, <2>2, <2>3, QueuedTotals
  <2>. HIDE DEF T
  <2>6. CASE k \notin DOMAIN pending
    <3>1. TotalBalance(g) + SumFunction(p) = T + Unbonding
      BY <1>1, <2>3, <2>4, <2>5, <2>6
    <3>. QED
      BY <2>1, <2>2, <2>4, <3>1 DEF MovedStep, T
  <2>7. CASE k \in DOMAIN pending
    <3>1. /\ TotalBalance(g) + SumFunction(p) \in Int
          /\ TotalBalance(g) + SumFunction(p) <= T + Unbonding
      BY <1>1, <2>3, <2>4, <2>5
    <3>2. ~SpacedRequests
      BY <2>1, <2>7
    <3>. QED
      BY <2>1, <2>2, <2>4, <3>1, <3>2 DEF OverwrittenStep, T
  <2>. QED
    BY <2>6, <2>7
<1>8. ASSUME NEW a \in Users, NEW bps \in SlashBps, SlashValidator(a, bps) PROVE MovedStep
  <2>1. bps \in BasisPoints
    BY CallsAssumption DEF BasisPoints
  <2>2. PICK g : /\ a \in DOMAIN accounts /\ accounts' = g
                 /\ g = slash_validator(accounts, a, bps).accts
                 /\ UNCHANGED <<pending, epoch, fee_pool, issued, fees_paid>>
    BY <1>8 DEF SlashValidator
  <2>3. TotalBalance(g) = T /\ Used(g) = Used(accounts)
    BY <1>2, <1>3, <2>1, <2>2, SlashTotals
  <2>. QED
    BY <1>4, <2>2, <2>3
<1>9. ASSUME NEW miner \in Users, EpochBlock(miner) PROVE EpochStep
  <2>. DEFINE rewarded == apply_epoch_rewards(accounts, Coinbase(miner, reward), fee_pool)
              mid == rewarded.accts
              credits == maturity_credits(pending, e)
              released == CreditAll(mid, credits)
              out == SumFunctionOnSet(pending, matured(pending, e))
              left == Restrict(pending, DOMAIN pending \ matured(pending, e))
  <2>1. epoch < MaxEpoch
    BY <1>9 DEF EpochBlock
  <2>2. miner \in Address /\ fee_pool \in Nat
    BY <1>2, CallsAssumption DEF TypeOK
  <2>. HIDE DEF reward
  <2>3. rewarded.ok /\ TotalBalance(mid) = T + reward + share
    BY <1>1, <1>2, <1>3, <2>2, EpochRewardsTotals
  <2>4. Keeps(accounts, mid)
    BY <1>1, <1>2, <2>2, EpochRewardsKeeps
  <2>5. IsCredits(credits) /\ TotalAmount(credits) = out
    BY <1>2, MaturityCredits
  <2>6. out \in Nat /\ SumFunction(left) \in Nat /\ Unbonding = out + SumFunction(left)
    BY <1>2, ReleasedTotals
  <2>. DEFINE new == released.accts
  <2>7. released.ok /\ TotalBalance(new) = T + reward + share + out /\ Keeps(mid, new)
    <3>. HIDE DEF share, T, out, left, credits, mid
    <3>1. GoodMap(mid) /\ IsAccountMap(mid)
      BY <2>4 DEF Keeps, GoodMap
    <3>2. TotalBalance(mid) + TotalAmount(credits) <= MaxU64
      BY <1>1, <2>3, <2>5, <2>6, WidthAssumption
    <3>3. released.ok /\ TotalBalance(new) = TotalBalance(mid) + TotalAmount(credits)
      BY <2>5, <3>1, <3>2, CreditAllTotals
    <3>4. Keeps(mid, new)
      BY <2>5, <3>1, CreditAllKeeps
    <3>. QED
      BY <2>3, <2>5, <3>3, <3>4
  <2>8. Used(new) = Used(accounts)
    <3>. HIDE DEF mid, new
    <3>1. Keeps(accounts, new)
      BY <1>2, <2>4, <2>7, KeepsTrans
    <3>. QED
      BY <1>2, <3>1, UsedKept
  <2>9. /\ accounts' = new /\ pending' = left /\ epoch' = e
        /\ fee_pool' = 0 /\ issued' = issued + reward /\ UNCHANGED fees_paid
    <3>1. /\ accounts' = IF rewarded.ok THEN new ELSE mid
          /\ rewarded.ok /\ released.ok
               => /\ pending' = left /\ epoch' = e
                  /\ fee_pool' = 0 /\ issued' = issued + reward
          /\ UNCHANGED fees_paid
      BY <1>9 DEF EpochBlock, build_coinbase, Coinbase, reward
    <3>. HIDE DEF rewarded, released, new, left, mid
    <3>. QED
      BY <2>3, <2>7, <3>1
  <2>. HIDE DEF new, left, out, T, share
  <2>10. TotalBalance(new) + SumFunction(left) = T + Unbonding + reward + share
    BY <1>1, <2>6, <2>7
  <2>. QED
    BY <2>1, <2>8, <2>9, <2>10 DEF EpochStep, T, share, reward
<1>. QED
  BY <1>5, <1>6, <1>7, <1>8, <1>9 DEF Next

\* The initial state satisfies the invariant.
LEMMA CoinInvInit == Init => CoinInv /\ NoCoinLost
<1>. SUFFICES ASSUME Init PROVE CoinInv /\ NoCoinLost
  OBVIOUS
<1>1. TotalBalance(Genesis) \in Nat
  BY GenesisAssumption, HoldingBound, TreasuryAssumption
<1>2. SumFunctionOnSet(Schedule, 1..0) = 0
  <2>1. 1..0 = {}
    OBVIOUS
  <2>. QED
    BY <2>1, SumEmpty
<1>3. Unbonding = 0
  <2>1. DOMAIN pending = {}
    BY DEF Init
  <2>. QED
    BY <2>1, SumEmpty DEF Unbonding, SumFunction
<1>4. GoodMap(accounts)
  BY GenesisAssumption, GenesisTierAssumption DEF Init, GoodMap, IsAccountMap, GoodAccount
<1>5. Applied = Used(accounts) /\ Used(accounts) \in Nat
  BY <1>4, UsedOverAddresses DEF Applied, Used
<1>6. /\ issued = TotalBalance(Genesis) /\ TotalBalance(accounts) = TotalBalance(Genesis)
      /\ epoch = 0 /\ fees_paid = 0 /\ fee_pool = 0
  BY DEF Init
<1>7. Burned = 0
  BY <1>1, <1>3, <1>6 DEF Burned
<1>8. CoinInv
  BY <1>1, <1>2, <1>6, <1>7 DEF CoinInv, BurnAtLeastHalf
<1>9. NoCoinLost
  BY <1>5, <1>6, <1>7 DEF NoCoinLost
<1>. QED
  BY <1>8, <1>9

\* The two bounds on what has left circulation, as arithmetic: i coins issued, h
\* held, f fees paid, p of them unsettled, d units of dust allowed.
Lower(i, h, f, p) == 10 * (i - h) >= 5 * f + 4 * p
Upper(i, h, f, p, d) == 10 * (i - h) <= 5 * f + 4 * p + 10 * d

\* Nine tenths of a fee, rounded up, keep both bounds with one more unit of dust.
LEMMA PaidBounds ==
    ASSUME NEW i \in Int, NEW h \in Int, NEW f \in Int, NEW p \in Int, NEW d \in Int,
           NEW fee \in Nat, NEW h1 \in Int, h1 = h - fee + fee \div 10
    PROVE  /\ Lower(i, h, f, p) => Lower(i, h1, f + fee, p + fee)
           /\ Upper(i, h, f, p, d) => Upper(i, h1, f + fee, p + fee, d + 1)
  BY DEF Lower, Upper

\* So do a reward that is issued and a share of four tenths of the unsettled fees.
LEMMA EpochBounds ==
    ASSUME NEW i \in Int, NEW h \in Int, NEW f \in Int, NEW p \in Int, NEW d \in Int,
           NEW reward \in Int, NEW share \in Int, 10 * share <= 4 * p
    PROVE  /\ Lower(i, h, f, p) => Lower(i + reward, h + reward + share, f, 0)
           /\ 10 * share + 10 >= 4 * p /\ Upper(i, h, f, p, d)
                => Upper(i + reward, h + reward + share, f, 0, d + 1)
  BY DEF Lower, Upper

\* A step creates no coins, and loses none where callers keep to one request per
\* address and epoch and the fee arithmetic does not wrap.
LEMMA CoinInvStep ==
    ASSUME SupplyFits, IInv, CoinInv, [Next]_vars
    PROVE  CoinInv' /\ (SpacedRequests /\ FeesFit /\ NoCoinLost => NoCoinLost')
<1> DEFINE Goal == CoinInv' /\ (SpacedRequests /\ FeesFit /\ NoCoinLost => NoCoinLost')
<1>1. PICK t \in Nat, u \in Nat, n \in Nat, e \in Nat, i \in Nat, f \in Nat, p \in Nat,
           r \in Nat, s \in Nat :
        /\ t = TotalBalance(accounts) /\ u = Unbonding /\ n = Used(accounts) /\ e = epoch
        /\ i = issued /\ f = fees_paid /\ p = fee_pool
        /\ r = calculate_block_reward(epoch + 1)
        /\ s = calculate_validator_fee_share(fee_pool)
        /\ 10 * s <= 4 * p /\ (FeesFit => 10 * s + 10 >= 4 * p)
  <2>1. /\ TotalBalance(accounts) \in Nat /\ Unbonding \in Nat
        /\ calculate_block_reward(epoch + 1) \in Nat
        /\ calculate_validator_fee_share(fee_pool) \in Nat /\ issued \in Nat
        /\ 10 * calculate_validator_fee_share(fee_pool) <= 4 * fee_pool
        /\ FeesFit => 10 * calculate_validator_fee_share(fee_pool) + 10 >= 4 * fee_pool
    BY Room
  <2>2. Used(accounts) \in Nat
    BY GoodState, UsedOverAddresses DEF IInv
  <2>3. epoch \in Nat /\ fee_pool \in Nat /\ fees_paid \in Nat
    BY BoundsAssumption DEF IInv, TypeOK, CoinInv
  <2>. QED
    BY <2>1, <2>2, <2>3
<1>2. /\ epoch \in 0..MaxEpoch /\ p <= f
      /\ i = TotalBalance(Genesis) + SumFunctionOnSet(Schedule, 1..epoch)
  BY <1>1 DEF IInv, TypeOK, CoinInv
<1>3. PICK t1 \in Nat, u1 \in Nat : t1 = TotalBalance(accounts') /\ u1 = SumFunction(pending')
  <2>1. IInv'
    BY IInvStep
  <2>2. PICK g, q, c :
          /\ g = accounts' /\ q = pending' /\ IsAccountMap(g) /\ c \in Nat
          /\ DOMAIN q \subseteq Address \X Nat /\ q \in [DOMAIN q -> U64]
          /\ \A k \in DOMAIN q : k[2] <= c
    BY <2>1, BoundsAssumption DEF IInv, TypeOK, PendingWithinWindow
  <2>3. TotalBalance(g) \in Nat /\ SumFunction(q) \in Nat
    BY <2>2, HoldingBound, TreasuryAssumption, QueueFinite
  <2>. QED
    BY <2>2, <2>3
<1>4. Lower(i, t + u, f, p) /\ (NoCoinLost => Upper(i, t + u, f, p, n + e))
  <2>1. Burned = i - t - u /\ Applied = n
    BY <1>1 DEF Burned, Applied, Used
  <2>2. 10 * (i - t - u) >= 5 * f + 4 * p
    BY <1>1, <2>1 DEF CoinInv, BurnAtLeastHalf
  <2>3. NoCoinLost => 10 * (i - t - u) <= 5 * f + 4 * p + 10 * (n + e)
    BY <1>1, <2>1 DEF NoCoinLost
  <2>. QED
    BY <2>2, <2>3 DEF Lower, Upper
<1>5. ASSUME NEW i1 \in Nat, NEW f1 \in Nat, NEW p1 \in Nat, NEW n1 \in Nat, NEW e1 \in Nat,
             issued' = i1, fees_paid' = f1, fee_pool' = p1, Used(accounts') = n1, epoch' = e1
      PROVE  /\ Lower(i1, t1 + u1, f1, p1) => BurnAtLeastHalf'
             /\ Upper(i1, t1 + u1, f1, p1, n1 + e1) => NoCoinLost'
  <2>1. Burned' = i1 - t1 - u1
    BY <1>3, <1>5 DEF Burned, Unbonding
  <2>2. Applied' = n1
    BY <1>5 DEF Applied, Used
  <2>3. PICK b \in Int : b = i1 - t1 - u1 /\ b = i1 - (t1 + u1)
    OBVIOUS
  <2>4. /\ BurnAtLeastHalf' <=> 10 * b >= 5 * f1 + 4 * p1
        /\ NoCoinLost' <=> 10 * b <= 5 * f1 + 4 * p1 + 10 * (n1 + e1)
    BY <1>5, <2>1, <2>2, <2>3 DEF BurnAtLeastHalf, NoCoinLost
  <2>. QED
    BY <2>3, <2>4 DEF Lower, Upper
<1>6. CASE PaidStep
  <2>1. PICK fee \in Nat :
          /\ t1 = t - fee + fee \div 10 /\ Used(accounts') = n + 1
          /\ fee_pool' = p + fee /\ fees_paid' = f + fee
          /\ u1 = u /\ epoch' = e /\ epoch' = epoch /\ issued' = i
    BY <1>1, <1>3, <1>6 DEF PaidStep, Unbonding
  <2>2. /\ issued' = TotalBalance(Genesis) + SumFunctionOnSet(Schedule, 1..epoch')
        /\ fees_paid' \in Nat /\ fee_pool' <= fees_paid'
    BY <1>2, <2>1
  <2>3. t1 + u1 = (t + u) - fee + fee \div 10 /\ t1 + u1 \in Int /\ t + u \in Int /\ n + e \in Int
    BY <2>1
  <2>4. /\ Lower(i, t1 + u1, f + fee, p + fee)
        /\ NoCoinLost => Upper(i, t1 + u1, f + fee, p + fee, (n + e) + 1)
    <3>1. PICK h \in Int, h1 \in Int, d \in Int :
            h = t + u /\ h1 = t1 + u1 /\ d = n + e /\ h1 = h - fee + fee \div 10
      BY <2>3
    <3>2. i \in Int /\ f \in Int /\ p \in Int
      OBVIOUS
    <3>. QED
      BY <1>4, <3>1, <3>2, PaidBounds
  <2>5. n + 1 + e = (n + e) + 1 /\ n + 1 \in Nat /\ f + fee \in Nat /\ p + fee \in Nat
    OBVIOUS
  <2>6. BurnAtLeastHalf' /\ (NoCoinLost => NoCoinLost')
    BY <1>5, <2>1, <2>4, <2>5
  <2>. QED
    BY <2>2, <2>6 DEF CoinInv
<1>7. ASSUME /\ t1 + u1 = t + u \/ (~SpacedRequests /\ t1 + u1 <= t + u)
             /\ Used(accounts') = n
             /\ UNCHANGED <<epoch, fee_pool, issued, fees_paid>>
      PROVE  Goal
  <2>1. issued' = i /\ fees_paid' = f /\ fee_pool' = p /\ epoch' = e /\ epoch' = epoch
    BY <1>1, <1>7
  <2>2. /\ issued' = TotalBalance(Genesis) + SumFunctionOnSet(Schedule, 1..epoch')
        /\ fees_paid' \in Nat /\ fee_pool' <= fees_paid'
    BY <1>2, <2>1
  <2>3. t1 + u1 <= t + u
    BY <1>7
  <2>4. Lower(i, t1 + u1, f, p)
    BY <1>4, <2>3 DEF Lower
  <2>5. SpacedRequests /\ NoCoinLost => Upper(i, t1 + u1, f, p, n + e)
    BY <1>4, <1>7
  <2>6. BurnAtLeastHalf' /\ (SpacedRequests /\ NoCoinLost => NoCoinLost')
    BY <1>5, <1>7, <2>1, <2>4, <2>5
  <2>. QED
    BY <2>2, <2>6 DEF CoinInv
<1>8. CASE EpochStep
  <2>1. /\ t1 + u1 = t + u + r + s /\ Used(accounts') = n
        /\ epoch' = epoch + 1 /\ epoch' = e + 1 /\ fee_pool' = 0 /\ issued' = i + r
        /\ fees_paid' = f
    BY <1>1, <1>3, <1>8 DEF EpochStep
  <2>2. i + r = TotalBalance(Genesis) + SumFunctionOnSet(Schedule, 1..(epoch + 1))
    <3>1. issued = TotalBalance(Genesis) + SumFunctionOnSet(Schedule, 1..epoch)
      BY DEF CoinInv
    <3>. QED
      BY <1>1, <1>2, <3>1, IssuedFits
  <2>3. /\ issued' = TotalBalance(Genesis) + SumFunctionOnSet(Schedule, 1..epoch')
        /\ fees_paid' \in Nat /\ fee_pool' <= fees_paid'
    BY <2>1, <2>2
  <2>4. /\ Lower(i + r, t1 + u1, f, 0)
        /\ FeesFit /\ NoCoinLost => Upper(i + r, t1 + u1, f, 0, (n + e) + 1)
    <3>1. PICK h \in Int, h1 \in Int, d \in Int :
            h = t + u /\ h1 = t1 + u1 /\ d = n + e /\ h1 = h + r + s
      BY <2>1
    <3>2. i \in Int /\ f \in Int /\ p \in Int /\ r \in Int /\ s \in Int
      OBVIOUS
    <3>3. Lower(i, h, f, p) /\ (NoCoinLost => Upper(i, h, f, p, d))
      BY <1>4, <3>1
    <3>4. 10 * s <= 4 * p /\ (FeesFit => 10 * s + 10 >= 4 * p)
      BY <1>1
    <3>5. /\ Lower(i + r, h + r + s, f, 0)
          /\ FeesFit /\ NoCoinLost => Upper(i + r, h + r + s, f, 0, d + 1)
      BY <3>2, <3>3, <3>4, EpochBounds
    <3>. QED
      BY <3>1, <3>5
  <2>5. n + (e + 1) = (n + e) + 1 /\ e + 1 \in Nat /\ i + r \in Nat /\ 0 \in Nat
    OBVIOUS
  <2>6. BurnAtLeastHalf' /\ (FeesFit /\ NoCoinLost => NoCoinLost')
    BY <1>5, <2>1, <2>4, <2>5
  <2>. QED
    BY <2>3, <2>6 DEF CoinInv
<1>9. CASE UNCHANGED vars
  <2>1. t1 = t /\ u1 = u
    BY <1>1, <1>3, <1>9 DEF vars, Unbonding
  <2>2. Used(accounts') = n /\ UNCHANGED <<epoch, fee_pool, issued, fees_paid>>
    BY <1>1, <1>9 DEF vars
  <2>3. t1 + u1 = t + u
    BY <2>1
  <2>4. Goal
    <3>. HIDE DEF Goal
    <3>. QED
      BY <1>7, <2>2, <2>3
  <2>. QED
    BY <2>4
<1>10. CASE MovedStep \/ OverwrittenStep
  <2>1. t1 + u1 = t + u \/ (~SpacedRequests /\ t1 + u1 <= t + u)
    BY <1>1, <1>3, <1>10 DEF MovedStep, OverwrittenStep
  <2>2. Used(accounts') = n /\ UNCHANGED <<epoch, fee_pool, issued, fees_paid>>
    BY <1>1, <1>10 DEF MovedStep, OverwrittenStep
  <2>3. Goal
    <3>. HIDE DEF Goal
    <3>. QED
      BY <1>7, <2>1, <2>2
  <2>. QED
    BY <2>3
<1>11. PaidStep \/ MovedStep \/ OverwrittenStep \/ EpochStep \/ UNCHANGED vars
  BY CoinStep
<1>. QED
  BY <1>6, <1>8, <1>9, <1>10, <1>11

\* Coins are never created and no call leaves a failed half behind, for every
\* genesis, schedule and width in which the whole supply fits.
THEOREM LedgerCoins ==
    ASSUME SupplyFits
    PROVE  Spec => [](IInv /\ CoinInv)
<1>1. Init => IInv /\ CoinInv
  BY IInvInit, CoinInvInit
<1>2. IInv /\ CoinInv /\ [Next]_vars => (IInv /\ CoinInv)'
  BY IInvStep, CoinInvStep
<1>. QED
  BY <1>1, <1>2, PTL DEF Spec

\* No operation creates coins: what left circulation is at least the burned half
\* of the fees and the validators' unsettled share.
THEOREM LedgerBurnAtLeastHalf ==
    ASSUME SupplyFits
    PROVE  Spec => []BurnAtLeastHalf
<1>1. CoinInv => BurnAtLeastHalf
  BY DEF CoinInv
<1>. QED
  BY <1>1, LedgerCoins, PTL

\* A call that returns an error has written nothing, although the code saves
\* accounts one at a time and checks each later credit for overflow.
THEOREM LedgerAllOrNothing ==
    ASSUME SupplyFits
    PROVE  Spec => []AllOrNothing
<1>1. IInv /\ CoinInv => AllOrNothing
  BY InvAllOrNothing
<1>. QED
  BY <1>1, LedgerCoins, PTL

\* Coins are conserved from both sides where callers unstake at most once per
\* address and epoch and the fees of an epoch fit the 40-percent product: the
\* second request overwrites a withdrawal, and a wrapped product loses the share.
THEOREM LedgerConservation ==
    ASSUME SupplyFits, SpacedRequests
    PROVE  Spec /\ []FeesFit => []Conservation
<1>1. Init => IInv /\ CoinInv /\ NoCoinLost
  BY IInvInit, CoinInvInit
<1>2. IInv /\ CoinInv /\ NoCoinLost /\ FeesFit /\ [Next]_vars => (IInv /\ CoinInv /\ NoCoinLost)'
  BY IInvStep, CoinInvStep
<1>3. CoinInv /\ NoCoinLost => Conservation
  BY DEF CoinInv, Conservation
<1>. QED
  BY <1>1, <1>2, <1>3, PTL DEF Spec
=============================================================================
