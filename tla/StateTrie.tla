----------------------------- MODULE StateTrie ------------------------------
(***************************************************************************)
(* The state transition function of storage/state_trie.rs: what            *)
(* apply_transaction does to the accounts tree, write by write, including  *)
(* the writes that stay when a later one fails.                            *)
(***************************************************************************)
EXTENDS Accounts, SequencesExt

CONSTANT Treasury       \* TREASURY_ADDRESS, the literal in apply_fee_split

ASSUME TreasuryAssumption == Treasury \in Address

\* ContractDeploy and ContractCall are applied alike.
TransactionType == {"Transfer", "StakeLock", "StakeUnlock", "Contract"}

Transaction ==
    [type : TransactionType, sender : Address, receiver : Address,
     amount : U64, fee : U64, nonce : Nat]

apply_fee_split(accts, fee) ==
    IF fee \div 10 > 0
    THEN credit_account(accts, Treasury, fee \div 10)
    ELSE Ok(accts)

\* The sender's account as each handler saves it.
sender_after_transfer(acc, tx) ==
    Revised(acc, acc.balance - (tx.amount + tx.fee), acc.staked, acc.nonce + 1)

sender_after_stake_lock(acc, tx) ==
    update_validator_tier(
        Revised(acc, acc.balance - (tx.amount + tx.fee), acc.staked + tx.amount, acc.nonce + 1))

sender_after_stake_unlock(acc, tx) ==
    update_validator_tier(
        Revised(acc, acc.balance + tx.amount - tx.fee, acc.staked - tx.amount, acc.nonce + 1))

sender_after_fee_only(acc, tx) ==
    Revised(acc, acc.balance - tx.fee, acc.staked, acc.nonce + 1)

\* Variant: the receiver is read before the sender is saved.
apply_transfer_StaleReceiver(accts, tx) ==
    LET sender == get_or_create_account(accts, tx.sender)
        receiver == get_or_create_account(accts, tx.receiver)
        total_cost == tx.amount + tx.fee
    IN  IF sender.balance < total_cost \/ sender.nonce # tx.nonce THEN Err(accts)
        ELSE apply_fee_split(
               save_account(
                 save_account(accts, tx.sender, sender_after_transfer(sender, tx)),
                 tx.receiver, Credited(receiver, tx.amount)),
               tx.fee)

\* Variant: the sender is debited before the nonce is compared.
apply_transfer_DebitFirst(accts, tx) ==
    LET sender == get_or_create_account(accts, tx.sender)
        total_cost == tx.amount + tx.fee
        debited == save_account(accts, tx.sender, sender_after_transfer(sender, tx))
    IN  IF sender.balance < total_cost THEN Err(accts)
        ELSE IF sender.nonce # tx.nonce THEN Err(debited)
        ELSE apply_fee_split(credit_account(debited, tx.receiver, tx.amount).accts, tx.fee)

apply_transfer(accts, tx) ==
    LET sender == get_or_create_account(accts, tx.sender)
        total_cost == tx.amount + tx.fee
        debited == save_account(accts, tx.sender, sender_after_transfer(sender, tx))
        credited == credit_account(debited, tx.receiver, tx.amount)
    IN  IF \/ total_cost \notin U64
           \/ sender.balance < total_cost
           \/ sender.nonce # tx.nonce
        THEN Err(accts)
        ELSE IF credited.ok THEN apply_fee_split(credited.accts, tx.fee)
             ELSE Err(debited)

apply_stake_lock(accts, tx) ==
    LET account == get_or_create_account(accts, tx.sender)
        total_cost == tx.amount + tx.fee
    IN  IF \/ total_cost \notin U64
           \/ account.balance < total_cost
           \/ account.nonce # tx.nonce
           \/ account.staked + tx.amount \notin U64
        THEN Err(accts)
        ELSE apply_fee_split(
               save_account(accts, tx.sender, sender_after_stake_lock(account, tx)),
               tx.fee)

apply_stake_unlock(accts, tx) ==
    LET account == get_or_create_account(accts, tx.sender) IN
    IF \/ account.staked < tx.amount
       \/ account.balance < tx.fee
       \/ account.nonce # tx.nonce
       \/ account.balance + tx.amount \notin U64
    THEN Err(accts)
    ELSE apply_fee_split(
           save_account(accts, tx.sender, sender_after_stake_unlock(account, tx)),
           tx.fee)

\* Variant: the balance is not compared with the fee.
apply_fee_only_Unaffordable(accts, tx) ==
    LET sender == get_or_create_account(accts, tx.sender) IN
    IF sender.nonce # tx.nonce THEN Err(accts)
    ELSE apply_fee_split(
           save_account(accts, tx.sender, sender_after_fee_only(sender, tx)), tx.fee)

\* Variant: the nonce is not advanced.
apply_fee_only_SameNonce(accts, tx) ==
    LET sender == get_or_create_account(accts, tx.sender)
        charged == [sender EXCEPT !.balance = @ - tx.fee]
    IN  IF sender.balance < tx.fee \/ sender.nonce # tx.nonce THEN Err(accts)
        ELSE apply_fee_split(save_account(accts, tx.sender, charged), tx.fee)

apply_fee_only(accts, tx) ==
    LET sender == get_or_create_account(accts, tx.sender) IN
    IF sender.balance < tx.fee \/ sender.nonce # tx.nonce
    THEN Err(accts)
    ELSE apply_fee_split(
           save_account(accts, tx.sender, sender_after_fee_only(sender, tx)), tx.fee)

apply_transaction(accts, tx) ==
    CASE tx.type = "Transfer" -> apply_transfer(accts, tx)
      [] tx.type = "StakeLock" -> apply_stake_lock(accts, tx)
      [] tx.type = "StakeUnlock" -> apply_stake_unlock(accts, tx)
      [] OTHER -> apply_fee_only(accts, tx)

\* The regular transactions of a block in order, each after what the ones before
\* it returned; the first error stops.  A coinbase is none of them.
ApplyNext(r, tx) ==
    IF r.ok /\ tx.type # "Coinbase" THEN apply_transaction(r.accts, tx) ELSE r

ApplyAll(accts, txs) == FoldLeft(ApplyNext, Ok(accts), txs)
=============================================================================
