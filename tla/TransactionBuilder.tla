------------------------ MODULE TransactionBuilder --------------------------
(***************************************************************************)
(* Signed transactions: wallet/transaction_builder.rs, the part of         *)
(* wallet/keys.rs it uses, and the signatures of crypto/mod.rs and         *)
(* crypto/dilithium.rs.                                                    *)
(*                                                                         *)
(* Hashes and signatures are terms: two of them are equal only when they   *)
(* were made from the same parts.  The two halves of a Dilithium key pair  *)
(* are named by one number, and a signature is made by a key over a        *)
(* message.  A builder returns the set of transactions it made: one, or    *)
(* none when it returned an error.                                         *)
(***************************************************************************)
EXTENDS Integers, Sequences

\* KyveraKeyPair::generate: every call makes another pair.
KeyPair(i) == [public_key |-> i, secret_key |-> i]

\* An address is its prefix, the length of the rest, whether that is hex, and
\* what it was derived from.
address(keypair) ==
    [prefix |-> "kyv1", digits |-> 64, hex |-> TRUE, of |-> keypair.public_key]

staking_contract == [prefix |-> "kyv1", digits |-> 65, hex |-> FALSE, of |-> 0]

validate_address(a) == a.prefix = "kyv1" /\ a.digits = 64 /\ a.hex

\* KyveraWallet::generate; only the signing keys matter here.
generate(i) == [address |-> address(KeyPair(i)), signing_keypair |-> KeyPair(i)]

verify_address_integrity(wallet) == address(wallet.signing_keypair) = wallet.address

info(wallet) ==
    [address |-> wallet.address, signing_public_key |-> wallet.signing_keypair.public_key]

-----------------------------------------------------------------------------
sign(keypair, message) == [key |-> keypair.secret_key, message |-> message]

verify(signature, message, public_key) ==
    signature.key = public_key /\ signature.message = message

TransactionNonce(account_nonce, timestamp_ms, chain_state_hash) ==
    [account_nonce |-> account_nonce, timestamp_ms |-> timestamp_ms,
     chain_state_hash |-> chain_state_hash]

\* What is hashed has no separators.  Still its parts can be told apart: the
\* message is a JSON object, which ends at its closing brace, and both numbers
\* have a fixed width, so each of the three is one symbol here; the chain
\* state, a sequence of symbols, is all the rest.

\* Variant: the chain state is left out of what is signed.
bind_message_to_nonce_AnyState(message, nonce) ==
    <<message, nonce.account_nonce, nonce.timestamp_ms>>

bind_message_to_nonce(message, nonce) ==
    <<message, nonce.account_nonce, nonce.timestamp_ms>> \o nonce.chain_state_hash

verify_transaction_signature(message, nonce, signature, public_key) ==
    verify(signature, bind_message_to_nonce(message, nonce), public_key)

-----------------------------------------------------------------------------
\* Transaction::new: the hash and the signature are still empty strings.
NewTransaction(sender, receiver, amount, fee, nonce, type, timestamp) ==
    [sender |-> sender, receiver |-> receiver, amount |-> amount, fee |-> fee, nonce |-> nonce,
     type |-> type, timestamp |-> timestamp, signature |-> "", hash |-> ""]

\* What is signed: the transaction as it was before both were filled in.
Payload(tx) == [tx EXCEPT !.signature = "", !.hash = ""]

\* The decimal digits of a number, as format! writes them.
Decimal(n) ==
    LET length == CHOOSE k \in 1..20 : n < 10^k /\ (k = 1 \/ n >= 10^(k - 1))
    IN  [i \in 1..length |-> (n \div 10^(length - i)) % 10]

\* Variant: the signature is left out of the hash.
compute_transaction_hash_Unsigned(tx) ==
    <<tx.sender, tx.receiver, Decimal(tx.amount) \o Decimal(tx.fee) \o Decimal(tx.nonce)>>

\* The numbers are written one after the other without a separator.
compute_transaction_hash(tx) ==
    <<tx.sender, tx.receiver, Decimal(tx.amount) \o Decimal(tx.fee) \o Decimal(tx.nonce),
      tx.signature>>

\* The common end of the three builders.
SignAndHash(wallet, tx, nonce) ==
    LET signature == sign(wallet.signing_keypair, bind_message_to_nonce(Payload(tx), nonce))
        filled == [tx EXCEPT !.signature = signature]
    IN  [filled EXCEPT !.hash = compute_transaction_hash(filled)]

\* Each builder reads the clock twice: t.created in Transaction::new and
\* t.signed in TransactionNonce::new.
build_transfer(wallet, recipient, amount, fee, account_nonce, chain_state_hash, t) ==
    IF amount = 0 \/ ~validate_address(recipient) THEN {}
    ELSE {SignAndHash(wallet,
            NewTransaction(wallet.address, recipient, amount, fee, account_nonce,
                           "Transfer", t.created),
            TransactionNonce(account_nonce, t.signed, chain_state_hash))}

build_stake_lock(wallet, amount, fee, account_nonce, chain_state_hash, t) ==
    IF amount = 0 THEN {}
    ELSE {SignAndHash(wallet,
            NewTransaction(wallet.address, staking_contract, amount, fee, account_nonce,
                           "StakeLock", t.created),
            TransactionNonce(account_nonce, t.signed, chain_state_hash))}

build_stake_unlock(wallet, amount, fee, account_nonce, chain_state_hash, t) ==
    IF amount = 0 THEN {}
    ELSE {SignAndHash(wallet,
            NewTransaction(wallet.address, staking_contract, amount, fee, account_nonce,
                           "StakeUnlock", t.created),
            TransactionNonce(account_nonce, t.signed, chain_state_hash))}
=============================================================================
