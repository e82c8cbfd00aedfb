---------------------------- MODULE WalletProofs ----------------------------
(***************************************************************************)
(* Proofs about Wallet, for any number of invocations, paths, passwords    *)
(* and amounts.                                                            *)
(*                                                                         *)
(* Two independent invariants: FileInv of the files and the invocations    *)
(* that write them, SignInv of the transactions signed.                    *)
(***************************************************************************)
EXTENDS Wallet, SequenceTheorems, TLAPS

-----------------------------------------------------------------------------
(***************************************************************************)
(* What is signed.                                                         *)
(***************************************************************************)

\* tx is what a builder returned, called by a command with the keys of wallet
\* i: signed when it was created or later.
MadeBy(tx, i, receiver, amount, fee, type, t) ==
    /\ amount \in 1..MaxU64 /\ fee \in 0..MaxU64
    /\ t.created \in Nat /\ t.signed \in t.created..MaxClock
    /\ tx = SignAndHash(generate(i),
              NewTransaction(address(KeyPair(i)), receiver, amount, fee, 0, type, t.created),
              TransactionNonce(0, t.signed, zero_state))

\* tx is what some command signed.
Made(tx) == \E i, receiver, amount, fee, type, t : MadeBy(tx, i, receiver, amount, fee, type, t)

\* The inductive invariant of what is signed.
SignInv ==
    /\ clock \in 0..MaxClock
    /\ \A tx \in signed : Made(tx)

\* What is signed at time s over a payload.
Signed(payload, s) == bind_message_to_nonce(payload, TransactionNonce(0, s, zero_state))

\* The parts that bind_message_to_nonce writes one after the other can be told
\* apart.
LEMMA BindingTellsApart ==
    ASSUME NEW m, NEW n, NEW m2, NEW n2,
           n.chain_state_hash \in Seq(Nat), n2.chain_state_hash \in Seq(Nat),
           bind_message_to_nonce(m, n) = bind_message_to_nonce(m2, n2)
    PROVE  /\ m = m2
           /\ n.account_nonce = n2.account_nonce
           /\ n.timestamp_ms = n2.timestamp_ms
           /\ n.chain_state_hash = n2.chain_state_hash
<1> DEFINE S == {m, n.account_nonce, n.timestamp_ms, m2, n2.account_nonce, n2.timestamp_ms}
                \cup Nat
<1>1. PICK a, c : a = <<m, n.account_nonce, n.timestamp_ms>> /\ c = n.chain_state_hash
  OBVIOUS
<1>2. PICK a2, c2 : a2 = <<m2, n2.account_nonce, n2.timestamp_ms>> /\ c2 = n2.chain_state_hash
  OBVIOUS
<1>0. /\ m \in S /\ n.account_nonce \in S /\ n.timestamp_ms \in S
      /\ m2 \in S /\ n2.account_nonce \in S /\ n2.timestamp_ms \in S
      /\ Nat \subseteq S
  OBVIOUS
<1>. HIDE DEF S
<1>3. a \in Seq(S) /\ Len(a) = 3 /\ a2 \in Seq(S) /\ Len(a2) = 3
  BY <1>0, <1>1, <1>2
<1>4. c \in Seq(S) /\ c2 \in Seq(S)
  BY <1>0, <1>1, <1>2
<1>5. a \o c = a2 \o c2
  BY <1>1, <1>2 DEF bind_message_to_nonce
<1>6. /\ Len(a \o c) = Len(a) + Len(c)
      /\ \A i \in 1..(Len(a) + Len(c)) :
            (a \o c)[i] = IF i <= Len(a) THEN a[i] ELSE c[i - Len(a)]
  BY <1>3, <1>4, ConcatProperties
<1>7. /\ Len(a2 \o c2) = Len(a2) + Len(c2)
      /\ \A i \in 1..(Len(a2) + Len(c2)) :
            (a2 \o c2)[i] = IF i <= Len(a2) THEN a2[i] ELSE c2[i - Len(a2)]
  BY <1>3, <1>4, ConcatProperties
<1>8. Len(c) = Len(c2) /\ Len(c) \in Nat
  BY <1>3, <1>4, <1>5, <1>6, <1>7
<1>9. a[1] = a2[1] /\ a[2] = a2[2] /\ a[3] = a2[3]
  <2>1. 1 \in 1..(3 + Len(c)) /\ 2 \in 1..(3 + Len(c)) /\ 3 \in 1..(3 + Len(c))
    BY <1>8
  <2>. QED
    BY <2>1, <1>3, <1>5, <1>6, <1>7, <1>8
<1>10. \A i \in 1..Len(c) : c[i] = c2[i]
  <2>. TAKE i \in 1..Len(c)
  <2>1. i + 3 \in 1..(3 + Len(c)) /\ ~(i + 3 <= 3) /\ (i + 3) - 3 = i
    BY <1>8
  <2>. QED
    BY <2>1, <1>3, <1>5, <1>6, <1>7, <1>8
<1>11. c = c2
  BY <1>4, <1>8, <1>10, SeqEqual
<1>. QED
  BY <1>1, <1>2, <1>9, <1>11

\* A transaction with all its fields.
Fields(sender, receiver, amount, fee, nonce, type, timestamp, signature, hash) ==
    [sender |-> sender, receiver |-> receiver, amount |-> amount, fee |-> fee, nonce |-> nonce,
     type |-> type, timestamp |-> timestamp, signature |-> signature, hash |-> hash]

\* What is signed is the transaction without its signature and hash.
LEMMA PayloadFields ==
    ASSUME NEW a, NEW b, NEW c, NEW d, NEW e, NEW f, NEW g, NEW s, NEW h
    PROVE  Payload(Fields(a, b, c, d, e, f, g, s, h)) = Fields(a, b, c, d, e, f, g, "", "")
<1> DEFINE empty == ""
           u == [Fields(a, b, c, d, e, f, g, s, h) EXCEPT !.signature = empty]
<1>1. u = Fields(a, b, c, d, e, f, g, empty, h)
  <2>. HIDE DEF empty
  <2>. QED  BY DEF Fields
<1>2. [u EXCEPT !.hash = empty] = Fields(a, b, c, d, e, f, g, empty, empty)
  <2>. HIDE DEF u, empty
  <2>. QED  BY <1>1 DEF Fields
<1>. QED
  BY <1>2 DEF Payload

\* The parts of a transaction that a builder returned.
LEMMA MadeParts ==
    ASSUME NEW tx, NEW i, NEW receiver, NEW amount, NEW fee, NEW type, NEW t,
           MadeBy(tx, i, receiver, amount, fee, type, t)
    PROVE  /\ tx.sender.of = i
           /\ tx.amount \in 1..MaxU64
           /\ tx.fee \in 0..MaxU64
           /\ tx.nonce = 0
           /\ tx.timestamp = t.created
           /\ tx.signature = [key |-> i, message |-> Signed(Payload(tx), t.signed)]
           /\ tx.hash[4] = tx.signature
           /\ tx = Fields(Payload(tx).sender, Payload(tx).receiver, Payload(tx).amount,
                          Payload(tx).fee, Payload(tx).nonce, Payload(tx).type,
                          Payload(tx).timestamp, tx.signature, tx.hash)
<1> DEFINE plain == NewTransaction(address(KeyPair(i)), receiver, amount, fee, 0, type, t.created)
           signature == sign(KeyPair(i), bind_message_to_nonce(Payload(plain),
                               TransactionNonce(0, t.signed, zero_state)))
           filled == [plain EXCEPT !.signature = signature]
           h == compute_transaction_hash(filled)
<1>0. plain = Fields(address(KeyPair(i)), receiver, amount, fee, 0, type, t.created, "", "")
  BY DEF Fields, NewTransaction
<1>1. Payload(plain) = plain
  <2>. HIDE DEF plain
  <2>. QED  BY <1>0, PayloadFields
<1>2. signature = [key |-> i, message |-> Signed(plain, t.signed)]
  <2>1. bind_message_to_nonce(Payload(plain), TransactionNonce(0, t.signed, zero_state))
          = Signed(plain, t.signed)
    BY <1>1 DEF Signed
  <2>. QED
    BY <2>1 DEF sign, KeyPair
<1>3. tx = [filled EXCEPT !.hash = h]
  BY DEF MadeBy, SignAndHash, generate
<1>4. tx = [sender |-> address(KeyPair(i)), receiver |-> receiver, amount |-> amount, fee |-> fee,
            nonce |-> 0, type |-> type, timestamp |-> t.created, signature |-> signature,
            hash |-> h]
  <2>. HIDE DEF signature, h
  <2>. QED  BY <1>3 DEF NewTransaction
<1>5. h[4] = signature
  <2>1. filled.signature = signature
    <3>. HIDE DEF signature
    <3>. QED  BY DEF NewTransaction
  <2>. HIDE DEF signature, filled
  <2>. QED  BY <2>1 DEF compute_transaction_hash
<1>. HIDE DEF h, signature
<1>6. tx = Fields(address(KeyPair(i)), receiver, amount, fee, 0, type, t.created,
                  tx.signature, tx.hash)
  BY <1>4 DEF Fields
<1>8. Payload(tx) = plain
  BY <1>0, <1>6, PayloadFields
<1>9. tx = Fields(plain.sender, plain.receiver, plain.amount, plain.fee, plain.nonce,
                  plain.type, plain.timestamp, tx.signature, tx.hash)
  BY <1>6 DEF NewTransaction
<1>7. /\ tx.sender.of = i /\ tx.amount = amount /\ tx.fee = fee /\ tx.nonce = 0
      /\ tx.timestamp = t.created /\ tx.signature = signature /\ tx.hash = h
  BY <1>4 DEF address, KeyPair
<1>10. tx.amount \in 1..MaxU64 /\ tx.fee \in 0..MaxU64
  BY <1>7 DEF MadeBy
<1>. HIDE DEF plain
<1>. QED
  BY <1>2, <1>5, <1>7, <1>8, <1>9, <1>10

\* as_units is an u64 for every decimal.
LEMMA AsUnitsType ==
    ASSUME NEW d \in Int
    PROVE  as_units(d) \in 0..MaxU64
BY NumbersAssumption DEF as_units

\* What the commands hand to Emit was made by a builder.
LEMMA BuildersMake ==
    ASSUME NEW w, NEW i, w = generate(i), NEW receiver, NEW amount \in 0..MaxU64,
           NEW fee \in 0..MaxU64, NEW t, t.created \in Nat, t.signed \in t.created..MaxClock
    PROVE  \A tx \in build_transfer(w, receiver, amount, fee, 0, zero_state, t)
                     \cup build_stake_lock(w, amount, fee, 0, zero_state, t)
                     \cup build_stake_unlock(w, amount, fee, 0, zero_state, t) : Made(tx)
<1>1. w.address = address(KeyPair(i))
  BY DEF generate
<1>2. amount # 0 => amount \in 1..MaxU64
  BY NumbersAssumption
<1> DEFINE tx(r, type) ==
             SignAndHash(generate(i), NewTransaction(address(KeyPair(i)), r, amount, fee, 0, type, t.created),
                         TransactionNonce(0, t.signed, zero_state))
<1>3. ASSUME NEW r, NEW type, amount # 0
      PROVE  Made(tx(r, type))
  <2>1. MadeBy(tx(r, type), i, r, amount, fee, type, t)
    BY <1>2, <1>3 DEF MadeBy
  <2>. HIDE DEF tx
  <2>. QED  BY <2>1 DEF Made
<1>4. \A x \in build_transfer(w, receiver, amount, fee, 0, zero_state, t) :
        amount # 0 /\ x = tx(receiver, "Transfer")
  BY <1>1 DEF build_transfer
<1>5. \A x \in build_stake_lock(w, amount, fee, 0, zero_state, t) :
        amount # 0 /\ x = tx(staking_contract, "StakeLock")
  BY <1>1 DEF build_stake_lock
<1>6. \A x \in build_stake_unlock(w, amount, fee, 0, zero_state, t) :
        amount # 0 /\ x = tx(staking_contract, "StakeUnlock")
  BY <1>1 DEF build_stake_unlock
<1>. HIDE DEF tx
<1>. QED
  BY <1>3, <1>4, <1>5, <1>6

\* A wallet that was loaded is one that was generated.
LEMMA LoadedIsGenerated ==
    ASSUME NEW path, NEW password, NEW w \in load_wallet(path, password)
    PROVE  \E i : w = generate(i)
BY DEF load_wallet

\* No step of a command disturbs what was signed.
LEMMA SignInvStep ==
    ASSUME SignInv, [Next]_vars
    PROVE  SignInv'
<1>1. ASSUME NEW txs, NEW t \in Readings, Emit(txs, t), \A tx \in txs : Made(tx)
      PROVE  SignInv'
  BY <1>1 DEF Emit, SignInv, Readings, Made, MadeBy
<1>2. \A t \in Readings : t.created \in Nat /\ t.signed \in t.created..MaxClock
  BY WalletBoundsAssumption DEF Readings, SignInv
<1>3. ASSUME NEW path, NEW password, NEW amount \in Amounts, NEW recipient, NEW fee \in Fees,
             cmd_send(path, password, recipient, amount, fee)
      PROVE  SignInv'
  <2>1. PICK w \in load_wallet(path, password), t \in Readings :
          Emit(build_transfer(w, recipient, as_units(amount), as_units(fee), 0, zero_state, t), t)
    BY <1>3 DEF cmd_send
  <2>2. PICK i : w = generate(i)
    BY LoadedIsGenerated
  <2>3. as_units(amount) \in 0..MaxU64 /\ as_units(fee) \in 0..MaxU64
    BY AsUnitsType, NumbersAssumption
  <2>. QED
    BY <1>1, <1>2, <2>1, <2>2, <2>3, BuildersMake
<1>4. ASSUME NEW path, NEW password, NEW amount \in Amounts, cmd_stake(path, password, amount)
      PROVE  SignInv'
  <2>1. PICK w \in load_wallet(path, password), t \in Readings :
          Emit(build_stake_lock(w, as_units(amount), stake_fee, 0, zero_state, t), t)
    BY <1>4 DEF cmd_stake
  <2>2. PICK i : w = generate(i)
    BY LoadedIsGenerated
  <2>3. as_units(amount) \in 0..MaxU64 /\ stake_fee \in 0..MaxU64
    BY AsUnitsType, NumbersAssumption DEF stake_fee
  <2>. QED
    BY <1>1, <1>2, <2>1, <2>2, <2>3, BuildersMake
<1>5. ASSUME NEW path, NEW password, NEW amount \in Amounts,
             SignUnlock(path, password, as_units(amount))
      PROVE  SignInv'
  <2>1. PICK w \in load_wallet(path, password), t \in Readings :
          Emit(build_stake_unlock(w, as_units(amount), stake_fee, 0, zero_state, t), t)
    BY <1>5 DEF SignUnlock
  <2>2. PICK i : w = generate(i)
    BY LoadedIsGenerated
  <2>3. as_units(amount) \in 0..MaxU64 /\ stake_fee \in 0..MaxU64
    BY AsUnitsType, NumbersAssumption DEF stake_fee
  <2>. QED
    BY <1>1, <1>2, <2>1, <2>2, <2>3, BuildersMake
<1>6. ASSUME Tick
      PROVE  SignInv'
  BY <1>6, WalletBoundsAssumption DEF Tick, SignInv, Made, MadeBy
<1>7. ASSUME UNCHANGED <<clock, signed>>
      PROVE  SignInv'
  BY <1>7 DEF SignInv, Made, MadeBy
<1>8. ASSUME NEW p \in Process, NEW path \in Path,
             cmd_create(p, path) \/ cmd_restore(p, path) \/ EnterPhrase(p) \/ EnterPasswords(p)
             \/ Save(p) \/ Stop(p) \/ delete_wallet(path)
      PROVE  UNCHANGED <<clock, signed>>
  BY <1>8 DEF cmd_create, cmd_restore, EnterPhrase, EnterPasswords, Save, OpenTemp, WriteTemp,
     RenameTemp, Stop, delete_wallet
<1>. QED
  <2>1. CASE UNCHANGED vars
    BY <1>7, <2>1 DEF vars
  <2>2. CASE \E p \in Process, path \in Path : cmd_create(p, path) \/ cmd_restore(p, path)
    BY <1>7, <1>8, <2>2
  <2>3. CASE \E p \in Process : EnterPhrase(p) \/ EnterPasswords(p) \/ Save(p) \/ Stop(p)
    BY <1>7, <2>3 DEF EnterPhrase, EnterPasswords, Save, OpenTemp, WriteTemp, RenameTemp, Stop
  <2>4. CASE \E path \in Path : delete_wallet(path)
    BY <1>7, <2>4 DEF delete_wallet
  <2>5. CASE \E path \in Path, password \in Password, amount \in Amounts :
               \/ \E recipient \in Recipients, fee \in Fees :
                     cmd_send(path, password, recipient, amount, fee)
               \/ cmd_stake(path, password, amount)
               \/ SignUnlock(path, password, as_units(amount))
    BY <1>3, <1>4, <1>5, <2>5
  <2>6. CASE Tick
    BY <1>6, <2>6
  <2>. QED
    BY <2>1, <2>2, <2>3, <2>4, <2>5, <2>6 DEF Next

\* Every transaction that was printed was made by a builder with the keys of
\* the wallet that was loaded.
THEOREM WalletSignInv == Spec => []SignInv
<1>1. Init => SignInv
  BY WalletBoundsAssumption DEF Init, SignInv
<1>. QED
  BY <1>1, SignInvStep, PTL DEF Spec

\* A chain state is a sequence of symbols.
HasState(n) == n.chain_state_hash \in Seq(Nat)

\* A signature verifies exactly for what it was made over.
LEMMA VerifiesOwnContext ==
    ASSUME NEW tx, NEW i, NEW receiver, NEW amount, NEW fee, NEW type, NEW t,
           MadeBy(tx, i, receiver, amount, fee, type, t), NEW m, NEW n, NEW k,
           HasState(n)
    PROVE  verify_transaction_signature(m, n, tx.signature, k) <=>
             /\ k = i /\ m = Payload(tx)
             /\ n.account_nonce = 0 /\ n.timestamp_ms = t.signed
             /\ n.chain_state_hash = zero_state
<1>1. tx.signature = [key |-> i, message |-> Signed(Payload(tx), t.signed)]
  BY MadeParts
<1>2. tx.signature.key = i /\ tx.signature.message = Signed(Payload(tx), t.signed)
  BY <1>1
<1>3. verify_transaction_signature(m, n, tx.signature, k) <=>
        k = i /\ bind_message_to_nonce(m, n) = Signed(Payload(tx), t.signed)
  BY <1>2 DEF verify_transaction_signature, verify
<1> DEFINE own == TransactionNonce(0, t.signed, zero_state)
<1>4. /\ own.account_nonce = 0 /\ own.timestamp_ms = t.signed
      /\ own.chain_state_hash = zero_state /\ own.chain_state_hash \in Seq(Nat)
  BY DEF TransactionNonce, zero_state
<1>. HIDE DEF own
<1>5. Signed(Payload(tx), t.signed) = bind_message_to_nonce(Payload(tx), own)
  BY DEF Signed, own
<1>6. bind_message_to_nonce(m, n) = bind_message_to_nonce(Payload(tx), own) <=>
        /\ m = Payload(tx) /\ n.account_nonce = 0 /\ n.timestamp_ms = t.signed
        /\ n.chain_state_hash = zero_state
  <2>1. bind_message_to_nonce(m, n) = bind_message_to_nonce(Payload(tx), own) =>
          /\ m = Payload(tx) /\ n.account_nonce = 0 /\ n.timestamp_ms = t.signed
          /\ n.chain_state_hash = zero_state
    BY <1>4, BindingTellsApart DEF HasState
  <2>2. ASSUME m = Payload(tx), n.account_nonce = 0, n.timestamp_ms = t.signed,
               n.chain_state_hash = zero_state
        PROVE  bind_message_to_nonce(m, n) = bind_message_to_nonce(Payload(tx), own)
    BY <1>4, <2>2 DEF bind_message_to_nonce
  <2>. QED
    BY <2>1, <2>2
<1>. QED
  BY <1>3, <1>5, <1>6

\* What the transactions' origin says about signatures and hashes.
LEMMA SignInvImplies ==
    ASSUME SignInv
    PROVE  SignatureBinds /\ HashIdentifies
<1>1. ASSUME NEW tx \in signed
      PROVE  /\ \E t \in tx.timestamp..MaxClock :
                   Accepted(tx, tx) = {TransactionNonce(tx.nonce, t, zero_state)}
             /\ \A u \in signed : Accepted(u, tx) # {} => Payload(u) = Payload(tx)
  <2>1. PICK i, receiver, amount, fee, type, t : MadeBy(tx, i, receiver, amount, fee, type, t)
    BY DEF SignInv, Made
  <2>2. tx.sender.of = i /\ tx.nonce = 0 /\ tx.timestamp = t.created
    <3>1. tx.sender.of = i
      BY <2>1, MadeParts
    <3>2. tx.nonce = 0
      BY <2>1, MadeParts
    <3>3. tx.timestamp = t.created
      BY <2>1, MadeParts
    <3>. QED
      BY <3>1, <3>2, <3>3
  <2>3. t.signed \in tx.timestamp..MaxClock /\ t.signed \in 0..MaxClock
    BY <2>1, <2>2, WalletBoundsAssumption DEF MadeBy
  <2> DEFINE own == TransactionNonce(0, t.signed, zero_state)
  <2>4. own \in Contexts
    BY <2>3 DEF Contexts
  <2>5. ASSUME NEW n \in Contexts
        PROVE  /\ n = own <=> /\ n.account_nonce = 0 /\ n.timestamp_ms = t.signed
                              /\ n.chain_state_hash = zero_state
               /\ n.chain_state_hash \in Seq(Nat)
    <3>1. PICK c \in {zero_state, other_state}, a \in {0, 1}, s \in 0..MaxClock :
            n = TransactionNonce(a, s, c)
      BY DEF Contexts
    <3>2. zero_state \in Seq(Nat) /\ other_state \in Seq(Nat)
      <4>1. zero_state \in Seq(Nat)
        BY DEF zero_state
      <4>2. other_state \in Seq(Nat)
        BY DEF other_state
      <4>. QED
        BY <4>1, <4>2
    <3>3. c \in Seq(Nat)
      BY <3>1, <3>2
    <3>4. n.account_nonce = a /\ n.timestamp_ms = s /\ n.chain_state_hash = c
      BY <3>1 DEF TransactionNonce
    <3>5. n = own => a = 0 /\ s = t.signed /\ c = zero_state
      BY <3>4 DEF TransactionNonce
    <3>6. (a = 0 /\ s = t.signed /\ c = zero_state) => n = own
      BY <3>1
    <3>. HIDE DEF own
    <3>. QED
      BY <3>3, <3>4, <3>5, <3>6
  <2>6. ASSUME NEW n \in Contexts, NEW m, NEW k
        PROVE  verify_transaction_signature(m, n, tx.signature, k) <=>
                 /\ k = i /\ m = Payload(tx)
                 /\ n.account_nonce = 0 /\ n.timestamp_ms = t.signed
                 /\ n.chain_state_hash = zero_state
    <3>. HIDE DEF own
    <3>1. HasState(n)
      BY <2>5 DEF HasState
    <3>2. \A x, y, z : HasState(y) =>
             (verify_transaction_signature(x, y, tx.signature, z) <=>
                 /\ z = i /\ x = Payload(tx)
                 /\ y.account_nonce = 0 /\ y.timestamp_ms = t.signed
                 /\ y.chain_state_hash = zero_state)
      BY <2>1, VerifiesOwnContext
    <3>. QED
      BY <3>1, <3>2
  <2>. HIDE DEF own
  <2>7. Accepted(tx, tx) = {own}
    BY <2>2, <2>4, <2>5, <2>6 DEF Accepted
  <2>8. \A u \in signed : Accepted(u, tx) # {} => Payload(u) = Payload(tx)
    BY <2>6 DEF Accepted
  <2>. QED
    BY <2>2, <2>3, <2>7, <2>8 DEF own
<1>2. SignatureBinds
  BY <1>1 DEF SignatureBinds
<1>3. ASSUME NEW x \in signed, NEW y \in signed, x.hash = y.hash
      PROVE  x = y
  <2>1. PICK i, receiver, amount, fee, type, t : MadeBy(x, i, receiver, amount, fee, type, t)
    BY DEF SignInv, Made
  <2>2. PICK j, receiver2, amount2, fee2, type2, t2 :
           MadeBy(y, j, receiver2, amount2, fee2, type2, t2)
    BY DEF SignInv, Made
  <2> DEFINE xp == Payload(x)
             yp == Payload(y)
  <2>3. /\ x.signature = [key |-> i, message |-> Signed(xp, t.signed)]
        /\ x.hash[4] = x.signature
        /\ x = Fields(xp.sender, xp.receiver, xp.amount, xp.fee, xp.nonce,
                      xp.type, xp.timestamp, x.signature, x.hash)
    BY <2>1, MadeParts
  <2>4. /\ y.signature = [key |-> j, message |-> Signed(yp, t2.signed)]
        /\ y.hash[4] = y.signature
        /\ y = Fields(yp.sender, yp.receiver, yp.amount, yp.fee, yp.nonce,
                      yp.type, yp.timestamp, y.signature, y.hash)
    BY <2>2, MadeParts
  <2>. HIDE DEF xp, yp
  <2>5. x.signature = y.signature
    BY <1>3, <2>3, <2>4
  <2>6. Signed(xp, t.signed) = Signed(yp, t2.signed)
    BY <2>3, <2>4, <2>5
  <2> DEFINE n == TransactionNonce(0, t.signed, zero_state)
             n2 == TransactionNonce(0, t2.signed, zero_state)
  <2>7. n.chain_state_hash \in Seq(Nat) /\ n2.chain_state_hash \in Seq(Nat)
    BY DEF TransactionNonce, zero_state
  <2>. HIDE DEF n, n2
  <2>8. bind_message_to_nonce(xp, n) = bind_message_to_nonce(yp, n2)
    BY <2>6 DEF Signed, n, n2
  <2>9. xp = yp
    BY <2>7, <2>8, BindingTellsApart
  <2>. QED
    BY <1>3, <2>3, <2>4, <2>5, <2>9, Zenon
<1>. QED
  BY <1>2, <1>3 DEF HashIdentifies

\* A signature that the wallet made verifies in one context only, and for no
\* other transaction: bind_message_to_nonce covers all that a builder chooses.
THEOREM WalletSignatureBinds == Spec => []SignatureBinds
BY WalletSignInv, SignInvImplies, PTL

\* Two transactions that the wallet signed have different hashes, although
\* compute_transaction_hash runs the digits of three numbers together.
THEOREM WalletHashIdentifies == Spec => []HashIdentifies
BY WalletSignInv, SignInvImplies, PTL

-----------------------------------------------------------------------------
(***************************************************************************)
(* The files.  A path on which no two invocations ever met has at most one *)
(* invocation at work, and none while its file exists; so only that one    *)
(* writes the temporary file, and nobody the file at the path.             *)
(***************************************************************************)
Stages == {"password", "open", "write", "rename"}

\* The keys, contents and invocations there are.
Keys == {<<>>} \cup {derive_key_for_storage(pw) : pw \in Password \cup {""}}
Held == [whole : BOOLEAN, key : Keys, wallet : Nat]
Command ==
    [at : Stages, path : Path, wallet : Nat, password : Password \cup {""}, file : Nat,
     shared : BOOLEAN]
Waiting == [at : {"phrase"}, path : Path]

\* The types of the variables.
Shapes ==
    /\ dir \in [Name -> Nat]
    /\ contents \in Seq(Held)
    /\ proc \in [Process -> {Idle} \cup Waiting \cup Command]
    /\ generated \in Nat
    /\ saved \subseteq [path : Path, wallet : Nat, password : Password \cup {""}]
    /\ overlap \subseteq Path

\* A file has one name.
NamesApart ==
    /\ \A n \in Name : dir[n] <= Len(contents)
    /\ \A m, n \in Name : dir[m] = dir[n] /\ dir[m] # 0 => m = n

\* The file that an invocation is writing is known by no name of another path;
\* without an overlap it is the temporary file, and not shared.
WritersApart ==
    \A p \in Process : proc[p].at = "write" =>
        LET path == proc[p].path IN
        /\ proc[p].file \in 1..Len(contents)
        /\ \A n \in Name : dir[n] = proc[p].file => n \in {path, Temp(path)}
        /\ path \notin overlap => dir[Temp(path)] = proc[p].file /\ ~proc[p].shared

\* Without an overlap, one invocation works on a path, and only to create the
\* file.
OneAtWork ==
    \A path \in Path \ overlap :
        /\ \A p, q \in Process : Working(p, path) /\ Working(q, path) => p = q
        /\ dir[path] # 0 => \A p \in Process : ~Working(p, path)

\* What is about to be renamed is complete.
CompleteAtRename ==
    \A p \in Process :
        /\ proc[p].at = "rename"
        /\ proc[p].path \notin overlap
        /\ dir[Temp(proc[p].path)] # 0
        => contents[dir[Temp(proc[p].path)]] = encrypt(proc[p].wallet, proc[p].password)

\* A saved wallet is still in its file.
SavedKept ==
    \A s \in saved : s.path \notin overlap =>
        dir[s.path] # 0 /\ contents[dir[s.path]] = encrypt(s.wallet, s.password)

\* The inductive invariant of the files.
FileInv ==
    /\ Shapes
    /\ NamesApart
    /\ WritersApart
    /\ OneAtWork
    /\ CompleteAtRename
    /\ WholeOrAbsent
    /\ SavedKept

\* The fields of an invocation.
LEMMA InvocationShape ==
    ASSUME FileInv, NEW p \in Process
    PROVE  /\ proc[p].at \in {"idle", "phrase"} \cup Stages
           /\ proc[p].at = "idle" <=> proc[p] = Idle
           /\ proc[p].at # "idle" => proc[p].path \in Path
           /\ proc[p].at \in Stages => proc[p] \in Command
<1>1. proc[p] \in {Idle} \cup Waiting \cup Command
  BY DEF FileInv, Shapes
<1>2. CASE proc[p] = Idle
  BY <1>2 DEF Idle, Stages
<1>3. CASE proc[p] \in Waiting
  BY <1>3 DEF Waiting, Stages, Idle
<1>4. CASE proc[p] \in Command
  <2>1. proc[p].at \in Stages /\ proc[p].path \in Path
    BY <1>4 DEF Command
  <2>2. proc[p].at # "idle"
    BY <2>1 DEF Stages
  <2>3. Idle.at = "idle"
    BY DEF Idle
  <2>. QED
    BY <1>4, <2>1, <2>2, <2>3
<1>. QED
  BY <1>1, <1>2, <1>3, <1>4

\* Names and writers lead to files.
LEMMA FilesKnown ==
    ASSUME FileInv
    PROVE  /\ contents \in Seq(Held) /\ Len(contents) \in Nat /\ Partial \in Held
           /\ \A n \in Name : dir[n] \in Nat /\ (dir[n] # 0 => dir[n] \in 1..Len(contents))
           /\ \A p \in Process : proc[p].at = "write" => proc[p].file \in 1..Len(contents)
<1>1. contents \in Seq(Held) /\ dir \in [Name -> Nat]
  BY DEF FileInv, Shapes
<1>2. Len(contents) \in Nat
  BY <1>1
<1>3. Partial \in Held
  BY DEF Held, Partial, Keys
<1>4. \A n \in Name : dir[n] \in Nat /\ dir[n] <= Len(contents)
  BY <1>1 DEF FileInv, NamesApart
<1>5. \A p \in Process : proc[p].at = "write" => proc[p].file \in 1..Len(contents)
  BY DEF FileInv, WritersApart
<1>. QED
  BY <1>1, <1>2, <1>3, <1>4, <1>5

\* Paths and temporary names do not meet.
LEMMA NamesDiffer ==
    /\ \A path \in Path : path \in Name /\ Temp(path) \in Name /\ Temp(path) # path
    /\ \A path, q \in Path : Temp(path) # q /\ (Temp(path) = Temp(q) => path = q)
BY TempAssumption DEF Name

\* Writing to a file leaves the others alone.
LEMMA WriteFile ==
    ASSUME NEW s \in Seq(Held), NEW f \in 1..Len(s), NEW c \in Held
    PROVE  /\ [s EXCEPT ![f] = c] \in Seq(Held)
           /\ Len([s EXCEPT ![f] = c]) = Len(s)
           /\ [s EXCEPT ![f] = c][f] = c
           /\ \A g \in 1..Len(s) : g # f => [s EXCEPT ![f] = c][g] = s[g]
OBVIOUS

\* A file that is created leaves the others alone.
LEMMA NewFile ==
    ASSUME NEW s \in Seq(Held), NEW c \in Held
    PROVE  /\ Append(s, c) \in Seq(Held)
           /\ Len(Append(s, c)) = Len(s) + 1
           /\ \A g \in 1..Len(s) : Append(s, c)[g] = s[g]
OBVIOUS

\* What a command starts with.
LEMMA HasWalletShape ==
    ASSUME NEW path \in Path, NEW i \in Nat
    PROVE  /\ HasWallet(path, i) \in Command
           /\ HasWallet(path, i).at = "password" /\ HasWallet(path, i).path = path
BY DEF HasWallet, Command, Stages

\* cmd_create and cmd_restore: an invocation starts on a path without a file.
LEMMA StartKeeps ==
    ASSUME FileInv, NEW p \in Process, NEW path \in Path, proc[p] = Idle, ~wallet_exists(path),
           NEW new \in Waiting \cup Command, new.at \in {"phrase", "password"}, new.path = path,
           Move(p, new), MarkOverlap(p, path), generated' \in Nat,
           UNCHANGED <<files, saved>>
    PROVE  FileInv'
<1> USE DEF FileInv
<1>1. /\ \A q \in Process \ {p} : proc'[q] = proc[q]
      /\ proc'[p] = new
  BY DEF Move, Shapes
<1>2. overlap \subseteq overlap' /\ overlap' \subseteq overlap \cup {path}
  BY DEF MarkOverlap
<1>3. dir' = dir /\ contents' = contents /\ saved' = saved
  BY DEF files
<1>4. Shapes'
  BY <1>2, <1>3 DEF Shapes, Move
<1>5. NamesApart'
  BY <1>3 DEF NamesApart
<1>6. WritersApart'
  BY <1>1, <1>2, <1>3 DEF WritersApart
<1>7. OneAtWork'
  <2>1. ASSUME NEW x \in Path \ overlap', NEW q \in Process, NEW r \in Process,
               Working(q, x)', Working(r, x)'
        PROVE  q = r
    BY <1>1, <1>2, <2>1 DEF OneAtWork, Working, MarkOverlap
  <2>2. ASSUME NEW x \in Path \ overlap', dir'[x] # 0, NEW q \in Process
        PROVE  ~Working(q, x)'
    BY <1>1, <1>2, <1>3, <2>2 DEF OneAtWork, Working, wallet_exists
  <2>. QED
    BY <2>1, <2>2 DEF OneAtWork
<1>8. CompleteAtRename'
  BY <1>1, <1>2, <1>3 DEF CompleteAtRename
<1>9. WholeOrAbsent'
  BY <1>2, <1>3 DEF WholeOrAbsent, wallet_exists
<1>10. SavedKept'
  BY <1>2, <1>3 DEF SavedKept
<1>. QED
  BY <1>4, <1>5, <1>6, <1>7, <1>8, <1>9, <1>10

\* EnterPhrase and EnterPasswords: an invocation goes on without its files.
LEMMA PromptKeeps ==
    ASSUME FileInv, NEW p \in Process, proc[p].at # "idle",
           NEW new \in Command, new.at \in {"password", "open"}, new.path = proc[p].path,
           Move(p, new), generated' \in Nat, UNCHANGED <<files, saved, overlap>>
    PROVE  FileInv'
<1> USE DEF FileInv
<1>1. /\ \A q \in Process \ {p} : proc'[q] = proc[q]
      /\ proc'[p] = new
  BY DEF Move, Shapes
<1>3. dir' = dir /\ contents' = contents /\ saved' = saved /\ overlap' = overlap
  BY DEF files
<1>4. Shapes'
  BY <1>3 DEF Shapes, Move
<1>5. NamesApart'
  BY <1>3 DEF NamesApart
<1>6. WritersApart'
  BY <1>1, <1>3 DEF WritersApart
<1>7. OneAtWork'
  <2>1. \A q \in Process, x \in Path : Working(q, x)' => Working(q, x)
    BY <1>1 DEF Working
  <2>. QED
    BY <1>3, <2>1 DEF OneAtWork
<1>8. CompleteAtRename'
  BY <1>1, <1>3 DEF CompleteAtRename
<1>9. WholeOrAbsent'
  BY <1>3 DEF WholeOrAbsent, wallet_exists
<1>10. SavedKept'
  BY <1>3 DEF SavedKept
<1>. QED
  BY <1>4, <1>5, <1>6, <1>7, <1>8, <1>9, <1>10

\* Stop: the file that was being written is left with a part of its bytes.
LEMMA StopKeeps ==
    ASSUME FileInv, NEW p \in Process, Stop(p)
    PROVE  FileInv'
<1> USE DEF FileInv
<1>1. /\ \A q \in Process \ {p} : proc'[q] = proc[q]
      /\ proc'[p] = Idle
      /\ proc[p].at # "idle" /\ proc[p].path \in Path
  BY InvocationShape DEF Stop, Move, Shapes
<1>2. dir' = dir /\ saved' = saved /\ overlap' = overlap /\ generated' = generated
  BY DEF Stop
<1>3. /\ contents' \in Seq(Held)
      /\ Len(contents') = Len(contents)
      /\ \A f \in 1..Len(contents) :
            ~(proc[p].at = "write" /\ f = proc[p].file) => contents'[f] = contents[f]
  <2>. HIDE DEF FileInv
  <2>1. contents \in Seq(Held) /\ Partial \in Held
    BY FilesKnown
  <2>2. CASE proc[p].at # "write"
    BY <2>1, <2>2 DEF Stop
  <2>3. CASE proc[p].at = "write"
    <3>1. proc[p].file \in 1..Len(contents)
      BY <2>3, FilesKnown
    <3>2. contents' = [contents EXCEPT ![proc[p].file] = Partial]
      BY <2>3 DEF Stop
    <3>3. contents' \in Seq(Held)
      BY <2>1, <3>1, <3>2, WriteFile
    <3>4. Len(contents') = Len(contents)
      BY <2>1, <3>1, <3>2, WriteFile
    <3>5. \A f \in 1..Len(contents) : f # proc[p].file => contents'[f] = contents[f]
      BY <2>1, <3>1, <3>2, WriteFile
    <3>. QED
      BY <2>3, <3>3, <3>4, <3>5
  <2>. QED
    BY <2>2, <2>3
<1>4. Idle.at = "idle"
  BY DEF Idle
<1>5. Shapes'
  BY <1>2, <1>3 DEF Shapes, Stop, Move
<1>6. NamesApart'
  BY <1>2, <1>3 DEF NamesApart
<1>7. WritersApart'
  BY <1>1, <1>2, <1>3, <1>4 DEF WritersApart
<1>8. OneAtWork'
  <2>1. \A q \in Process, x \in Path : Working(q, x)' => Working(q, x)
    BY <1>1, <1>4 DEF Working
  <2>. QED
    BY <1>2, <2>1 DEF OneAtWork
<1>9. ASSUME NEW n \in Name, dir[n] # 0, n \notin {proc[p].path, Temp(proc[p].path)}
      PROVE  contents'[dir'[n]] = contents[dir[n]]
  <2>1. dir[n] \in 1..Len(contents)
    BY <1>9, FilesKnown
  <2>2. ~(proc[p].at = "write" /\ dir[n] = proc[p].file)
    BY <1>9 DEF WritersApart
  <2>. QED
    BY <1>2, <1>3, <2>1, <2>2
<1>10. CompleteAtRename'
  <2>1. ASSUME NEW q \in Process, proc'[q].at = "rename", proc'[q].path \notin overlap,
               dir[Temp(proc'[q].path)] # 0
        PROVE  contents'[dir[Temp(proc'[q].path)]] = encrypt(proc'[q].wallet, proc'[q].password)
    <3>1. q # p /\ proc'[q] = proc[q] /\ proc[q].path \in Path
      BY <1>1, <1>4, <2>1, InvocationShape
    <3>2. proc[q].path # proc[p].path
      BY <1>1, <2>1, <3>1 DEF OneAtWork, Working
    <3>3. contents'[dir[Temp(proc[q].path)]] = contents[dir[Temp(proc[q].path)]]
      BY <1>1, <1>2, <1>9, <2>1, <3>1, <3>2, NamesDiffer
    <3>. QED
      BY <2>1, <3>1, <3>3 DEF CompleteAtRename
  <2>. QED
    BY <1>2, <2>1 DEF CompleteAtRename, encrypt, derive_key_for_storage
<1>11. ASSUME NEW x \in Path \ overlap, dir[x] # 0
       PROVE  contents'[dir'[x]] = contents[dir[x]]
  <2>1. x # proc[p].path
    BY <1>1, <1>11 DEF OneAtWork, Working
  <2>. QED
    BY <1>1, <1>9, <1>11, <2>1, NamesDiffer
<1>12. WholeOrAbsent'
  BY <1>2, <1>11 DEF WholeOrAbsent, wallet_exists
<1>13. SavedKept'
  BY <1>2, <1>11 DEF SavedKept, Shapes, encrypt, derive_key_for_storage
<1>. QED
  BY <1>5, <1>6, <1>7, <1>8, <1>10, <1>12, <1>13

\* delete_wallet: the path and its record go together.
LEMMA DeleteKeeps ==
    ASSUME FileInv, NEW path \in Path, delete_wallet(path)
    PROVE  FileInv'
<1>1. /\ dir' = [dir EXCEPT ![path] = 0]
      /\ saved' = {s \in saved : s.path # path}
      /\ contents' = contents /\ proc' = proc /\ overlap' = overlap /\ generated' = generated
  BY DEF delete_wallet
<1>2. /\ dir' \in [Name -> Nat] /\ dir'[path] = 0
      /\ \A n \in Name : n # path => dir'[n] = dir[n]
  BY <1>1, NamesDiffer DEF FileInv, Shapes
<1>3. Shapes'
  BY <1>1, <1>2 DEF FileInv, Shapes
<1>4. NamesApart'
  BY <1>1, <1>2, FilesKnown DEF FileInv, NamesApart
<1>5. WritersApart'
  <2>1. ASSUME NEW p \in Process, proc[p].at = "write"
        PROVE  /\ proc[p].file \in 1..Len(contents)
               /\ \A n \in Name : dir'[n] = proc[p].file => n \in {proc[p].path, Temp(proc[p].path)}
               /\ proc[p].path \notin overlap
                     => dir'[Temp(proc[p].path)] = proc[p].file /\ ~proc[p].shared
    <3>1. proc[p].path \in Path
      BY <2>1, InvocationShape
    <3>2. proc[p].file \in 1..Len(contents) /\ proc[p].file # 0
      BY <2>1, FilesKnown
    <3>3. dir'[Temp(proc[p].path)] = dir[Temp(proc[p].path)]
      BY <1>2, <3>1, NamesDiffer
    <3>. QED
      BY <1>2, <2>1, <3>2, <3>3 DEF FileInv, WritersApart
  <2>. QED
    BY <1>1, <2>1 DEF WritersApart
<1>6. OneAtWork'
  BY <1>1, <1>2, NamesDiffer DEF FileInv, OneAtWork, Working
<1>7. CompleteAtRename'
  <2>1. ASSUME NEW p \in Process, proc[p].at = "rename"
        PROVE  dir'[Temp(proc[p].path)] = dir[Temp(proc[p].path)]
    BY <1>2, <2>1, InvocationShape, NamesDiffer
  <2>. QED
    BY <1>1, <2>1 DEF FileInv, CompleteAtRename, encrypt, derive_key_for_storage
<1>8. WholeOrAbsent'
  BY <1>1, <1>2, NamesDiffer DEF FileInv, WholeOrAbsent, wallet_exists
<1>9. SavedKept'
  <2>1. ASSUME NEW s \in saved, s.path # path
        PROVE  dir'[s.path] = dir[s.path]
    BY <1>2, <2>1, NamesDiffer DEF FileInv, Shapes
  <2>. QED
    BY <1>1, <2>1 DEF FileInv, SavedKept, encrypt, derive_key_for_storage
<1>. QED
  BY <1>3, <1>4, <1>5, <1>6, <1>7, <1>8, <1>9 DEF FileInv

\* save_wallet_v2, fs::write begins: the temporary file is emptied or created.
LEMMA OpenKeeps ==
    ASSUME FileInv, NEW p \in Process, OpenTemp(p)
    PROVE  FileInv'
<1> DEFINE path == proc[p].path
           name == Temp(path)
           f == IF dir[name] = 0 THEN Len(contents) + 1 ELSE dir[name]
           others == {q \in Process \ {p} : proc[q].at = "write" /\ proc[q].file = f}
<1>1. /\ proc[p].at = "open"
      /\ dir' = [dir EXCEPT ![name] = f]
      /\ contents' = IF dir[name] = 0 THEN Append(contents, Partial)
                     ELSE [contents EXCEPT ![f] = Partial]
      /\ proc' = [q \in Process |->
                    IF q = p THEN [proc[p] EXCEPT !.at = "write", !.file = f, !.shared = others # {}]
                    ELSE IF q \in others THEN [proc[q] EXCEPT !.shared = TRUE]
                    ELSE proc[q]]
      /\ generated' = generated /\ saved' = saved /\ overlap' = overlap
  BY DEF OpenTemp, temp_path
<1>2. path \in Path /\ name \in Name /\ proc[p] \in Command
  BY <1>1, InvocationShape, NamesDiffer DEF Stages
<1>3. f \in Nat \ {0}
  BY <1>2, FilesKnown
<1>4. /\ contents' \in Seq(Held)
      /\ Len(contents') \in Nat /\ Len(contents') >= Len(contents) /\ f <= Len(contents')
      /\ \A g \in 1..Len(contents) : g # f => contents'[g] = contents[g]
  <2>1. contents \in Seq(Held) /\ Partial \in Held /\ Len(contents) \in Nat
    BY FilesKnown
  <2>2. CASE dir[name] = 0
    <3>1. contents' = Append(contents, Partial) /\ f = Len(contents) + 1
      BY <1>1, <2>2
    <3>. HIDE DEF f
    <3>2. contents' \in Seq(Held)
      BY <2>1, <3>1, NewFile
    <3>3. Len(contents') = Len(contents) + 1
      BY <2>1, <3>1, NewFile
    <3>4. \A g \in 1..Len(contents) : contents'[g] = contents[g]
      BY <2>1, <3>1, NewFile
    <3>. QED
      BY <2>1, <3>1, <3>2, <3>3, <3>4
  <2>3. CASE dir[name] # 0
    <3>1. f \in 1..Len(contents)
      BY <1>2, <2>3, FilesKnown
    <3>2. contents' = [contents EXCEPT ![f] = Partial]
      BY <1>1, <2>3
    <3>. HIDE DEF f
    <3>3. contents' \in Seq(Held)
      BY <2>1, <3>1, <3>2, WriteFile
    <3>4. Len(contents') = Len(contents)
      BY <2>1, <3>1, <3>2, WriteFile
    <3>5. \A g \in 1..Len(contents) : g # f => contents'[g] = contents[g]
      BY <2>1, <3>1, <3>2, WriteFile
    <3>. QED
      BY <2>1, <3>1, <3>3, <3>4, <3>5
  <2>. QED
    BY <2>2, <2>3
<1>5. /\ dir' \in [Name -> Nat] /\ dir'[name] = f
      /\ \A n \in Name : n # name => dir'[n] = dir[n] /\ dir[n] # f
  <2>1. \A n \in Name : n # name => dir[n] # f
    BY <1>2, FilesKnown DEF FileInv, NamesApart
  <2>. HIDE DEF f
  <2>. QED
    BY <1>1, <1>2, <1>3, <2>1 DEF FileInv, Shapes
<1>6. ASSUME NEW q \in others
      PROVE  proc[q].path = path /\ path \in overlap
  <2>1. q \in Process /\ q # p /\ proc[q].at = "write" /\ proc[q].file = f
    OBVIOUS
  <2>2. f # Len(contents) + 1
    BY <2>1, FilesKnown
  <2>3. dir[name] = f
    BY <2>2
  <2>. HIDE DEF f, others
  <2>4. name \in {proc[q].path, Temp(proc[q].path)} /\ proc[q].path \in Path
    BY <1>2, <2>1, <2>3, InvocationShape DEF FileInv, WritersApart
  <2>5. proc[q].path = path
    BY <1>2, <2>4, NamesDiffer
  <2>. QED
    BY <1>1, <1>2, <2>1, <2>5 DEF FileInv, OneAtWork, Working
<1>7. /\ proc'[p] \in Command /\ proc'[p].at = "write" /\ proc'[p].file = f
      /\ proc'[p].path = path /\ proc'[p].shared = (others # {})
  <2>. HIDE DEF f, others
  <2>. QED
    BY <1>1, <1>2, <1>3 DEF Command, Stages
<1>8. ASSUME NEW q \in Process, q # p
      PROVE  /\ proc'[q] \in {Idle} \cup Waiting \cup Command
             /\ proc'[q].at = proc[q].at
             /\ proc[q].at # "idle" => proc'[q].path = proc[q].path
             /\ proc[q].at \in Stages => /\ proc'[q].file = proc[q].file
                                         /\ proc'[q].wallet = proc[q].wallet
                                         /\ proc'[q].password = proc[q].password
             /\ q \notin others => proc'[q] = proc[q]
  <2>1. CASE q \in others
    <3>1. proc[q] \in Command
      BY <2>1, InvocationShape DEF Stages
    <3>. HIDE DEF others
    <3>2. proc'[q] = [proc[q] EXCEPT !.shared = TRUE]
      BY <1>1, <1>8, <2>1
    <3>. QED
      BY <2>1, <3>1, <3>2 DEF Command
  <2>2. CASE q \notin others
    <3>. HIDE DEF others
    <3>. QED
      BY <1>1, <1>8, <2>2 DEF FileInv, Shapes
  <2>. QED
    BY <2>1, <2>2
<1>. HIDE DEF f, others
<1>9. Shapes'
  <2>1. \A q \in Process : proc'[q] \in {Idle} \cup Waiting \cup Command
    BY <1>7, <1>8
  <2>2. proc' \in [Process -> {Idle} \cup Waiting \cup Command]
    BY <1>1, <2>1
  <2>. QED
    BY <1>1, <1>4, <1>5, <2>2 DEF FileInv, Shapes
<1>10. NamesApart'
  BY <1>3, <1>4, <1>5, FilesKnown DEF FileInv, NamesApart
<1>11. \A q \in Process, x \in Path : Working(q, x)' <=> Working(q, x)
  BY <1>1, <1>7, <1>8 DEF Working
<1>12. WritersApart'
  <2>1. ASSUME NEW q \in Process, proc'[q].at = "write"
        PROVE  /\ proc'[q].file \in 1..Len(contents')
               /\ \A n \in Name : dir'[n] = proc'[q].file => n \in {proc'[q].path, Temp(proc'[q].path)}
               /\ proc'[q].path \notin overlap
                     => dir'[Temp(proc'[q].path)] = proc'[q].file /\ ~proc'[q].shared
    <3>1. CASE q = p
      <4>1. f \in 1..Len(contents')
        BY <1>3, <1>4
      <4>2. \A n \in Name : dir'[n] = f => n = name
        BY <1>5
      <4>3. path \notin overlap => others = {}
        BY <1>6
      <4>. QED
        BY <1>5, <1>7, <3>1, <4>1, <4>2, <4>3
    <3>2. CASE q # p
      <4>1. /\ proc[q].at = "write" /\ proc'[q].file = proc[q].file
            /\ proc'[q].path = proc[q].path /\ proc[q].path \in Path
            /\ proc[q].file \in 1..Len(contents)
        BY <1>8, <2>1, <3>2, InvocationShape, FilesKnown DEF Stages
      <4>2. proc[q].file \in 1..Len(contents')
        BY <1>4, <4>1, FilesKnown
      <4>3. CASE q \in others
        <5>1. proc[q].path = path /\ path \in overlap /\ proc[q].file = f
          BY <1>6, <4>3 DEF others
        <5>. QED
          BY <1>5, <4>1, <4>2, <5>1
      <4>4. CASE q \notin others
        <5>1. proc[q].file # f /\ proc'[q] = proc[q]
          BY <1>8, <3>2, <4>1, <4>4 DEF others
        <5>2. proc[q].path \notin overlap => proc[q].path # path
          BY <1>1, <1>2, <3>2, <4>1 DEF FileInv, OneAtWork, Working
        <5>3. \A n \in Name : dir'[n] = proc[q].file => dir[n] = proc[q].file
          BY <1>5, <5>1
        <5>4. proc[q].path \notin overlap => dir'[Temp(proc[q].path)] = dir[Temp(proc[q].path)]
          BY <1>2, <1>5, <4>1, <5>2, NamesDiffer
        <5>. QED
          BY <4>1, <4>2, <5>1, <5>3, <5>4 DEF FileInv, WritersApart
      <4>. QED
        BY <4>3, <4>4
    <3>. QED
      BY <3>1, <3>2
  <2>. QED
    BY <1>1, <2>1 DEF WritersApart
<1>13. OneAtWork'
  <2>1. \A x \in Path : dir'[x] = dir[x]
    BY <1>2, <1>5, NamesDiffer
  <2>. QED
    BY <1>1, <1>11, <2>1 DEF FileInv, OneAtWork
<1>14. ASSUME NEW n \in Name, n # name, dir[n] # 0
       PROVE  dir'[n] = dir[n] /\ contents'[dir'[n]] = contents[dir[n]]
  BY <1>4, <1>5, <1>14, FilesKnown
<1>15. CompleteAtRename'
  <2>1. ASSUME NEW q \in Process, proc'[q].at = "rename", proc'[q].path \notin overlap,
               dir'[Temp(proc'[q].path)] # 0
        PROVE  contents'[dir'[Temp(proc'[q].path)]] = encrypt(proc'[q].wallet, proc'[q].password)
    <3>1. /\ q # p /\ proc[q].at = "rename" /\ proc'[q].path = proc[q].path
          /\ proc'[q].wallet = proc[q].wallet /\ proc'[q].password = proc[q].password
          /\ proc[q].path \in Path
      BY <1>7, <1>8, <2>1, InvocationShape DEF Stages
    <3>2. proc[q].path # path
      BY <1>1, <1>2, <2>1, <3>1 DEF FileInv, OneAtWork, Working
    <3>3. Temp(proc[q].path) # name /\ Temp(proc[q].path) \in Name
      BY <1>2, <3>1, <3>2, NamesDiffer
    <3>4. dir[Temp(proc[q].path)] # 0
      BY <1>5, <2>1, <3>1, <3>3
    <3>5. contents'[dir'[Temp(proc[q].path)]] = contents[dir[Temp(proc[q].path)]]
      BY <1>14, <3>3, <3>4
    <3>. QED
      BY <2>1, <3>1, <3>4, <3>5 DEF FileInv, CompleteAtRename
  <2>. QED
    BY <1>1, <2>1 DEF CompleteAtRename, encrypt, derive_key_for_storage
<1>16. ASSUME NEW x \in Path
       PROVE  dir'[x] = dir[x] /\ (dir[x] # 0 => contents'[dir'[x]] = contents[dir[x]])
  <2>1. x \in Name /\ x # name
    BY <1>2, NamesDiffer
  <2>. QED
    BY <1>5, <1>14, <2>1
<1>17. WholeOrAbsent'
  BY <1>1, <1>16 DEF FileInv, WholeOrAbsent, wallet_exists
<1>18. SavedKept'
  BY <1>1, <1>16 DEF FileInv, SavedKept, Shapes, encrypt, derive_key_for_storage
<1>. QED
  BY <1>9, <1>10, <1>12, <1>13, <1>15, <1>17, <1>18 DEF FileInv

\* save_wallet_v2, fs::write ends.
LEMMA WriteKeeps ==
    ASSUME FileInv, NEW p \in Process, WriteTemp(p)
    PROVE  FileInv'
<1> DEFINE path == proc[p].path
           file == proc[p].file
           full == encrypt(proc[p].wallet, proc[p].password)
<1>1. /\ proc[p].at = "write"
      /\ proc' = [proc EXCEPT ![p] = [proc[p] EXCEPT !.at = "rename"]]
      /\ dir' = dir /\ generated' = generated /\ saved' = saved /\ overlap' = overlap
  BY DEF WriteTemp, Move
<1>2. path \in Path /\ proc[p] \in Command /\ file \in 1..Len(contents)
  BY <1>1, InvocationShape, FilesKnown DEF Stages
<1>3. PICK c \in {full} \cup (IF proc[p].shared THEN {Partial} ELSE {}) :
         contents' = [contents EXCEPT ![file] = c]
  BY DEF WriteTemp
<1>4. c \in Held
  <2>1. proc[p].wallet \in Nat /\ proc[p].password \in Password \cup {""}
    BY <1>2 DEF Command
  <2>2. full \in Held
    <3>1. derive_key_for_storage(proc[p].password) \in Keys
      BY <2>1 DEF Keys
    <3>. QED
      BY <2>1, <3>1 DEF Held, encrypt
  <2>3. Partial \in Held
    BY FilesKnown
  <2>. HIDE DEF full
  <2>. QED
    BY <1>3, <2>2, <2>3
<1>5. /\ contents' \in Seq(Held) /\ Len(contents') = Len(contents)
      /\ contents'[file] = c
      /\ \A g \in 1..Len(contents) : g # file => contents'[g] = contents[g]
  <2>1. contents \in Seq(Held)
    BY FilesKnown
  <2>. HIDE DEF file
  <2>. QED
    BY <1>2, <1>3, <1>4, <2>1, WriteFile
<1>6. /\ proc' \in [Process -> {Idle} \cup Waiting \cup Command]
      /\ proc'[p].at = "rename" /\ proc'[p].path = path
      /\ proc'[p].wallet = proc[p].wallet /\ proc'[p].password = proc[p].password
      /\ \A q \in Process : q # p => proc'[q] = proc[q]
  <2>1. [proc[p] EXCEPT !.at = "rename"] \in Command
    BY <1>2 DEF Command, Stages
  <2>2. proc' \in [Process -> {Idle} \cup Waiting \cup Command]
    BY <1>1, <2>1 DEF FileInv, Shapes
  <2>3. proc'[p] = [proc[p] EXCEPT !.at = "rename"] /\ \A q \in Process : q # p => proc'[q] = proc[q]
    BY <1>1 DEF FileInv, Shapes
  <2>. QED
    BY <1>2, <2>2, <2>3 DEF Command
<1>. HIDE DEF full
<1>7. Shapes'
  BY <1>1, <1>5, <1>6 DEF FileInv, Shapes
<1>8. NamesApart'
  BY <1>1, <1>5 DEF FileInv, NamesApart
<1>9. WritersApart'
  BY <1>1, <1>5, <1>6 DEF FileInv, WritersApart
<1>10. OneAtWork'
  <2>1. \A q \in Process, x \in Path : Working(q, x)' <=> Working(q, x)
    BY <1>1, <1>6 DEF Working
  <2>. QED
    BY <1>1, <2>1 DEF FileInv, OneAtWork
<1>11. ASSUME NEW n \in Name, dir[n] # 0, n \notin {path, Temp(path)}
       PROVE  contents'[dir[n]] = contents[dir[n]]
  <2>1. dir[n] # file
    BY <1>1, <1>11 DEF FileInv, WritersApart
  <2>2. dir[n] \in 1..Len(contents)
    BY <1>11, FilesKnown
  <2>. QED
    BY <1>5, <2>1, <2>2
<1>12. CompleteAtRename'
  <2>1. ASSUME NEW q \in Process, proc'[q].at = "rename", proc'[q].path \notin overlap,
               dir[Temp(proc'[q].path)] # 0
        PROVE  contents'[dir[Temp(proc'[q].path)]] = encrypt(proc'[q].wallet, proc'[q].password)
    <3>1. CASE q = p
      <4>1. dir[Temp(path)] = file /\ ~proc[p].shared
        BY <1>1, <1>6, <2>1, <3>1 DEF FileInv, WritersApart
      <4>2. c = full
        BY <1>3, <4>1
      <4>. QED
        BY <1>5, <1>6, <3>1, <4>1, <4>2 DEF full
    <3>2. CASE q # p
      <4>1. proc'[q] = proc[q] /\ proc[q].path \in Path
        BY <1>6, <2>1, <3>2, InvocationShape
      <4>2. proc[q].path # path
        BY <1>1, <1>2, <2>1, <3>2, <4>1 DEF FileInv, OneAtWork, Working
      <4>3. contents'[dir[Temp(proc[q].path)]] = contents[dir[Temp(proc[q].path)]]
        BY <1>2, <1>11, <2>1, <4>1, <4>2, NamesDiffer
      <4>. QED
        BY <2>1, <4>1, <4>3 DEF FileInv, CompleteAtRename
    <3>. QED
      BY <3>1, <3>2
  <2>. QED
    BY <1>1, <2>1 DEF CompleteAtRename, encrypt, derive_key_for_storage
<1>13. ASSUME NEW x \in Path \ overlap, dir[x] # 0
       PROVE  contents'[dir[x]] = contents[dir[x]]
  <2>1. x # path
    BY <1>1, <1>2, <1>13 DEF FileInv, OneAtWork, Working
  <2>. QED
    BY <1>2, <1>11, <1>13, <2>1, NamesDiffer
<1>14. WholeOrAbsent'
  BY <1>1, <1>13 DEF FileInv, WholeOrAbsent, wallet_exists
<1>15. SavedKept'
  BY <1>1, <1>13 DEF FileInv, SavedKept, Shapes, encrypt, derive_key_for_storage
<1>. QED
  BY <1>7, <1>8, <1>9, <1>10, <1>12, <1>14, <1>15 DEF FileInv

\* save_wallet_v2, fs::rename.
LEMMA RenameKeeps ==
    ASSUME FileInv, NEW p \in Process, RenameTemp(p)
    PROVE  FileInv'
<1> DEFINE path == proc[p].path
           f == dir[Temp(path)]
           record == [path |-> path, wallet |-> proc[p].wallet, password |-> proc[p].password]
<1>1. /\ proc[p].at = "rename" /\ f # 0
      /\ dir' = [dir EXCEPT ![path] = f, ![Temp(path)] = 0]
      /\ saved' = saved \cup {record}
      /\ proc' = [proc EXCEPT ![p] = Idle]
      /\ contents' = contents /\ generated' = generated /\ overlap' = overlap
  BY DEF RenameTemp, temp_path, Move
<1>2. /\ path \in Path /\ proc[p] \in Command
      /\ path \in Name /\ Temp(path) \in Name /\ Temp(path) # path
  BY <1>1, InvocationShape, NamesDiffer DEF Stages
<1>3. f \in 1..Len(contents)
  BY <1>1, <1>2, FilesKnown
<1>4. record \in [path : Path, wallet : Nat, password : Password \cup {""}]
  BY <1>2 DEF Command
<1>5. /\ dir' \in [Name -> Nat] /\ dir'[path] = f /\ dir'[Temp(path)] = 0
      /\ \A n \in Name : n \notin {path, Temp(path)} => dir'[n] = dir[n]
  BY <1>1, <1>2, <1>3 DEF FileInv, Shapes
<1>6. /\ proc'[p].at = "idle"
      /\ \A q \in Process : q # p => proc'[q] = proc[q]
  BY <1>1 DEF FileInv, Shapes, Idle
<1>7. path \notin overlap => contents[f] = encrypt(proc[p].wallet, proc[p].password)
  BY <1>1 DEF FileInv, CompleteAtRename
<1>8. Shapes'
  BY <1>1, <1>4, <1>5 DEF FileInv, Shapes
<1>9. NamesApart'
  <2>1. \A n \in Name : n \notin {path, Temp(path)} => dir[n] # f
    BY <1>1, <1>2 DEF FileInv, NamesApart
  <2>. HIDE DEF f
  <2>2. \A n \in Name : dir'[n] <= Len(contents)
    BY <1>3, <1>5, FilesKnown DEF FileInv, NamesApart
  <2>3. ASSUME NEW m \in Name, NEW n \in Name, dir'[m] = dir'[n], dir'[m] # 0
        PROVE  m = n
    BY <1>5, <2>1, <2>3 DEF FileInv, NamesApart
  <2>. QED
    BY <1>1, <2>2, <2>3 DEF NamesApart
<1>10. WritersApart'
  <2>1. ASSUME NEW q \in Process, proc'[q].at = "write"
        PROVE  /\ proc'[q].file \in 1..Len(contents)
               /\ \A n \in Name : dir'[n] = proc'[q].file => n \in {proc'[q].path, Temp(proc'[q].path)}
               /\ proc'[q].path \notin overlap
                     => dir'[Temp(proc'[q].path)] = proc'[q].file /\ ~proc'[q].shared
    <3>1. q # p /\ proc'[q] = proc[q]
      BY <1>6, <2>1
    <3>2. proc[q].path \in Path /\ proc[q].file \in 1..Len(contents) /\ proc[q].file # 0
      BY <2>1, <3>1, InvocationShape, FilesKnown
    <3>3. ASSUME NEW n \in Name, dir'[n] = proc[q].file
          PROVE  n \in {proc[q].path, Temp(proc[q].path)}
      <4>1. CASE n = path
        <5>1. Temp(path) \in {proc[q].path, Temp(proc[q].path)}
          BY <1>2, <1>5, <2>1, <3>1, <3>3, <4>1 DEF FileInv, WritersApart
        <5>. QED
          BY <1>2, <3>2, <4>1, <5>1, NamesDiffer
      <4>2. CASE n # path
        BY <1>5, <2>1, <3>1, <3>2, <3>3, <4>2 DEF FileInv, WritersApart
      <4>. QED
        BY <4>1, <4>2
    <3>4. ASSUME proc[q].path \notin overlap
          PROVE  dir'[Temp(proc[q].path)] = proc[q].file /\ ~proc[q].shared
      <4>1. proc[q].path # path
        BY <1>1, <1>2, <2>1, <3>1, <3>4 DEF FileInv, OneAtWork, Working
      <4>2. dir'[Temp(proc[q].path)] = dir[Temp(proc[q].path)]
        BY <1>2, <1>5, <3>2, <4>1, NamesDiffer
      <4>. QED
        BY <2>1, <3>1, <3>4, <4>2 DEF FileInv, WritersApart
    <3>. QED
      BY <3>1, <3>2, <3>3, <3>4
  <2>. QED
    BY <1>1, <2>1 DEF WritersApart
<1>11. OneAtWork'
  <2>1. \A q \in Process, x \in Path : Working(q, x)' => q # p /\ Working(q, x)
    BY <1>6 DEF Working
  <2>2. ASSUME NEW x \in Path \ overlap, dir'[x] # 0, NEW q \in Process
        PROVE  ~Working(q, x)'
    <3>1. CASE x = path
      BY <1>1, <1>2, <2>1, <2>2, <3>1 DEF FileInv, OneAtWork, Working
    <3>2. CASE x # path
      <4>1. dir'[x] = dir[x]
        BY <1>2, <1>5, <3>2, NamesDiffer
      <4>. QED
        BY <2>1, <2>2, <4>1 DEF FileInv, OneAtWork
    <3>. QED
      BY <3>1, <3>2
  <2>. QED
    BY <1>1, <2>1, <2>2 DEF FileInv, OneAtWork
<1>12. CompleteAtRename'
  <2>1. ASSUME NEW q \in Process, proc'[q].at = "rename", proc'[q].path \notin overlap,
               dir'[Temp(proc'[q].path)] # 0
        PROVE  contents[dir'[Temp(proc'[q].path)]] = encrypt(proc'[q].wallet, proc'[q].password)
    <3>1. q # p /\ proc'[q] = proc[q] /\ proc[q].path \in Path
      BY <1>6, <2>1, InvocationShape
    <3>2. proc[q].path # path
      BY <1>1, <1>2, <2>1, <3>1 DEF FileInv, OneAtWork, Working
    <3>3. dir'[Temp(proc[q].path)] = dir[Temp(proc[q].path)]
      BY <1>2, <1>5, <3>1, <3>2, NamesDiffer
    <3>. QED
      BY <2>1, <3>1, <3>3 DEF FileInv, CompleteAtRename
  <2>. QED
    BY <1>1, <2>1 DEF CompleteAtRename, encrypt, derive_key_for_storage
<1>13. WholeOrAbsent'
  <2>1. ASSUME NEW x \in Path \ overlap, dir'[x] # 0
        PROVE  contents[dir'[x]].whole
    <3>1. CASE x = path
      BY <1>5, <1>7, <3>1 DEF encrypt
    <3>2. CASE x # path
      <4>1. dir'[x] = dir[x]
        BY <1>2, <1>5, <3>2, NamesDiffer
      <4>. QED
        BY <2>1, <4>1 DEF FileInv, WholeOrAbsent, wallet_exists
    <3>. QED
      BY <3>1, <3>2
  <2>. QED
    BY <1>1, <2>1 DEF WholeOrAbsent, wallet_exists
<1>14. SavedKept'
  <2>1. ASSUME NEW s \in saved, s.path \notin overlap
        PROVE  dir'[s.path] # 0 /\ contents[dir'[s.path]] = encrypt(s.wallet, s.password)
    <3>1. s.path \in Path
      BY DEF FileInv, Shapes
    <3>2. dir[s.path] # 0 /\ contents[dir[s.path]] = encrypt(s.wallet, s.password)
      BY <2>1 DEF FileInv, SavedKept
    <3>3. s.path # path
      BY <1>1, <2>1, <3>1, <3>2 DEF FileInv, OneAtWork, Working
    <3>4. dir'[s.path] = dir[s.path]
      BY <1>2, <1>5, <3>1, <3>3, NamesDiffer
    <3>. QED
      BY <3>2, <3>4
  <2>2. record.path \notin overlap =>
           dir'[record.path] # 0 /\ contents[dir'[record.path]] = encrypt(record.wallet, record.password)
    BY <1>1, <1>5, <1>7
  <2>. QED
    BY <1>1, <2>1, <2>2 DEF SavedKept, encrypt, derive_key_for_storage
<1>. QED
  BY <1>8, <1>9, <1>10, <1>11, <1>12, <1>13, <1>14 DEF FileInv

\* The number of the next wallet.
LEMMA GeneratedCounts ==
    ASSUME FileInv
    PROVE  generated + 1 \in Nat
<1>1. generated \in Nat
  BY DEF FileInv, Shapes
<1>. QED
  BY <1>1

\* Every step of every invocation keeps FileInv.
LEMMA FileInvStep ==
    ASSUME FileInv, [Next]_vars
    PROVE  FileInv'
<1>1. ASSUME UNCHANGED <<files, proc, generated, saved, overlap>>
      PROVE  FileInv'
  BY <1>1 DEF files, FileInv, Shapes, NamesApart, WritersApart, OneAtWork, Working,
     CompleteAtRename, WholeOrAbsent, wallet_exists, SavedKept
<1>2. ASSUME NEW p \in Process, NEW path \in Path, cmd_create(p, path)
      PROVE  FileInv'
  <2>1. generated + 1 \in Nat
    BY GeneratedCounts
  <2>2. Move(p, HasWallet(path, generated + 1)) /\ generated' = generated + 1
    BY <1>2 DEF cmd_create
  <2>. QED
    BY <1>2, <2>1, <2>2, HasWalletShape, StartKeeps DEF cmd_create
<1>3. ASSUME NEW p \in Process, NEW path \in Path, cmd_restore(p, path)
      PROVE  FileInv'
  <2> DEFINE new == [at |-> "phrase", path |-> path]
  <2>1. new \in Waiting /\ new.at = "phrase" /\ new.path = path
    BY DEF Waiting
  <2>2. generated' \in Nat
    BY <1>3 DEF cmd_restore, FileInv, Shapes
  <2>3. /\ proc[p] = Idle /\ ~wallet_exists(path) /\ Move(p, new) /\ MarkOverlap(p, path)
        /\ UNCHANGED <<files, saved>>
    BY <1>3 DEF cmd_restore
  <2>. HIDE DEF new
  <2>. QED
    BY <2>1, <2>2, <2>3, StartKeeps
<1>4. ASSUME NEW p \in Process, EnterPhrase(p)
      PROVE  FileInv'
  <2>1. proc[p].at = "phrase" /\ proc[p].path \in Path
    BY <1>4, InvocationShape DEF EnterPhrase
  <2>2. generated + 1 \in Nat
    BY GeneratedCounts
  <2>3. Move(p, HasWallet(proc[p].path, generated + 1)) /\ generated' = generated + 1
    BY <1>4 DEF EnterPhrase
  <2>4. UNCHANGED <<files, saved, overlap>>
    BY <1>4 DEF EnterPhrase
  <2>. QED
    BY <2>1, <2>2, <2>3, <2>4, HasWalletShape, PromptKeeps
<1>5. ASSUME NEW p \in Process, EnterPasswords(p)
      PROVE  FileInv'
  <2>1. PICK password \in Password :
           /\ proc[p].at = "password"
           /\ Move(p, [proc[p] EXCEPT !.at = "open", !.password = password])
           /\ UNCHANGED <<files, generated, saved, overlap>>
    BY <1>5 DEF EnterPasswords
  <2> DEFINE new == [proc[p] EXCEPT !.at = "open", !.password = password]
  <2>2. proc[p] \in Command
    BY <2>1, InvocationShape DEF Stages
  <2>3. new \in Command /\ new.at = "open" /\ new.path = proc[p].path
    BY <2>2 DEF Command, Stages
  <2>4. generated' \in Nat
    BY <2>1 DEF FileInv, Shapes
  <2>5. Move(p, new) /\ proc[p].at # "idle" /\ UNCHANGED <<files, saved, overlap>>
    BY <2>1
  <2>. HIDE DEF new
  <2>. QED
    BY <2>3, <2>4, <2>5, PromptKeeps
<1>6. ASSUME NEW path \in Path, NEW password \in Password, NEW amount \in Amounts,
             \/ \E recipient \in Recipients, fee \in Fees :
                   cmd_send(path, password, recipient, amount, fee)
             \/ cmd_stake(path, password, amount)
             \/ SignUnlock(path, password, as_units(amount))
      PROVE  UNCHANGED <<files, proc, generated, saved, overlap>>
  BY <1>6 DEF cmd_send, cmd_stake, SignUnlock, Emit
<1>7. CASE UNCHANGED vars
  BY <1>1, <1>7 DEF vars
<1>8. CASE Tick
  BY <1>1, <1>8 DEF Tick
<1>. QED
  BY <1>1, <1>2, <1>3, <1>4, <1>5, <1>6, <1>7, <1>8, StopKeeps, DeleteKeeps, OpenKeeps,
     WriteKeeps, RenameKeeps DEF Next, Save

\* Nothing is saved or written at first.
LEMMA FileInvInit ==
    ASSUME Init
    PROVE  FileInv
<1>1. Idle.at = "idle"
  BY DEF Idle
<1>2. Shapes
  BY DEF Init, Shapes
<1>3. contents = <<>> /\ \A n \in Name : dir[n] = 0
  BY DEF Init
<1>4. \A p \in Process : proc[p].at = "idle"
  BY <1>1 DEF Init
<1>5. Len(contents) = 0
  BY <1>3
<1>6. saved = {}
  BY DEF Init
<1>. QED
  BY <1>2, <1>3, <1>4, <1>5, <1>6, NamesDiffer DEF FileInv, NamesApart, WritersApart, OneAtWork,
     Working, CompleteAtRename, WholeOrAbsent, wallet_exists, SavedKept

\* What the file at the path of a saved wallet says to load_wallet.
LEMMA KeptIsLoadable ==
    ASSUME FileInv
    PROVE  SavedIsLoadable
<1>1. ASSUME NEW s \in saved, s.path \notin overlap
      PROVE  cmd_info(s.path, s.password) = {info(generate(s.wallet))}
  <2> DEFINE c == contents[dir[s.path]]
  <2>1. dir[s.path] # 0 /\ c = encrypt(s.wallet, s.password)
    BY <1>1 DEF FileInv, SavedKept
  <2>2. c.whole /\ c.key = derive_key_for_storage(s.password) /\ c.wallet = s.wallet
    BY <2>1 DEF encrypt
  <2>3. verify_address_integrity(generate(c.wallet))
    BY DEF verify_address_integrity, generate
  <2>4. {contents[f] : f \in {dir[s.path]} \ {0}} = {c}
    BY <2>1
  <2>. HIDE DEF c
  <2>5. load_wallet(s.path, s.password) = {generate(s.wallet)}
    BY <2>2, <2>3, <2>4 DEF load_wallet
  <2>. QED
    BY <2>5 DEF cmd_info
<1>. QED
  BY <1>1 DEF SavedIsLoadable

\* The invariants together give the types.
LEMMA WalletTypes ==
    ASSUME FileInv, SignInv
    PROVE  TypeOK
<1>1. \A n \in Name : dir[n] \in 0..Len(contents)
  BY FilesKnown
<1>2. \A p \in Process :
        proc[p].at \in {"idle", "phrase", "password", "open", "write", "rename"}
  BY InvocationShape DEF Stages
<1>3. ASSUME NEW tx \in signed
      PROVE  tx.amount \in 1..MaxU64 /\ tx.fee \in 0..MaxU64
  <2>1. PICK i, receiver, amount, fee, type, t : MadeBy(tx, i, receiver, amount, fee, type, t)
    BY DEF SignInv, Made
  <2>2. tx.amount \in 1..MaxU64
    BY <2>1, MadeParts
  <2>3. tx.fee \in 0..MaxU64
    BY <2>1, MadeParts
  <2>. QED
    BY <2>2, <2>3
<1>. QED
  BY <1>1, <1>2, <1>3 DEF TypeOK

\* Files, invocations and what they save, wherever each of them stops.
THEOREM WalletFileInv == Spec => []FileInv
BY FileInvInit, FileInvStep, PTL DEF Spec

\* Names lead to files and what is signed is within u64.
THEOREM WalletTypeOK == Spec => []TypeOK
BY WalletFileInv, WalletSignInv, WalletTypes, PTL

\* No wallet file is ever half written, wherever save_wallet_v2 stops, unless
\* two invocations work on one path at once.
THEOREM WalletWholeOrAbsent == Spec => []WholeOrAbsent
<1>1. FileInv => WholeOrAbsent
  BY DEF FileInv
<1>. QED
  BY <1>1, WalletFileInv, PTL

\* What save_wallet_v2 reported as saved is what load_wallet returns, until
\* the wallet is deleted.
THEOREM WalletSavedIsLoadable == Spec => []SavedIsLoadable
BY WalletFileInv, KeptIsLoadable, PTL
=============================================================================
