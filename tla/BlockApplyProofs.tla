-------------------------- MODULE BlockApplyProofs --------------------------
(***************************************************************************)
(* Proofs about BlockApply, for every start, set of blocks and number of   *)
(* heights, with or without crashes.  The first part is about the writes   *)
(* of one transaction: a debit that uses up the nonce, then credits, and   *)
(* together what apply_transaction does in one step.                       *)
(***************************************************************************)
EXTENDS BlockApply, CoinTheorems, SequenceTheorems

-----------------------------------------------------------------------------
(***************************************************************************)
(* Writes.                                                                 *)
(***************************************************************************)
\* A write of one account, or its deletion.
WriteType == [addr : Address, acc : {{}} \cup {{x} : x \in Account}]

\* A put is a save.
LEMMA WrittenPut ==
    ASSUME NEW f, NEW a, NEW acc
    PROVE  /\ Written(f, Put(a, acc)) = save_account(f, a, acc)
           /\ Put(a, acc).addr = a /\ Put(a, acc).acc = {acc}
<1>1. Put(a, acc).addr = a /\ Put(a, acc).acc = {acc}
  BY DEF Put
<1>2. (CHOOSE x \in {acc} : TRUE) = acc
  OBVIOUS
<1>. QED
  BY <1>1, <1>2 DEF Written

\* A write that takes coins: it uses up a nonce and the account gains nothing.
IsDebit(f, w) ==
    \E acc \in Account :
        LET old == get_or_create_account(f, w.addr) IN
        /\ w = Put(w.addr, acc)
        /\ acc.nonce = old.nonce + 1
        /\ Coins(acc) <= Coins(old)

\* A write that gives coins.
IsCredit(f, w) ==
    \E acc \in Account :
        LET old == get_or_create_account(f, w.addr) IN
        /\ w = Put(w.addr, acc)
        /\ acc.nonce = old.nonce
        /\ acc.balance >= old.balance
        /\ acc.staked = old.staked

\* The tree after the first, the second and the third write.
After1(f, ws) == Written(f, ws[1])
After2(f, ws) == Written(After1(f, ws), ws[2])
After3(f, ws) == Written(After2(f, ws), ws[3])

\* The tree after all of them.
After(f, ws) ==
    IF Len(ws) = 0 THEN f
    ELSE IF Len(ws) = 1 THEN After1(f, ws)
    ELSE IF Len(ws) = 2 THEN After2(f, ws)
    ELSE After3(f, ws)

\* The writes of a transaction, or the rest of them: at most one debit, first,
\* and each write made for the tree that the ones before it leave.
InOrder(f, ws) ==
    /\ ws \in Seq(WriteType)
    /\ Len(ws) <= 3
    /\ Len(ws) >= 1 => IsDebit(f, ws[1]) \/ IsCredit(f, ws[1])
    /\ Len(ws) >= 2 => IsCredit(After1(f, ws), ws[2])
    /\ Len(ws) >= 3 => IsCredit(After2(f, ws), ws[3])

\* A credit keeps the tree a tree and no coins are taken.
LEMMA CreditWritten ==
    ASSUME NEW f, IsAccountMap(f), NEW w \in WriteType, IsCredit(f, w)
    PROVE  /\ IsAccountMap(Written(f, w))
           /\ TotalBalance(f) \in Nat /\ TotalBalance(Written(f, w)) \in Nat
           /\ TotalBalance(f) <= TotalBalance(Written(f, w))
<1> DEFINE a == w.addr
           old == get_or_create_account(f, a)
<1>1. PICK acc \in Account : /\ w = Put(a, acc) /\ acc.balance >= old.balance /\ acc.staked = old.staked
  BY DEF IsCredit
<1>2. Written(f, w) = save_account(f, a, acc)
  BY <1>1, WrittenPut
<1>3. a \in Address
  BY DEF WriteType
<1>4. old \in Account
  BY LoadedAccount
<1>5. IsAccountMap(save_account(f, a, acc))
  BY <1>3, SavedAccount
<1>6. TotalBalance(f) \in Nat /\ TotalBalance(save_account(f, a, acc)) \in Nat
  BY <1>3, <1>5, SavedAccount
<1>7. TotalBalance(save_account(f, a, acc)) = TotalBalance(f) - Coins(old) + Coins(acc)
  BY <1>3, SavedAccount
<1>. HIDE DEF old
<1>8. Coins(old) \in Nat /\ Coins(acc) \in Nat /\ Coins(old) <= Coins(acc)
  BY <1>1, <1>4, AccountFields DEF Coins
<1>. QED
  BY <1>2, <1>5, <1>6, <1>7, <1>8

\* A debit keeps the tree a tree and no coins are given.
LEMMA DebitWritten ==
    ASSUME NEW f, IsAccountMap(f), NEW w \in WriteType, IsDebit(f, w)
    PROVE  /\ IsAccountMap(Written(f, w))
           /\ TotalBalance(f) \in Nat /\ TotalBalance(Written(f, w)) \in Nat
           /\ TotalBalance(Written(f, w)) <= TotalBalance(f)
<1> DEFINE a == w.addr
           old == get_or_create_account(f, a)
<1>1. PICK acc \in Account : w = Put(a, acc) /\ Coins(acc) <= Coins(old)
  BY DEF IsDebit
<1>2. Written(f, w) = save_account(f, a, acc)
  BY <1>1, WrittenPut
<1>3. a \in Address
  BY DEF WriteType
<1>4. old \in Account
  BY LoadedAccount
<1>5. IsAccountMap(save_account(f, a, acc))
  BY <1>3, SavedAccount
<1>6. TotalBalance(f) \in Nat /\ TotalBalance(save_account(f, a, acc)) \in Nat
  BY <1>3, <1>5, SavedAccount
<1>7. TotalBalance(save_account(f, a, acc)) = TotalBalance(f) - Coins(old) + Coins(acc)
  BY <1>3, SavedAccount
<1>. HIDE DEF old
<1>8. Coins(old) \in Nat /\ Coins(acc) \in Nat
  BY <1>4, AccountFields DEF Coins
<1>. QED
  BY <1>1, <1>2, <1>5, <1>6, <1>7, <1>8

\* One write made, the others still lead to the same tree.
LEMMA WriteInOrder ==
    ASSUME NEW f, NEW ws, InOrder(f, ws), ws # <<>>
    PROVE  LET g == Written(f, Head(ws)) IN
           /\ InOrder(g, Tail(ws))
           /\ After(g, Tail(ws)) = After(f, ws)
           /\ Head(ws) \in WriteType
           /\ IsDebit(f, Head(ws)) \/ IsCredit(f, Head(ws))
           /\ Len(Tail(ws)) >= 1 => IsCredit(g, Tail(ws)[1])
<1> DEFINE g == Written(f, Head(ws))
           t == Tail(ws)
<1>1. ws \in Seq(WriteType) /\ Len(ws) \in {1, 2, 3}
  <2>1. ws \in Seq(WriteType) /\ Len(ws) <= 3
    BY DEF InOrder
  <2>2. Len(ws) \in Nat /\ Len(ws) # 0
    BY <2>1
  <2>3. \A n \in Nat : n # 0 /\ n <= 3 => n \in {1, 2, 3}
    OBVIOUS
  <2>. QED
    BY <2>1, <2>2, <2>3
<1>2. /\ Head(ws) = ws[1] /\ Head(ws) \in WriteType
      /\ t \in Seq(WriteType) /\ Len(t) = Len(ws) - 1
      /\ \A i \in 1..Len(t) : t[i] = ws[i + 1]
  BY <1>1
<1>3. g = After1(f, ws)
  BY <1>2 DEF After1
<1>. HIDE DEF g, t
<1>4. Len(ws) >= 2 => t[1] = ws[2] /\ After1(g, t) = After2(f, ws)
  BY <1>1, <1>2, <1>3 DEF After1, After2
<1>5. Len(ws) >= 3 => t[2] = ws[3] /\ After2(g, t) = After3(f, ws)
  <2>1. Len(ws) >= 3 => t[2] = ws[3] /\ t[1] = ws[2]
    BY <1>1, <1>2
  <2>. QED
    BY <1>1, <1>4, <2>1 DEF After2, After3
<1>6. After(g, t) = After(f, ws)
  <2>1. CASE Len(ws) = 1
    <3>1. Len(t) = 0
      BY <1>2, <2>1
    <3>. QED
      BY <2>1, <3>1, <1>3 DEF After
  <2>2. CASE Len(ws) = 2
    <3>1. Len(t) = 1
      BY <1>2, <2>2
    <3>. QED
      BY <2>2, <3>1, <1>4 DEF After
  <2>3. CASE Len(ws) = 3
    <3>1. Len(t) = 2
      BY <1>2, <2>3
    <3>. QED
      BY <2>3, <3>1, <1>5 DEF After
  <2>. QED
    BY <1>1, <2>1, <2>2, <2>3
<1>7. InOrder(g, t) /\ (Len(t) >= 1 => IsCredit(g, t[1]))
  <2>1. Len(t) <= 3 /\ (Len(t) >= 1 => Len(ws) >= 2) /\ (Len(t) >= 2 => Len(ws) >= 3) /\ ~(Len(t) >= 3)
    BY <1>1, <1>2
  <2>. QED
    BY <1>2, <1>3, <1>4, <1>5, <2>1 DEF InOrder
<1>. QED
  BY <1>1, <1>2, <1>6, <1>7 DEF InOrder, g, t

-----------------------------------------------------------------------------
(***************************************************************************)
(* The writes of one transaction.                                          *)
(***************************************************************************)
\* The treasury's share of a fee: a credit, or no write.
LEMMA FeeSplitWrites ==
    ASSUME NEW g, IsAccountMap(g), NEW fee \in Nat
    PROVE  LET r == apply_fee_split(g, fee)
               w == Put(Treasury, r.accts[Treasury])
           IN  \/ /\ ~(r.ok /\ fee \div 10 > 0)
                  /\ r.accts = g
               \/ /\ r.ok /\ fee \div 10 > 0
                  /\ w \in WriteType
                  /\ IsCredit(g, w)
                  /\ r.accts = Written(g, w)
                  /\ IsAccountMap(r.accts)
                  /\ TotalBalance(r.accts) <= TotalBalance(g) + fee
<1> DEFINE r == apply_fee_split(g, fee)
           n == fee \div 10
           old == get_or_create_account(g, Treasury)
           new == Credited(old, n)
<1>0. n \in Nat /\ n <= fee
  OBVIOUS
<1>1. CASE ~(n > 0)
  BY <1>1 DEF apply_fee_split, Ok
<1>2. CASE n > 0 /\ old.balance + n \notin U64
  <2>1. r = Err(g)
    BY <1>2 DEF apply_fee_split, credit_account
  <2>. QED
    BY <2>1 DEF Err
<1>3. CASE n > 0 /\ old.balance + n \in U64
  <2>1. r = Ok(save_account(g, Treasury, new))
    BY <1>3 DEF apply_fee_split, credit_account
  <2>2. r.ok /\ r.accts = save_account(g, Treasury, new)
    BY <2>1 DEF Ok
  <2>3. old \in Account
    BY LoadedAccount
  <2>4. /\ new \in Account /\ new.balance = old.balance + n
        /\ new.staked = old.staked /\ new.nonce = old.nonce
        /\ Coins(new) = Coins(old) + n
    BY <1>0, <1>3, <2>3, CreditedAccount
  <2>5. r.accts[Treasury] = new
    BY <2>2 DEF save_account
  <2>6. old.balance \in Nat /\ Coins(old) \in Nat
    BY <2>3, AccountFields DEF Coins
  <2>. HIDE DEF new, n, r
  <2> DEFINE w == Put(Treasury, new)
  <2>7. w.addr = Treasury /\ w.acc = {new} /\ Written(g, w) = save_account(g, Treasury, new)
    BY WrittenPut
  <2>8. w \in WriteType
    BY <2>4, TreasuryAssumption DEF WriteType, Put
  <2>9. IsCredit(g, w)
    <3>1. w = Put(w.addr, new) /\ get_or_create_account(g, w.addr) = old
      BY <2>7
    <3>2. new.balance >= old.balance
      BY <1>0, <2>4, <2>6
    <3>. HIDE DEF w, old
    <3>. QED
      BY <2>4, <3>1, <3>2 DEF IsCredit
  <2>10. /\ IsAccountMap(r.accts) /\ TotalBalance(g) \in Nat
         /\ TotalBalance(r.accts) = TotalBalance(g) - Coins(old) + Coins(new)
    BY <2>2, <2>4, TreasuryAssumption, SavedAccount
  <2>11. TotalBalance(r.accts) <= TotalBalance(g) + fee
    <3>. HIDE DEF old
    <3>. QED
      BY <1>0, <2>4, <2>6, <2>10
  <2>. HIDE DEF w
  <2>. QED
    BY <1>3, <2>2, <2>5, <2>7, <2>8, <2>9, <2>10, <2>11 DEF w, r, n
<1>. QED
  BY <1>1, <1>2, <1>3

\* A transaction that is not refused charges its sender and goes on from there.
LEMMA SenderCharged ==
    ASSUME NEW f, IsAccountMap(f), NEW tx \in Transaction,
           apply_transaction(f, tx).accts # f
    PROVE  LET old == get_or_create_account(f, tx.sender)
               own == own_write(f, tx)
               debited == save_account(f, tx.sender, own)
               credited == credit_account(debited, tx.receiver, tx.amount)
               r == apply_transaction(f, tx)
           IN  /\ own \in Account
               /\ own.nonce = old.nonce + 1
               /\ tx.type = "Transfer" =>
                    /\ Coins(own) = Coins(old) - (tx.amount + tx.fee)
                    /\ r = IF credited.ok THEN apply_fee_split(credited.accts, tx.fee)
                           ELSE Err(debited)
               /\ tx.type # "Transfer" =>
                    /\ Coins(own) = Coins(old) - tx.fee
                    /\ r = apply_fee_split(debited, tx.fee)
<1> DEFINE old == get_or_create_account(f, tx.sender)
           own == own_write(f, tx)
           debited == save_account(f, tx.sender, own)
           credited == credit_account(debited, tx.receiver, tx.amount)
           r == apply_transaction(f, tx)
           cost == tx.amount + tx.fee
<1>1. old \in Account
  BY LoadedAccount
<1>2. /\ tx.type \in TransactionType /\ tx.amount \in U64 /\ tx.fee \in U64
      /\ tx.amount \in Nat /\ tx.fee \in Nat /\ cost \in Nat
  BY WidthAssumption DEF Transaction, U64
<1>3. /\ old.balance \in U64 /\ old.staked \in U64 /\ old.nonce \in Nat /\ old.nonce + 1 \in Nat
      /\ old.balance \in Nat /\ old.staked \in Nat
  BY <1>1, AccountFields
<1>4. Err(f).accts = f
  BY DEF Err
<1>5. CASE tx.type = "Transfer"
  <2>1. own = sender_after_transfer(old, tx)
    BY <1>5 DEF own_write
  <2>2. r = apply_transfer(f, tx)
    BY <1>5 DEF apply_transaction
  <2>3. /\ ~(old.balance < cost)
        /\ r = IF credited.ok THEN apply_fee_split(credited.accts, tx.fee) ELSE Err(debited)
    BY <1>4, <2>1, <2>2 DEF apply_transfer
  <2>. HIDE DEF old, cost
  <2>4. old.balance - cost \in U64
    BY <1>2, <1>3, <2>3, WidthAssumption DEF U64
  <2>5. own = Revised(old, old.balance - cost, old.staked, old.nonce + 1)
    BY <2>1 DEF sender_after_transfer, cost
  <2>6. own \in Account /\ own.balance = old.balance - cost /\ own.staked = old.staked /\ own.nonce = old.nonce + 1
    <3>. HIDE DEF own
    <3>. QED
      BY <1>1, <1>3, <2>4, <2>5, RevisedAccount
  <2>7. Coins(own) = Coins(old) - cost
    <3>. HIDE DEF own
    <3>. QED
      BY <1>2, <1>3, <2>6 DEF Coins
  <2>. QED
    BY <1>5, <2>3, <2>6, <2>7 DEF old, cost
<1>6. CASE tx.type = "StakeLock"
  <2>1. own = sender_after_stake_lock(old, tx)
    BY <1>6 DEF own_write
  <2>2. r = apply_stake_lock(f, tx)
    BY <1>6 DEF apply_transaction
  <2>3. /\ ~(old.balance < cost) /\ old.staked + tx.amount \in U64
        /\ r = apply_fee_split(debited, tx.fee)
    BY <1>4, <2>1, <2>2 DEF apply_stake_lock
  <2>. HIDE DEF old, cost
  <2>4. old.balance - cost \in U64
    BY <1>2, <1>3, <2>3, WidthAssumption DEF U64
  <2>5. own = update_validator_tier(
                Revised(old, old.balance - cost, old.staked + tx.amount, old.nonce + 1))
    BY <2>1 DEF sender_after_stake_lock, cost
  <2>6. /\ own \in Account /\ own.balance = old.balance - cost
        /\ own.staked = old.staked + tx.amount /\ own.nonce = old.nonce + 1
    <3>. HIDE DEF own
    <3>. QED
      BY <1>1, <1>3, <2>3, <2>4, <2>5, RevisedAccount
  <2>7. Coins(own) = Coins(old) - tx.fee
    <3>. HIDE DEF own
    <3>. QED
      BY <1>2, <1>3, <2>6 DEF Coins, cost
  <2>. QED
    BY <1>6, <2>3, <2>6, <2>7 DEF old, cost
<1>7. CASE tx.type = "StakeUnlock"
  <2>1. own = sender_after_stake_unlock(old, tx)
    BY <1>7 DEF own_write
  <2>2. r = apply_stake_unlock(f, tx)
    BY <1>7 DEF apply_transaction
  <2>3. /\ ~(old.balance < tx.fee) /\ ~(old.staked < tx.amount) /\ old.balance + tx.amount \in U64
        /\ r = apply_fee_split(debited, tx.fee)
    BY <1>4, <2>1, <2>2 DEF apply_stake_unlock
  <2>. HIDE DEF old, cost
  <2>4. old.balance + tx.amount - tx.fee \in U64 /\ old.staked - tx.amount \in U64
    BY <1>2, <1>3, <2>3, WidthAssumption DEF U64
  <2>5. own = update_validator_tier(
                Revised(old, old.balance + tx.amount - tx.fee, old.staked - tx.amount, old.nonce + 1))
    BY <2>1 DEF sender_after_stake_unlock
  <2>6. /\ own \in Account /\ own.balance = old.balance + tx.amount - tx.fee
        /\ own.staked = old.staked - tx.amount /\ own.nonce = old.nonce + 1
    <3>. HIDE DEF own
    <3>. QED
      BY <1>1, <1>3, <2>4, <2>5, RevisedAccount
  <2>7. Coins(own) = Coins(old) - tx.fee
    <3>. HIDE DEF own
    <3>. QED
      BY <1>2, <1>3, <2>6 DEF Coins
  <2>. QED
    BY <1>7, <2>3, <2>6, <2>7 DEF old
<1>8. CASE tx.type = "Contract"
  <2>1. own = sender_after_fee_only(old, tx)
    BY <1>8 DEF own_write
  <2>2. r = apply_fee_only(f, tx)
    BY <1>8 DEF apply_transaction
  <2>3. ~(old.balance < tx.fee) /\ r = apply_fee_split(debited, tx.fee)
    BY <1>4, <2>1, <2>2 DEF apply_fee_only
  <2>. HIDE DEF old, cost
  <2>4. old.balance - tx.fee \in U64
    BY <1>2, <1>3, <2>3, WidthAssumption DEF U64
  <2>5. own = Revised(old, old.balance - tx.fee, old.staked, old.nonce + 1)
    BY <2>1 DEF sender_after_fee_only
  <2>6. own \in Account /\ own.balance = old.balance - tx.fee /\ own.staked = old.staked /\ own.nonce = old.nonce + 1
    <3>. HIDE DEF own
    <3>. QED
      BY <1>1, <1>3, <2>4, <2>5, RevisedAccount
  <2>7. Coins(own) = Coins(old) - tx.fee
    <3>. HIDE DEF own
    <3>. QED
      BY <1>2, <1>3, <2>6 DEF Coins
  <2>. QED
    BY <1>8, <2>3, <2>6, <2>7 DEF old
<1>. QED
  BY <1>2, <1>5, <1>6, <1>7, <1>8 DEF TransactionType

\* One, two and three writes spelled out.
LEMMA OneWrite ==
    ASSUME NEW f, NEW w \in WriteType, IsDebit(f, w)
    PROVE  InOrder(f, <<w>>) /\ After(f, <<w>>) = Written(f, w)
<1>1. <<w>> \in Seq(WriteType) /\ Len(<<w>>) = 1 /\ <<w>>[1] = w
  OBVIOUS
<1>2. ~(1 >= 2) /\ ~(1 >= 3) /\ 1 <= 3 /\ 1 # 0
  OBVIOUS
<1>. QED
  BY <1>1, <1>2 DEF InOrder, After, After1

\* The writes of a charge and one credit.
LEMMA TwoWrites ==
    ASSUME NEW f, NEW w \in WriteType, IsDebit(f, w),
           NEW v \in WriteType, IsCredit(Written(f, w), v)
    PROVE  InOrder(f, <<w, v>>) /\ After(f, <<w, v>>) = Written(Written(f, w), v)
<1>1. <<w, v>> \in Seq(WriteType) /\ Len(<<w, v>>) = 2 /\ <<w, v>>[1] = w /\ <<w, v>>[2] = v
  OBVIOUS
<1>2. 2 >= 1 /\ 2 >= 2 /\ ~(2 >= 3) /\ 2 <= 3 /\ 2 # 0 /\ 2 # 1
  OBVIOUS
<1>3. After1(f, <<w, v>>) = Written(f, w) /\ After2(f, <<w, v>>) = Written(Written(f, w), v)
  BY <1>1 DEF After1, After2
<1>. QED
  BY <1>1, <1>2, <1>3 DEF InOrder, After

\* The writes of a charge and two credits.
LEMMA ThreeWrites ==
    ASSUME NEW f, NEW w \in WriteType, IsDebit(f, w),
           NEW v \in WriteType, IsCredit(Written(f, w), v),
           NEW u \in WriteType, IsCredit(Written(Written(f, w), v), u)
    PROVE  /\ InOrder(f, <<w, v, u>>)
           /\ After(f, <<w, v, u>>) = Written(Written(Written(f, w), v), u)
<1> DEFINE ws == <<w, v, u>>
<1>1. ws \in Seq(WriteType) /\ Len(ws) = 3 /\ ws[1] = w /\ ws[2] = v /\ ws[3] = u
  OBVIOUS
<1>2. 3 >= 1 /\ 3 >= 2 /\ 3 >= 3 /\ 3 <= 3 /\ 3 # 0 /\ 3 # 1 /\ 3 # 2
  OBVIOUS
<1>. HIDE DEF ws
<1>3. After1(f, ws) = Written(f, w) /\ After2(f, ws) = Written(Written(f, w), v)
  BY <1>1 DEF After1, After2
<1>4. After3(f, ws) = Written(Written(Written(f, w), v), u)
  BY <1>1, <1>3 DEF After3
<1>5. InOrder(f, ws) /\ After(f, ws) = Written(Written(Written(f, w), v), u)
  BY <1>1, <1>2, <1>3, <1>4 DEF InOrder, After
<1>. QED
  BY <1>5 DEF ws

\* The lists of writes that occur.
LEMMA Concats ==
    \A x, y, z : /\ <<x>> \o <<>> \o <<>> = <<x>>
                 /\ <<x>> \o <<>> \o <<z>> = <<x, z>>
                 /\ <<x>> \o <<y>> \o <<>> = <<x, y>>
                 /\ <<x>> \o <<y>> \o <<z>> = <<x, y, z>>
<1>. SUFFICES ASSUME NEW x, NEW y, NEW z
              PROVE  /\ <<x>> \o <<>> \o <<>> = <<x>>
                     /\ <<x>> \o <<>> \o <<z>> = <<x, z>>
                     /\ <<x>> \o <<y>> \o <<>> = <<x, y>>
                     /\ <<x>> \o <<y>> \o <<z>> = <<x, y, z>>
  OBVIOUS
<1> DEFINE S == {x, y, z}
<1>1. <<x>> \in Seq(S) /\ <<y>> \in Seq(S) /\ <<z>> \in Seq(S) /\ <<x, y>> \in Seq(S)
  OBVIOUS
<1>2. <<x>> \o <<>> = <<x>> /\ <<x, y>> \o <<>> = <<x, y>>
  BY <1>1, ConcatEmptySeq
<1>3. <<x>> \o <<y>> = <<x, y>> /\ <<x>> \o <<z>> = <<x, z>> /\ <<x, y>> \o <<z>> = <<x, y, z>>
  <2>1. ASSUME NEW e \in S
        PROVE  Append(<<x>>, e) = <<x, e>>
    <3> DEFINE s == Append(<<x>>, e)
               t == <<x, e>>
    <3>1. s \in Seq(S) /\ Len(s) = 2 /\ s[1] = x /\ s[2] = e
      BY <1>1
    <3>2. t \in Seq(S) /\ Len(t) = 2 /\ t[1] = x /\ t[2] = e
      OBVIOUS
    <3>3. \A i \in 1..2 : i = 1 \/ i = 2
      OBVIOUS
    <3>. HIDE DEF s, t
    <3>4. s = t
      BY <3>1, <3>2, <3>3, SeqEqual
    <3>. QED
      BY <3>4 DEF s, t
  <2>2. Append(<<x, y>>, z) = <<x, y, z>>
    <3> DEFINE s == Append(<<x, y>>, z)
               t == <<x, y, z>>
    <3>1. s \in Seq(S) /\ Len(s) = 3 /\ s[1] = x /\ s[2] = y /\ s[3] = z
      BY <1>1
    <3>2. t \in Seq(S) /\ Len(t) = 3 /\ t[1] = x /\ t[2] = y /\ t[3] = z
      OBVIOUS
    <3>3. \A i \in 1..3 : i = 1 \/ i = 2 \/ i = 3
      OBVIOUS
    <3>. HIDE DEF s, t
    <3>4. s = t
      BY <3>1, <3>2, <3>3, SeqEqual
    <3>. QED
      BY <3>4 DEF s, t
  <2>. QED
    BY <1>1, <2>1, <2>2, AppendIsConcat
<1>. QED
  BY <1>2, <1>3

\* The receiver's credit, when it fits.
LEMMA ReceiverCredited ==
    ASSUME NEW g, IsAccountMap(g), NEW a \in Address, NEW n \in Nat,
           credit_account(g, a, n).ok
    PROVE  LET h == credit_account(g, a, n).accts
               w == Put(a, h[a])
           IN  /\ w \in WriteType /\ w.addr = a
               /\ IsCredit(g, w)
               /\ h = Written(g, w)
               /\ IsAccountMap(h)
               /\ TotalBalance(h) = TotalBalance(g) + n
<1> DEFINE h == credit_account(g, a, n).accts
           old == get_or_create_account(g, a)
           new == Credited(old, n)
           w == Put(a, new)
<1>1. old.balance + n \in U64 /\ h = save_account(g, a, new)
  BY DEF credit_account, Ok, Err
<1>2. old \in Account
  BY LoadedAccount
<1>3. /\ new \in Account /\ new.balance = old.balance + n
      /\ new.staked = old.staked /\ new.nonce = old.nonce
      /\ Coins(new) = Coins(old) + n
  BY <1>1, <1>2, CreditedAccount
<1>4. h[a] = new
  BY <1>1 DEF save_account
<1>5. old.balance \in Nat /\ Coins(old) \in Nat
  BY <1>2, AccountFields DEF Coins
<1>. HIDE DEF new, h
<1>6. w.addr = a /\ w.acc = {new} /\ Written(g, w) = save_account(g, a, new)
  <2>1. (CHOOSE x \in {new} : TRUE) = new /\ {new} # {}
    OBVIOUS
  <2>. QED
    BY <2>1 DEF Put, Written
<1>7. w \in WriteType
  BY <1>3 DEF WriteType, Put
<1>8. IsCredit(g, w)
  <2>1. w = Put(w.addr, new) /\ get_or_create_account(g, w.addr) = old
    BY <1>6
  <2>2. new.balance >= old.balance
    BY <1>3, <1>5
  <2>. HIDE DEF w, old
  <2>. QED
    BY <1>3, <2>1, <2>2 DEF IsCredit
<1>9. /\ IsAccountMap(h) /\ TotalBalance(g) \in Nat
      /\ TotalBalance(h) = TotalBalance(g) - Coins(old) + Coins(new)
  BY <1>1, <1>3, SavedAccount
<1>10. TotalBalance(h) = TotalBalance(g) + n
  <2>. HIDE DEF old
  <2>. QED
    BY <1>3, <1>5, <1>9
<1>. HIDE DEF w
<1>. QED
  BY <1>1, <1>4, <1>6, <1>7, <1>8, <1>9, <1>10 DEF w, h

\* The writes of a transaction lead where apply_transaction says, by way of one
\* debit of the sender and credits of the receiver and the treasury, and in
\* all no coins are gained.
LEMMA TransactionWrites ==
    ASSUME NEW f, IsAccountMap(f), NEW tx \in Transaction
    PROVE  LET ws == tx_writes(f, tx)
               g == apply_transaction(f, tx).accts
           IN  /\ InOrder(f, ws)
               /\ After(f, ws) = g
               /\ IsAccountMap(g)
               /\ TotalBalance(f) \in Nat /\ TotalBalance(g) \in Nat
               /\ TotalBalance(g) <= TotalBalance(f)
               /\ \A i \in 1..Len(ws) : ws[i].addr \in {tx.sender, tx.receiver, Treasury}
<1> DEFINE ws == tx_writes(f, tx)
           r == apply_transaction(f, tx)
           old == get_or_create_account(f, tx.sender)
           own == own_write(f, tx)
           w == Put(tx.sender, own)
           debited == save_account(f, tx.sender, own)
           credited == credit_account(debited, tx.receiver, tx.amount)
           v == Put(tx.receiver, credited.accts[tx.receiver])
           u == Put(Treasury, r.accts[Treasury])
           Goal == /\ InOrder(f, ws)
                   /\ After(f, ws) = r.accts
                   /\ IsAccountMap(r.accts)
                   /\ TotalBalance(f) \in Nat /\ TotalBalance(r.accts) \in Nat
                   /\ TotalBalance(r.accts) <= TotalBalance(f)
                   /\ \A i \in 1..Len(ws) : ws[i].addr \in {tx.sender, tx.receiver, Treasury}
<1>. SUFFICES Goal
  OBVIOUS
<1>0. /\ tx.sender \in Address /\ tx.receiver \in Address
      /\ tx.amount \in Nat /\ tx.fee \in Nat
  BY WidthAssumption DEF Transaction, U64
<1>1. TotalBalance(f) \in Nat
  BY FreshAccount, TreasuryAssumption, SavedAccount
<1>2. CASE r.accts = f
  <2>1. ws = <<>>
    BY <1>2 DEF tx_writes
  <2>2. Len(ws) = 0 /\ ws \in Seq(WriteType) /\ ~(0 >= 1) /\ ~(0 >= 2) /\ ~(0 >= 3) /\ 0 <= 3
    BY <2>1
  <2>3. InOrder(f, ws) /\ After(f, ws) = f
    BY <2>2 DEF InOrder, After
  <2>4. \A i \in 1..Len(ws) : ws[i].addr \in {tx.sender, tx.receiver, Treasury}
    BY <2>2
  <2>. HIDE DEF ws, r
  <2>. QED
    BY <1>1, <1>2, <2>3, <2>4
<1>3. CASE r.accts # f
  <2>1. /\ own \in Account /\ own.nonce = old.nonce + 1
        /\ tx.type = "Transfer" =>
             /\ Coins(own) = Coins(old) - (tx.amount + tx.fee)
             /\ r = IF credited.ok THEN apply_fee_split(credited.accts, tx.fee) ELSE Err(debited)
        /\ tx.type # "Transfer" =>
             /\ Coins(own) = Coins(old) - tx.fee
             /\ r = apply_fee_split(debited, tx.fee)
    BY <1>3, SenderCharged
  <2>2. ws = <<w>> \o (IF tx.type = "Transfer" /\ credited.ok THEN <<v>> ELSE <<>>)
                   \o (IF r.ok /\ tx.fee \div 10 > 0 THEN <<u>> ELSE <<>>)
    BY <1>3 DEF tx_writes
  <2>3. old \in Account /\ Coins(old) \in Nat /\ Coins(own) \in Nat
    BY <2>1, LoadedAccount, AccountFields DEF Coins
  <2>. HIDE DEF own, r, ws
  <2>4. w.addr = tx.sender /\ Written(f, w) = debited /\ w \in WriteType
    <3>1. w.addr = tx.sender /\ Written(f, w) = debited
      BY WrittenPut
    <3>2. w \in WriteType
      BY <1>0, <2>1 DEF WriteType, Put
    <3>. QED
      BY <3>1, <3>2
  <2>5. /\ IsAccountMap(debited) /\ TotalBalance(debited) \in Nat
        /\ TotalBalance(debited) = TotalBalance(f) - Coins(old) + Coins(own)
    <3>1. IsAccountMap(debited) /\ TotalBalance(debited) = TotalBalance(f) - Coins(old) + Coins(own)
      BY <1>0, <2>1, SavedAccount
    <3>. HIDE DEF debited
    <3>2. TotalBalance(debited) \in Nat
      BY <3>1, FreshAccount, TreasuryAssumption, SavedAccount
    <3>. QED
      BY <3>1, <3>2
  <2>. HIDE DEF old
  <2>6. Coins(own) <= Coins(old)
    BY <1>0, <2>1, <2>3
  <2>7. IsDebit(f, w)
    <3>1. w = Put(w.addr, own) /\ get_or_create_account(f, w.addr) = old
      BY <2>4 DEF old
    <3>. HIDE DEF w
    <3>. QED
      BY <2>1, <2>6, <3>1 DEF IsDebit
  <2>. HIDE DEF w, debited
  <2>8. ASSUME NEW g, IsAccountMap(g), r = apply_fee_split(g, tx.fee),
               TotalBalance(g) \in Nat, TotalBalance(g) + tx.fee <= TotalBalance(f)
        PROVE  \/ /\ ~(r.ok /\ tx.fee \div 10 > 0)
                  /\ r.accts = g
                  /\ TotalBalance(r.accts) \in Nat /\ TotalBalance(r.accts) <= TotalBalance(f)
               \/ /\ r.ok /\ tx.fee \div 10 > 0
                  /\ u \in WriteType /\ IsCredit(g, u) /\ r.accts = Written(g, u)
                  /\ IsAccountMap(r.accts)
                  /\ TotalBalance(r.accts) \in Nat /\ TotalBalance(r.accts) <= TotalBalance(f)
    <3>1. \/ /\ ~(r.ok /\ tx.fee \div 10 > 0)
             /\ r.accts = g
          \/ /\ r.ok /\ tx.fee \div 10 > 0
             /\ u \in WriteType /\ IsCredit(g, u) /\ r.accts = Written(g, u)
             /\ IsAccountMap(r.accts)
             /\ TotalBalance(r.accts) <= TotalBalance(g) + tx.fee
      BY <1>0, <2>8, FeeSplitWrites
    <3>2. IsAccountMap(r.accts)
      BY <2>8, <3>1
    <3>3. TotalBalance(r.accts) \in Nat
      BY <3>2, FreshAccount, TreasuryAssumption, SavedAccount
    <3>4. TotalBalance(g) <= TotalBalance(f)
      BY <1>0, <1>1, <2>8
    <3>5. CASE ~(r.ok /\ tx.fee \div 10 > 0) /\ r.accts = g
      BY <3>3, <3>4, <3>5
    <3>6. CASE /\ r.ok /\ tx.fee \div 10 > 0
               /\ u \in WriteType /\ IsCredit(g, u) /\ r.accts = Written(g, u)
               /\ IsAccountMap(r.accts)
               /\ TotalBalance(r.accts) <= TotalBalance(g) + tx.fee
      <4>1. TotalBalance(r.accts) <= TotalBalance(f)
        BY <1>0, <1>1, <2>8, <3>3, <3>6
      <4>. QED
        BY <3>3, <3>6, <4>1
    <3>. HIDE DEF u
    <3>. QED
      BY <3>1, <3>5, <3>6
  <2>9. u.addr = Treasury
    BY WrittenPut
  <2>. HIDE DEF u
  <2>10. CASE tx.type # "Transfer"
    <3>1. TotalBalance(debited) + tx.fee <= TotalBalance(f)
      BY <1>0, <1>1, <2>1, <2>3, <2>5, <2>10
    <3>2. CASE ~(r.ok /\ tx.fee \div 10 > 0)
      <4>1. ws = <<w>>
        BY <2>2, <2>10, <3>2, Concats
      <4>2. /\ r.accts = debited /\ TotalBalance(r.accts) \in Nat
            /\ TotalBalance(r.accts) <= TotalBalance(f)
        BY <2>1, <2>5, <2>8, <2>10, <3>1, <3>2
      <4>3. InOrder(f, ws) /\ After(f, ws) = r.accts
        BY <4>1, <4>2, <2>4, <2>7, OneWrite
      <4>4. \A i \in 1..Len(ws) : ws[i].addr \in {tx.sender, tx.receiver, Treasury}
        BY <4>1, <2>4
      <4>. QED
        BY <4>2, <4>3, <4>4, <1>1, <2>5
    <3>3. CASE r.ok /\ tx.fee \div 10 > 0
      <4>1. ws = <<w, u>>
        BY <2>2, <2>10, <3>3, Concats
      <4>2. /\ u \in WriteType /\ IsCredit(debited, u) /\ r.accts = Written(debited, u)
            /\ IsAccountMap(r.accts) /\ TotalBalance(r.accts) \in Nat
            /\ TotalBalance(r.accts) <= TotalBalance(f)
        BY <2>1, <2>5, <2>8, <2>10, <3>1, <3>3
      <4>3. InOrder(f, ws) /\ After(f, ws) = r.accts
        BY <4>1, <4>2, <2>4, <2>7, TwoWrites
      <4>4. \A i \in 1..Len(ws) : ws[i].addr \in {tx.sender, tx.receiver, Treasury}
        BY <4>1, <2>4, <2>9
      <4>. QED
        BY <4>2, <4>3, <4>4, <1>1
    <3>. QED
      BY <3>2, <3>3
  <2>11. CASE tx.type = "Transfer" /\ ~credited.ok
    <3>1. r = Err(debited)
      BY <2>1, <2>11
    <3>2. ~r.ok /\ r.accts = debited
      BY <3>1 DEF Err
    <3>3. ws = <<w>>
      BY <2>2, <2>11, <3>2, Concats
    <3>4. InOrder(f, ws) /\ After(f, ws) = r.accts
      BY <3>2, <3>3, <2>4, <2>7, OneWrite
    <3>5. \A i \in 1..Len(ws) : ws[i].addr \in {tx.sender, tx.receiver, Treasury}
      BY <3>3, <2>4
    <3>6. TotalBalance(debited) <= TotalBalance(f)
      BY <1>1, <2>3, <2>5, <2>6
    <3>. QED
      BY <3>2, <3>4, <3>5, <3>6, <1>1, <2>5
  <2>12. CASE tx.type = "Transfer" /\ credited.ok
    <3> DEFINE h == credited.accts
    <3>1. /\ v \in WriteType /\ v.addr = tx.receiver /\ IsCredit(debited, v)
          /\ h = Written(debited, v) /\ IsAccountMap(h)
          /\ TotalBalance(h) = TotalBalance(debited) + tx.amount
      BY <1>0, <2>5, <2>12, ReceiverCredited
    <3>2. r = apply_fee_split(h, tx.fee)
      BY <2>1, <2>12
    <3>. HIDE DEF credited, v, h
    <3>3. TotalBalance(h) \in Nat /\ TotalBalance(h) + tx.fee <= TotalBalance(f)
      BY <1>0, <1>1, <2>1, <2>3, <2>5, <2>12, <3>1
    <3>4. CASE ~(r.ok /\ tx.fee \div 10 > 0)
      <4>1. ws = <<w, v>>
        BY <2>2, <2>12, <3>4, Concats
      <4>2. /\ r.accts = h /\ TotalBalance(r.accts) \in Nat
            /\ TotalBalance(r.accts) <= TotalBalance(f)
        BY <2>8, <3>1, <3>2, <3>3, <3>4
      <4>3. InOrder(f, ws) /\ After(f, ws) = r.accts
        BY <4>1, <4>2, <2>4, <2>7, <3>1, TwoWrites
      <4>4. \A i \in 1..Len(ws) : ws[i].addr \in {tx.sender, tx.receiver, Treasury}
        BY <4>1, <2>4, <3>1
      <4>. QED
        BY <4>2, <4>3, <4>4, <1>1, <3>1
    <3>5. CASE r.ok /\ tx.fee \div 10 > 0
      <4>1. ws = <<w, v, u>>
        BY <2>2, <2>12, <3>5, Concats
      <4>2. /\ u \in WriteType /\ IsCredit(h, u) /\ r.accts = Written(h, u)
            /\ IsAccountMap(r.accts) /\ TotalBalance(r.accts) \in Nat
            /\ TotalBalance(r.accts) <= TotalBalance(f)
        BY <2>8, <3>1, <3>2, <3>3, <3>5
      <4>3. InOrder(f, ws) /\ After(f, ws) = r.accts
        BY <4>1, <4>2, <2>4, <2>7, <3>1, ThreeWrites
      <4>4. \A i \in 1..Len(ws) : ws[i].addr \in {tx.sender, tx.receiver, Treasury}
        BY <4>1, <2>4, <2>9, <3>1
      <4>. QED
        BY <4>2, <4>3, <4>4, <1>1
    <3>. QED
      BY <3>4, <3>5
  <2>. QED
    BY <2>10, <2>11, <2>12
<1>. QED
  BY <1>2, <1>3

-----------------------------------------------------------------------------
(***************************************************************************)
(* Snapshots.                                                              *)
(***************************************************************************)
\* The addresses a snapshot for these transactions records.
Touched(txs) == {affected(txs)[i] : i \in 1..Len(affected(txs))}

\* They are everybody a transaction of the block can write to, and nobody else.
LEMMA AffectedCovers ==
    ASSUME NEW txs \in Seq(Transaction)
    PROVE  /\ affected(txs) \in Seq(Address)
           /\ Treasury \in Touched(txs)
           /\ \A i \in 1..Len(txs) : txs[i].sender \in Touched(txs) /\ txs[i].receiver \in Touched(txs)
           /\ \A x \in Touched(txs) :
                x = Treasury \/ \E i \in 1..Len(txs) : x \in {txs[i].sender, txs[i].receiver}
<1> DEFINE n == Len(txs)
           s == [i \in DOMAIN txs |-> txs[i].sender]
           r == [i \in DOMAIN txs |-> txs[i].receiver]
           t == <<Treasury>>
           all == affected(txs)
<1>0. n \in Nat /\ DOMAIN txs = 1..n /\ \A i \in 1..n : txs[i] \in Transaction
  OBVIOUS
<1>1. \A i \in 1..n : txs[i].sender \in Address /\ txs[i].receiver \in Address
  BY <1>0 DEF Transaction
<1>2. /\ s \in Seq(Address) /\ Len(s) = n /\ \A i \in 1..n : s[i] = txs[i].sender
      /\ r \in Seq(Address) /\ Len(r) = n /\ \A i \in 1..n : r[i] = txs[i].receiver
  BY <1>0, <1>1
<1>3. t \in Seq(Address) /\ Len(t) = 1 /\ t[1] = Treasury
  BY TreasuryAssumption
<1>4. all = (s \o r) \o t
  BY DEF affected
<1>. HIDE DEF s, r, t, all
<1>5. /\ s \o r \in Seq(Address) /\ Len(s \o r) = n + n
      /\ \A i \in 1..(n + n) : (s \o r)[i] = IF i <= n THEN s[i] ELSE r[i - n]
  <2>0. s \in Seq(Address) /\ r \in Seq(Address)
    BY <1>2
  <2>1. /\ s \o r \in Seq(Address) /\ Len(s \o r) = Len(s) + Len(r)
        /\ \A i \in 1..(Len(s) + Len(r)) :
             (s \o r)[i] = IF i <= Len(s) THEN s[i] ELSE r[i - Len(s)]
    BY <2>0, ConcatProperties
  <2>. QED
    BY <1>2, <2>1
<1>6. /\ all \in Seq(Address) /\ Len(all) = n + n + 1
      /\ \A i \in 1..(n + n + 1) : all[i] = IF i <= n + n THEN (s \o r)[i] ELSE t[i - (n + n)]
  <2>1. PICK sr : sr = s \o r
    OBVIOUS
  <2>0. sr \in Seq(Address) /\ t \in Seq(Address)
    BY <1>3, <1>5, <2>1
  <2>2. /\ sr \o t \in Seq(Address) /\ Len(sr \o t) = Len(sr) + Len(t)
        /\ \A i \in 1..(Len(sr) + Len(t)) :
             (sr \o t)[i] = IF i <= Len(sr) THEN sr[i] ELSE t[i - Len(sr)]
    BY <2>0, ConcatProperties
  <2>3. Len(sr) = n + n /\ Len(t) = 1 /\ all = sr \o t
    BY <1>3, <1>4, <1>5, <2>1
  <2>. QED
    BY <2>1, <2>2, <2>3
<1>7. all[n + n + 1] = Treasury
  <2>1. n + n + 1 \in 1..(n + n + 1) /\ ~(n + n + 1 <= n + n) /\ (n + n + 1) - (n + n) = 1
    BY <1>0
  <2>. QED
    BY <1>3, <1>6, <2>1
<1>8. ASSUME NEW i \in 1..n
      PROVE  all[i] = txs[i].sender /\ all[i + n] = txs[i].receiver
  <2>1. /\ i \in 1..(n + n) /\ i \in 1..(n + n + 1) /\ i <= n + n /\ i <= n
        /\ i + n \in 1..(n + n) /\ i + n \in 1..(n + n + 1) /\ i + n <= n + n /\ ~(i + n <= n)
        /\ (i + n) - n = i
    BY <1>0
  <2>2. all[i] = s[i] /\ all[i + n] = r[i]
    BY <1>5, <1>6, <2>1
  <2>. QED
    BY <1>2, <2>2
<1>9. Touched(txs) = {all[i] : i \in 1..(n + n + 1)}
  BY <1>6 DEF Touched, all
<1>10. Treasury \in Touched(txs)
  <2>1. n + n + 1 \in 1..(n + n + 1)
    BY <1>0
  <2>. QED
    BY <1>7, <1>9, <2>1
<1>11. ASSUME NEW i \in 1..n
       PROVE  txs[i].sender \in Touched(txs) /\ txs[i].receiver \in Touched(txs)
  <2>1. i \in 1..(n + n + 1) /\ i + n \in 1..(n + n + 1)
    BY <1>0
  <2>. QED
    BY <1>8, <1>9, <2>1
<1>12. ASSUME NEW x \in Touched(txs)
       PROVE  x = Treasury \/ \E i \in 1..n : x \in {txs[i].sender, txs[i].receiver}
  <2>1. PICK j \in 1..(n + n + 1) : x = all[j]
    BY <1>9
  <2>2. CASE j <= n
    <3>1. j \in 1..n
      BY <1>0, <2>1, <2>2
    <3>. QED
      BY <1>8, <2>1, <3>1
  <2>3. CASE ~(j <= n) /\ j <= n + n
    <3>1. j - n \in 1..n /\ (j - n) + n = j
      BY <1>0, <2>1, <2>3
    <3>2. all[(j - n) + n] = txs[j - n].receiver
      BY <1>8, <3>1
    <3>. QED
      BY <2>1, <3>1, <3>2
  <2>4. CASE ~(j <= n + n)
    <3>1. j = n + n + 1
      BY <1>0, <2>1, <2>4
    <3>. QED
      BY <1>7, <2>1, <3>1
  <2>. QED
    BY <2>2, <2>3, <2>4
<1>. QED
  BY <1>6, <1>10, <1>11, <1>12 DEF all

\* The two trees have the same entry, or none, for x.
SameAt(f, g, x) ==
    /\ x \in DOMAIN f <=> x \in DOMAIN g
    /\ x \in DOMAIN f => f[x] = g[x]

\* Trees with the same entries are the same tree.
LEMMA SameEverywhere ==
    ASSUME NEW f, NEW g, IsAccountMap(f), IsAccountMap(g), \A x : SameAt(f, g, x)
    PROVE  f = g
<1>1. f \in [DOMAIN f -> Account] /\ g \in [DOMAIN g -> Account]
  BY DEF IsAccountMap
<1>2. DOMAIN f = DOMAIN g
  BY DEF SameAt
<1>3. \A x \in DOMAIN f : f[x] = g[x]
  BY DEF SameAt
<1>. QED
  BY <1>1, <1>2, <1>3

\* The write that gives an address back what it had in old.
Undo(old, a) == IF a \in DOMAIN old THEN Put(a, old[a]) ELSE Delete(a)

\* A snapshot is the list of these writes.
LEMMA SnapshotUndoes ==
    ASSUME NEW old, IsAccountMap(old), NEW txs \in Seq(Transaction), NEW root, NEW h
    PROVE  LET mod == take_snapshot(old, root, h, affected(txs)).modified IN
           /\ mod \in Seq(WriteType)
           /\ Len(mod) = Len(affected(txs))
           /\ \A i \in 1..Len(mod) : mod[i] = Undo(old, affected(txs)[i])
<1> DEFINE all == affected(txs)
           mod == take_snapshot(old, root, h, all).modified
<1>1. all \in Seq(Address)
  BY AffectedCovers
<1>. HIDE DEF all
<1>2. mod = [i \in DOMAIN all |-> Undo(old, all[i])]
  BY DEF take_snapshot, Undo
<1>3. \A i \in DOMAIN all : Undo(old, all[i]) \in WriteType
  <2>1. ASSUME NEW a \in Address
        PROVE  Undo(old, a) \in WriteType
    <3>1. CASE a \in DOMAIN old
      <4>1. old[a] \in Account
        BY <3>1 DEF IsAccountMap
      <4>. QED
        BY <3>1, <4>1 DEF Undo, Put, WriteType
    <3>2. CASE a \notin DOMAIN old
      BY <3>2 DEF Undo, Delete, WriteType
    <3>. QED
      BY <3>1, <3>2
  <2>. QED
    BY <1>1, <2>1
<1>4. DOMAIN all = 1..Len(all) /\ Len(all) \in Nat
  BY <1>1
<1>5. mod \in Seq(WriteType) /\ Len(mod) = Len(all)
  BY <1>2, <1>3, <1>4
<1>6. \A i \in 1..Len(mod) : mod[i] = Undo(old, all[i])
  BY <1>2, <1>4, <1>5
<1>. QED
  BY <1>5, <1>6 DEF all

\* Any write changes its own address only and keeps the tree a tree.
LEMMA WrittenElsewhere ==
    ASSUME NEW f, IsAccountMap(f), NEW w \in WriteType
    PROVE  /\ IsAccountMap(Written(f, w))
           /\ \A x : x # w.addr => SameAt(Written(f, w), f, x)
<1>1. w.addr \in Address /\ (w.acc = {} \/ \E acc \in Account : w.acc = {acc})
  BY DEF WriteType
<1>2. CASE w.acc = {}
  <2>1. Written(f, w) = [x \in DOMAIN f \ {w.addr} |-> f[x]]
    BY <1>2 DEF Written, Restrict
  <2>. QED
    BY <2>1 DEF IsAccountMap, SameAt
<1>3. ASSUME NEW acc \in Account, w.acc = {acc}
      PROVE  /\ IsAccountMap(Written(f, w))
             /\ \A x : x # w.addr => SameAt(Written(f, w), f, x)
  <2>1. (CHOOSE x \in {acc} : TRUE) = acc /\ {acc} # {}
    OBVIOUS
  <2>2. Written(f, w) = [x \in DOMAIN f \cup {w.addr} |-> IF x = w.addr THEN acc ELSE f[x]]
    BY <1>3, <2>1 DEF Written, save_account
  <2>. QED
    BY <1>1, <2>2 DEF IsAccountMap, SameAt
<1>. QED
  BY <1>1, <1>2, <1>3

\* An undo gives its address back what it had.
LEMMA UndoRestores ==
    ASSUME NEW f, NEW old, NEW a
    PROVE  Undo(old, a).addr = a /\ SameAt(Written(f, Undo(old, a)), old, a)
<1>1. CASE a \in DOMAIN old
  <2>1. Undo(old, a) = Put(a, old[a])
    BY <1>1 DEF Undo
  <2>2. Written(f, Put(a, old[a])) = save_account(f, a, old[a]) /\ Put(a, old[a]).addr = a
    BY WrittenPut
  <2>3. SameAt(save_account(f, a, old[a]), old, a)
    BY <1>1 DEF SameAt, save_account
  <2>. QED
    BY <2>1, <2>2, <2>3
<1>2. CASE a \notin DOMAIN old
  <2>1. Undo(old, a) = Delete(a)
    BY <1>2 DEF Undo
  <2>2. Delete(a).addr = a /\ Delete(a).acc = {}
    BY DEF Delete
  <2>3. Written(f, Delete(a)) = [x \in DOMAIN f \ {a} |-> f[x]]
    BY <2>2 DEF Written, Restrict
  <2>4. SameAt(Written(f, Delete(a)), old, a)
    BY <1>2, <2>3 DEF SameAt
  <2>. QED
    BY <2>1, <2>2, <2>4
<1>. QED
  BY <1>1, <1>2

-----------------------------------------------------------------------------
(***************************************************************************)
(* Gains: how far the accounts are above what they were in another tree.   *)
(***************************************************************************)
\* What the holder of x has in f above what it has in old, and all holders.
Gain(f, old, x) ==
    LET had == Coins(get_or_create_account(old, x))
        has == Coins(get_or_create_account(f, x))
    IN  IF has > had THEN has - had ELSE 0
Gained(f, old) == SumFunctionOnSet([x \in Address |-> Gain(f, old, x)], Address)

\* The coins of any entry are a number.
LEMMA CoinsOf ==
    ASSUME NEW f, IsAccountMap(f), NEW x
    PROVE  Coins(get_or_create_account(f, x)) \in Nat
<1>1. PICK acc : acc = get_or_create_account(f, x)
  OBVIOUS
<1>2. acc \in Account
  BY <1>1, LoadedAccount
<1>3. acc.balance \in Nat /\ acc.staked \in Nat
  BY <1>2, AccountFields
<1>. QED
  BY <1>1, <1>3 DEF Coins

\* So is each gain.
LEMMA GainType ==
    ASSUME NEW f, IsAccountMap(f), NEW old, IsAccountMap(old), NEW x
    PROVE  Gain(f, old, x) \in Nat
<1>1. PICK p \in Nat, q \in Nat : /\ p = Coins(get_or_create_account(f, x))
                                  /\ q = Coins(get_or_create_account(old, x))
  BY CoinsOf
<1>2. Gain(f, old, x) = IF p > q THEN p - q ELSE 0
  BY <1>1 DEF Gain
<1>. QED
  BY <1>2

\* Two trees alike but at one address.
LEMMA GainedBut ==
    ASSUME NEW f, IsAccountMap(f), NEW g, IsAccountMap(g), NEW old, IsAccountMap(old),
           NEW a \in Address, NEW n \in Nat,
           \A x \in Address \ {a} : get_or_create_account(g, x) = get_or_create_account(f, x),
           Gain(g, old, a) <= Gain(f, old, a) + n
    PROVE  /\ Gained(f, old) \in Nat /\ Gained(g, old) \in Nat
           /\ Gained(g, old) <= Gained(f, old) + n
<1>1. PICK F : F = [x \in Address |-> Gain(f, old, x)]
  OBVIOUS
<1>2. PICK G : G = [x \in Address |-> Gain(g, old, x)]
  OBVIOUS
<1>3. \A x \in Address : F[x] \in Nat /\ G[x] \in Nat
  BY <1>1, <1>2, GainType
<1>4. \A x \in Address \ {a} : G[x] = F[x]
  BY <1>1, <1>2 DEF Gain
<1>5. G[a] <= F[a] + n
  BY <1>1, <1>2
<1>6. IsFiniteSet(Address) /\ IsFiniteSet(Address \ {a})
  BY AddressAssumption, FS_Subset
<1>7. PICK R \in Int : R = SumFunctionOnSet(F, Address \ {a})
  <2>1. \A x \in Address \ {a} : F[x] \in Int
    BY <1>3
  <2>2. SumFunctionOnSet(F, Address \ {a}) \in Int
    BY <1>6, <2>1, SumRemove
  <2>. QED
    BY <2>2
<1>8. SumFunctionOnSet(G, Address \ {a}) = R
  BY <1>4, <1>6, <1>7, SumSame
<1>9. SumFunctionOnSet(F, Address) = F[a] + R /\ SumFunctionOnSet(G, Address) = G[a] + R
  <2>1. \A x \in Address : F[x] \in Int /\ G[x] \in Int
    BY <1>3
  <2>2. SumFunctionOnSet(F, Address) = F[a] + SumFunctionOnSet(F, Address \ {a})
    BY <1>6, <2>1, SumRemove
  <2>3. SumFunctionOnSet(G, Address) = G[a] + SumFunctionOnSet(G, Address \ {a})
    BY <1>6, <2>1, SumRemove
  <2>. QED
    BY <1>7, <1>8, <2>2, <2>3
<1>10. SumFunctionOnSet(F, Address) \in Nat /\ SumFunctionOnSet(G, Address) \in Nat
  BY <1>3, <1>6, SumNat
<1>11. Gained(f, old) = SumFunctionOnSet(F, Address) /\ Gained(g, old) = SumFunctionOnSet(G, Address)
  BY <1>1, <1>2 DEF Gained
<1>12. F[a] \in Nat /\ G[a] \in Nat
  BY <1>3
<1>. QED
  BY <1>5, <1>7, <1>9, <1>10, <1>11, <1>12

\* Nothing is gained over the tree itself.
LEMMA GainedNothing ==
    ASSUME NEW f, IsAccountMap(f)
    PROVE  Gained(f, f) = 0
<1>1. PICK F : F = [x \in Address |-> Gain(f, f, x)]
  OBVIOUS
<1>2. ASSUME NEW x \in Address
      PROVE  F[x] = 0
  <2>1. PICK p \in Nat : p = Coins(get_or_create_account(f, x))
    BY CoinsOf
  <2>2. Gain(f, f, x) = IF p > p THEN p - p ELSE 0
    BY <2>1 DEF Gain
  <2>. QED
    BY <1>1, <2>2
<1>3. SumFunctionOnSet(F, Address) = 0
  BY <1>2, AddressAssumption, SumOfZeros
<1>. QED
  BY <1>1, <1>3 DEF Gained

\* A tree holds at most the coins of the other and the gains.
LEMMA AheadByGains ==
    ASSUME NEW f, IsAccountMap(f), NEW old, IsAccountMap(old)
    PROVE  TotalBalance(f) <= TotalBalance(old) + Gained(f, old)
<1>1. PICK F : F = [x \in Address |-> Coins(get_or_create_account(f, x))]
  OBVIOUS
<1>2. PICK O : O = [x \in Address |-> Coins(get_or_create_account(old, x))]
  OBVIOUS
<1>3. PICK G : G = [x \in Address |-> Gain(f, old, x)]
  OBVIOUS
<1>4. PICK H : H = [x \in Address |-> O[x] + G[x]]
  OBVIOUS
<1>5. ASSUME NEW x \in Address
      PROVE  /\ F[x] \in Int /\ O[x] \in Int /\ G[x] \in Int /\ H[x] \in Int
             /\ H[x] = O[x] + G[x] /\ F[x] <= H[x]
  <2>1. PICK p \in Nat, q \in Nat : /\ p = Coins(get_or_create_account(f, x))
                                    /\ q = Coins(get_or_create_account(old, x))
    BY CoinsOf
  <2>2. G[x] = IF p > q THEN p - q ELSE 0
    BY <1>3, <2>1 DEF Gain
  <2>3. F[x] = p /\ O[x] = q
    BY <1>1, <1>2, <2>1
  <2>4. H[x] = O[x] + G[x]
    BY <1>4
  <2>. QED
    BY <2>2, <2>3, <2>4
<1>6. IsFiniteSet(Address)
  BY AddressAssumption
<1>7. SumFunctionOnSet(F, Address) <= SumFunctionOnSet(H, Address)
  BY <1>5, <1>6, SumMonotone
<1>8. SumFunctionOnSet(H, Address) = SumFunctionOnSet(O, Address) + SumFunctionOnSet(G, Address)
  BY <1>5, <1>6, SumPlus
<1>9. TotalBalance(f) = SumFunctionOnSet(F, Address) /\ TotalBalance(old) = SumFunctionOnSet(O, Address)
  BY <1>1, <1>2, TotalOverAddresses
<1>10. Gained(f, old) = SumFunctionOnSet(G, Address)
  BY <1>3 DEF Gained
<1>. QED
  BY <1>7, <1>8, <1>9, <1>10

\* Undoing an entry gains nothing.
LEMMA GainedUndo ==
    ASSUME NEW f, IsAccountMap(f), NEW old, IsAccountMap(old), NEW w \in WriteType,
           w = Undo(old, w.addr)
    PROVE  /\ Gained(f, old) \in Nat /\ Gained(Written(f, w), old) \in Nat
           /\ Gained(Written(f, w), old) <= Gained(f, old)
<1>1. PICK g : g = Written(f, w)
  OBVIOUS
<1>2. PICK a \in Address : a = w.addr
  BY DEF WriteType
<1>3. IsAccountMap(g) /\ \A x : x # a => SameAt(g, f, x)
  BY <1>1, <1>2, WrittenElsewhere
<1>4. \A x \in Address \ {a} : get_or_create_account(g, x) = get_or_create_account(f, x)
  BY <1>3 DEF SameAt, get_or_create_account
<1>5. SameAt(g, old, a)
  BY <1>1, <1>2, UndoRestores
<1>6. get_or_create_account(g, a) = get_or_create_account(old, a)
  BY <1>5 DEF SameAt, get_or_create_account
<1>7. PICK q \in Nat : q = Coins(get_or_create_account(old, a))
  BY CoinsOf
<1>8. Gain(g, old, a) = IF q > q THEN q - q ELSE 0
  BY <1>6, <1>7 DEF Gain
<1>9. Gain(f, old, a) \in Nat
  BY GainType
<1>10. Gain(g, old, a) <= Gain(f, old, a) + 0
  BY <1>8, <1>9
<1>11. /\ Gained(f, old) \in Nat /\ Gained(g, old) \in Nat
       /\ Gained(g, old) <= Gained(f, old) + 0
  BY <1>3, <1>4, <1>10, GainedBut
<1>. QED
  BY <1>1, <1>11

\* A save adds to the gains what it adds to the account, at most.
LEMMA GainedSave ==
    ASSUME NEW f, IsAccountMap(f), NEW old, IsAccountMap(old), NEW a \in Address,
           NEW acc \in Account, NEW n \in Nat,
           Coins(acc) <= Coins(get_or_create_account(f, a)) + n
    PROVE  /\ Gained(f, old) \in Nat /\ Gained(save_account(f, a, acc), old) \in Nat
           /\ Gained(save_account(f, a, acc), old) <= Gained(f, old) + n
<1>1. PICK g : g = save_account(f, a, acc)
  OBVIOUS
<1>2. IsAccountMap(g)
  BY <1>1, SavedAccount
<1>3. \A x \in Address \ {a} : get_or_create_account(g, x) = get_or_create_account(f, x)
  BY <1>1 DEF save_account, get_or_create_account
<1>4. get_or_create_account(g, a) = acc
  BY <1>1 DEF save_account, get_or_create_account
<1>5. PICK p \in Nat, q \in Nat, r \in Nat :
         /\ p = Coins(get_or_create_account(f, a))
         /\ q = Coins(get_or_create_account(old, a))
         /\ r = Coins(get_or_create_account(g, a))
  BY <1>2, CoinsOf
<1>6. r <= p + n
  BY <1>4, <1>5
<1>7. /\ Gain(f, old, a) = IF p > q THEN p - q ELSE 0
      /\ Gain(g, old, a) = IF r > q THEN r - q ELSE 0
  BY <1>5 DEF Gain
<1>8. Gain(g, old, a) <= Gain(f, old, a) + n
  BY <1>6, <1>7
<1>9. /\ Gained(f, old) \in Nat /\ Gained(g, old) \in Nat
      /\ Gained(g, old) <= Gained(f, old) + n
  BY <1>2, <1>3, <1>8, GainedBut
<1>. QED
  BY <1>1, <1>9

\* A credit adds its amount to the gains, at most.
LEMMA GainedCredit ==
    ASSUME NEW f, IsAccountMap(f), NEW old, IsAccountMap(old), NEW a \in Address, NEW n \in Nat
    PROVE  LET g == credit_account(f, a, n).accts IN
           /\ IsAccountMap(g)
           /\ Gained(f, old) \in Nat /\ Gained(g, old) \in Nat
           /\ Gained(g, old) <= Gained(f, old) + n
<1>1. PICK acc : acc = get_or_create_account(f, a)
  OBVIOUS
<1>2. acc \in Account /\ Coins(acc) \in Nat
  BY <1>1, LoadedAccount, CoinsOf
<1>3. PICK g : g = credit_account(f, a, n).accts
  OBVIOUS
<1>4. CASE acc.balance + n \in U64
  <2>1. PICK new : new = Credited(acc, n)
    OBVIOUS
  <2>2. new \in Account /\ Coins(new) = Coins(acc) + n
    BY <1>2, <1>4, <2>1, CreditedAccount
  <2>3. g = save_account(f, a, new)
    BY <1>1, <1>3, <1>4, <2>1 DEF credit_account, Ok
  <2>4. IsAccountMap(g)
    BY <2>2, <2>3, SavedAccount
  <2>5. Coins(new) <= Coins(get_or_create_account(f, a)) + n
    BY <1>1, <1>2, <2>2
  <2>6. /\ Gained(f, old) \in Nat /\ Gained(g, old) \in Nat
        /\ Gained(g, old) <= Gained(f, old) + n
    BY <2>2, <2>3, <2>5, GainedSave
  <2>. QED
    BY <1>3, <2>4, <2>6
<1>5. CASE acc.balance + n \notin U64
  <2>1. g = f
    BY <1>1, <1>3, <1>5 DEF credit_account, Err
  <2>2. Gained(f, old) \in Nat
    <3>1. Coins(acc) <= Coins(get_or_create_account(f, a)) + 0
      BY <1>1, <1>2
    <3>. QED
      BY <1>2, <3>1, GainedSave
  <2>. QED
    BY <1>3, <2>1, <2>2
<1>. QED
  BY <1>4, <1>5

\* The treasury's share of a fee adds a tenth of it, at most.
LEMMA GainedSplit ==
    ASSUME NEW f, IsAccountMap(f), NEW old, IsAccountMap(old), NEW fee \in Nat
    PROVE  LET g == apply_fee_split(f, fee).accts IN
           /\ Gained(f, old) \in Nat /\ Gained(g, old) \in Nat
           /\ Gained(g, old) <= Gained(f, old) + fee \div 10
<1>1. PICK n \in Nat : n = fee \div 10
  OBVIOUS
<1>2. PICK g : g = apply_fee_split(f, fee).accts
  OBVIOUS
<1>3. LET h == credit_account(f, Treasury, n).accts IN
      /\ Gained(f, old) \in Nat /\ Gained(h, old) \in Nat
      /\ Gained(h, old) <= Gained(f, old) + n
  BY TreasuryAssumption, GainedCredit
<1>4. CASE n > 0
  <2>1. g = credit_account(f, Treasury, n).accts
    BY <1>1, <1>2, <1>4 DEF apply_fee_split
  <2>. QED
    BY <1>1, <1>2, <1>3, <2>1
<1>5. CASE ~(n > 0)
  <2>1. g = f
    BY <1>1, <1>2, <1>5 DEF apply_fee_split, Ok
  <2>. QED
    BY <1>1, <1>2, <1>3, <1>5, <2>1
<1>. QED
  BY <1>4, <1>5

\* A transaction adds to the gains the coins it credits, at most.
LEMMA TransactionGains ==
    ASSUME NEW f, IsAccountMap(f), NEW old, IsAccountMap(old), NEW tx \in Transaction
    PROVE  /\ Moved(tx) \in Nat
           /\ Gained(f, old) \in Nat /\ Gained(apply_transaction(f, tx).accts, old) \in Nat
           /\ Gained(apply_transaction(f, tx).accts, old) <= Gained(f, old) + Moved(tx)
<1>0. /\ tx.sender \in Address /\ tx.receiver \in Address
      /\ tx.amount \in Nat /\ tx.fee \in Nat
  BY WidthAssumption DEF Transaction, U64
<1>1. PICK m \in Nat, n \in Nat :
         m = (IF tx.type = "Transfer" THEN tx.amount ELSE 0) /\ n = tx.fee \div 10
  <2>1. tx.fee \div 10 \in Nat
    BY <1>0
  <2>2. (IF tx.type = "Transfer" THEN tx.amount ELSE 0) \in Nat
    BY <1>0
  <2>. QED
    BY <2>1, <2>2
<1>2. Moved(tx) = m + n
  BY <1>1 DEF Moved
<1>3. PICK r : r = apply_transaction(f, tx)
  OBVIOUS
<1>4. PICK had : had = get_or_create_account(f, tx.sender)
  OBVIOUS
<1>5. had \in Account /\ Coins(had) \in Nat
  BY <1>4, LoadedAccount, CoinsOf
<1>6. Gained(f, old) \in Nat
  <2>1. Coins(had) <= Coins(get_or_create_account(f, tx.sender)) + 0
    BY <1>4, <1>5
  <2>. QED
    BY <1>0, <1>5, <2>1, GainedSave
<1>7. CASE r.accts = f
  BY <1>2, <1>3, <1>6, <1>7
<1>8. CASE r.accts # f
  <2>1. PICK own : own = own_write(f, tx)
    OBVIOUS
  <2>2. PICK debited : debited = save_account(f, tx.sender, own)
    OBVIOUS
  <2>3. PICK paid : paid = credit_account(debited, tx.receiver, tx.amount)
    OBVIOUS
  <2>4. /\ own \in Account
        /\ tx.type = "Transfer" =>
             /\ Coins(own) = Coins(had) - (tx.amount + tx.fee)
             /\ r = IF paid.ok THEN apply_fee_split(paid.accts, tx.fee) ELSE Err(debited)
        /\ tx.type # "Transfer" =>
             /\ Coins(own) = Coins(had) - tx.fee
             /\ r = apply_fee_split(debited, tx.fee)
    BY <1>3, <1>4, <1>8, <2>1, <2>2, <2>3, SenderCharged
  <2>5. Coins(own) <= Coins(get_or_create_account(f, tx.sender)) + 0
    BY <1>0, <1>4, <1>5, <2>4
  <2>6. /\ IsAccountMap(debited) /\ Gained(debited, old) \in Nat
        /\ Gained(debited, old) <= Gained(f, old) + 0
    <3>1. IsAccountMap(debited)
      BY <1>0, <2>2, <2>4, SavedAccount
    <3>. QED
      BY <1>0, <2>2, <2>4, <2>5, <3>1, GainedSave
  <2>7. CASE tx.type # "Transfer"
    <3>1. /\ Gained(r.accts, old) \in Nat
          /\ Gained(r.accts, old) <= Gained(debited, old) + tx.fee \div 10
      BY <1>0, <2>4, <2>6, <2>7, GainedSplit
    <3>. QED
      BY <1>1, <1>2, <1>3, <1>6, <2>6, <3>1
  <2>8. CASE tx.type = "Transfer" /\ ~paid.ok
    <3>1. r.accts = debited
      BY <2>4, <2>8 DEF Err
    <3>. QED
      BY <1>2, <1>3, <1>6, <2>6, <3>1
  <2>9. CASE tx.type = "Transfer" /\ paid.ok
    <3>1. /\ IsAccountMap(paid.accts) /\ Gained(paid.accts, old) \in Nat
          /\ Gained(paid.accts, old) <= Gained(debited, old) + tx.amount
      BY <1>0, <2>3, <2>6, GainedCredit
    <3>2. /\ Gained(r.accts, old) \in Nat
          /\ Gained(r.accts, old) <= Gained(paid.accts, old) + tx.fee \div 10
      BY <1>0, <2>4, <2>9, <3>1, GainedSplit
    <3>3. m = tx.amount
      BY <1>1, <2>9
    <3>. QED
      BY <1>1, <1>2, <1>3, <1>6, <2>6, <3>1, <3>2, <3>3
  <2>. QED
    BY <2>7, <2>8, <2>9
<1>. QED
  BY <1>7, <1>8

\* The coins that the first n transactions of a block credit.
Moves(txs) == [i \in DOMAIN txs |-> Moved(txs[i])]
MovedUpTo(txs, n) == SumFunctionOnSet(Moves(txs), 1..n)

\* One transaction more, up to all of them.
LEMMA MovedByMore ==
    ASSUME NEW txs \in Seq(Transaction), NEW n \in Nat, n <= Len(txs)
    PROVE  /\ MovedUpTo(txs, n) \in Nat
           /\ MovedBy(txs) \in Nat
           /\ MovedUpTo(txs, n) <= MovedBy(txs)
           /\ n < Len(txs) => MovedUpTo(txs, n + 1) = MovedUpTo(txs, n) + Moved(txs[n + 1])
<1>1. PICK k \in Nat : k = Len(txs)
  OBVIOUS
<1>2. DOMAIN txs = 1..k
  BY <1>1
<1>3. PICK F : F = Moves(txs)
  OBVIOUS
<1>4. ASSUME NEW i \in 1..k
      PROVE  F[i] = Moved(txs[i]) /\ F[i] \in Nat
  <2>1. txs[i] \in Transaction
    BY <1>1
  <2>2. txs[i].amount \in Nat /\ txs[i].fee \in Nat
    BY <2>1, WidthAssumption DEF Transaction, U64
  <2>3. Moved(txs[i]) \in Nat
    BY <2>2 DEF Moved
  <2>4. F[i] = Moved(txs[i])
    BY <1>2, <1>3 DEF Moves
  <2>. QED
    BY <2>3, <2>4
<1>5. IsFiniteSet(1..k) /\ 1..n \in SUBSET (1..k)
  BY <1>1, FS_Interval
<1>6. MovedBy(txs) = SumFunctionOnSet(F, 1..k)
  <2>1. DOMAIN F = 1..k
    BY <1>2, <1>3 DEF Moves
  <2>2. MovedBy(txs) = SumFunction(F)
    BY <1>3 DEF MovedBy, Moves
  <2>. QED
    BY <2>1, <2>2 DEF SumFunction
<1>7. MovedUpTo(txs, n) = SumFunctionOnSet(F, 1..n)
  BY <1>3 DEF MovedUpTo
<1>8. SumFunctionOnSet(F, 1..k) \in Nat
  BY <1>4, <1>5, SumNat
<1>9. SumFunctionOnSet(F, 1..n) \in Nat /\ SumFunctionOnSet(F, 1..n) <= SumFunctionOnSet(F, 1..k)
  BY <1>4, <1>5, SumSubset
<1>10. ASSUME n < k
       PROVE  MovedUpTo(txs, n + 1) = MovedUpTo(txs, n) + Moved(txs[n + 1])
  <2>1. n + 1 \in 1..(n + 1) /\ n + 1 \in 1..k /\ (1..(n + 1)) \ {n + 1} = 1..n
    BY <1>10
  <2>2. \A i \in 1..(n + 1) : F[i] \in Int
    BY <1>4, <1>10
  <2>3. IsFiniteSet(1..(n + 1))
    BY FS_Interval
  <2>4. SumFunctionOnSet(F, 1..(n + 1)) = F[n + 1] + SumFunctionOnSet(F, (1..(n + 1)) \ {n + 1})
    BY <2>1, <2>2, <2>3, SumRemove
  <2>5. F[n + 1] = Moved(txs[n + 1]) /\ F[n + 1] \in Nat
    BY <1>4, <2>1
  <2>6. MovedUpTo(txs, n + 1) = SumFunctionOnSet(F, 1..(n + 1))
    BY <1>3 DEF MovedUpTo
  <2>7. PICK a, b, c : a = F[n + 1] /\ b = SumFunctionOnSet(F, 1..n) /\ c = Moved(txs[n + 1])
    OBVIOUS
  <2>8. MovedUpTo(txs, n + 1) = a + b /\ a = c /\ a \in Nat /\ b \in Nat
    BY <1>9, <2>1, <2>4, <2>5, <2>6, <2>7
  <2>9. a + b = b + c
    BY <2>8
  <2>. QED
    BY <1>7, <2>7, <2>8, <2>9
<1>. QED
  BY <1>1, <1>6, <1>7, <1>8, <1>9, <1>10

-----------------------------------------------------------------------------
(***************************************************************************)
(* The invariant.                                                          *)
(***************************************************************************)
\* What take_snapshot recorded when the current or last block was begun.
TheSnapshot == take_snapshot(before.accounts, before.state_root, height, affected(before.block))

\* The trees and what is in memory have their types.
Types ==
    /\ IsAccountMap(accounts) /\ IsAccountMap(before.accounts)
    /\ phase \in {"idle", "snapshot", "apply", "undo"}
    /\ failing \in BOOLEAN
    /\ height \in 0..MaxHeight
    /\ writes \in Seq(WriteType)
    /\ block \in Seq(Transaction) /\ before.block \in Seq(Transaction)
    /\ snapshots.count = {} \/ snapshots.count = {0}
    /\ phase \in {"idle", "snapshot"} => writes = <<>>

\* In the middle of a block, and after a crash there, the snapshot of the
\* accounts before it is in the database, where the count leads to it even
\* before it is saved, and no other account has changed.
Saved ==
    /\ phase # "idle" \/ outcome = "crashed" =>
         /\ snapshots.stack[0] = TheSnapshot
         /\ state_root = before.state_root
         /\ \A x : x \notin Touched(before.block) => SameAt(accounts, before.accounts, x)
    /\ phase # "idle" => snapshot = TheSnapshot

\* The writes ahead are those of a transaction, to accounts the snapshot
\* recorded, and neither now nor after them are there more coins than before.
Applying ==
    phase \in {"snapshot", "apply"} =>
        /\ InOrder(accounts, writes)
        /\ \A i \in 1..Len(writes) : writes[i].addr \in Touched(before.block)
        /\ \A i \in 1..Len(block) : /\ block[i].sender \in Touched(before.block)
                                    /\ block[i].receiver \in Touched(before.block)
        /\ TotalBalance(before.accounts) \in Nat
        /\ TotalBalance(accounts) \in Nat
        /\ TotalBalance(After(accounts, writes)) \in Nat
        /\ TotalBalance(accounts) <= TotalBalance(before.accounts)
        /\ TotalBalance(After(accounts, writes)) <= TotalBalance(before.accounts)

\* The account at x is as before the block, or one of these writes makes it so.
Undone(old, f, ws, x) == SameAt(f, old, x) \/ \E i \in 1..Len(ws) : ws[i].addr = x

\* A rollback has the rest of the snapshot to write, and every account is back
\* or still among that rest.
Undoing ==
    phase = "undo" =>
        /\ \A i \in 1..Len(writes) : /\ writes[i] = Undo(before.accounts, writes[i].addr)
                                     /\ writes[i].addr \in Touched(before.block)
        /\ \A x : Undone(before.accounts, accounts, writes, x)

\* What is left of the block is its last transactions, and after the writes
\* ahead no more coins have been gained than the others credit; a rollback
\* begins with that and adds nothing to it.
Gaining ==
    /\ phase \in {"snapshot", "apply"} =>
         LET n == Len(before.block) - Len(block) IN
         /\ n \in Nat
         /\ \A i \in 1..Len(block) : block[i] = before.block[n + i]
         /\ Gained(After(accounts, writes), before.accounts) <= MovedUpTo(before.block, n)
    /\ phase = "undo" => Gained(accounts, before.accounts) <= MovedBy(before.block)

\* The inductive invariant.
Inv == Types /\ Saved /\ Applying /\ Undoing /\ Gaining /\ RollbackRestores

\* Credits only raise the total.
LEMMA CreditsLeft ==
    ASSUME NEW f, IsAccountMap(f), NEW ws, InOrder(f, ws), Len(ws) >= 1 => IsCredit(f, ws[1])
    PROVE  /\ TotalBalance(f) \in Nat => TotalBalance(f) <= TotalBalance(After(f, ws))
           /\ TotalBalance(f) \in Nat => TotalBalance(After(f, ws)) \in Nat
<1>1. ws \in Seq(WriteType) /\ Len(ws) \in {0, 1, 2, 3}
  <2>1. ws \in Seq(WriteType) /\ Len(ws) <= 3 /\ Len(ws) \in Nat
    BY DEF InOrder
  <2>2. \A n \in Nat : n <= 3 => n \in {0, 1, 2, 3}
    OBVIOUS
  <2>. QED
    BY <2>1, <2>2
<1>2. CASE Len(ws) = 0
  <2>1. After(f, ws) = f
    BY <1>2 DEF After
  <2>. QED
    BY <2>1
<1>3. ASSUME Len(ws) >= 1
      PROVE  /\ IsAccountMap(After1(f, ws)) /\ TotalBalance(f) \in Nat /\ TotalBalance(After1(f, ws)) \in Nat
             /\ TotalBalance(f) <= TotalBalance(After1(f, ws))
  <2>1. ws[1] \in WriteType /\ IsCredit(f, ws[1])
    BY <1>1, <1>3
  <2>. QED
    BY <2>1, CreditWritten DEF After1
<1>4. ASSUME Len(ws) >= 2
      PROVE  /\ IsAccountMap(After2(f, ws)) /\ TotalBalance(After2(f, ws)) \in Nat
             /\ TotalBalance(After1(f, ws)) <= TotalBalance(After2(f, ws))
  <2>1. ws[2] \in WriteType /\ IsCredit(After1(f, ws), ws[2])
    BY <1>1, <1>4 DEF InOrder
  <2>2. IsAccountMap(After1(f, ws))
    BY <1>1, <1>3, <1>4
  <2>. QED
    BY <2>1, <2>2, CreditWritten DEF After2
<1>5. ASSUME Len(ws) >= 3
      PROVE  /\ TotalBalance(After3(f, ws)) \in Nat
             /\ TotalBalance(After2(f, ws)) <= TotalBalance(After3(f, ws))
  <2>1. ws[3] \in WriteType /\ IsCredit(After2(f, ws), ws[3])
    BY <1>1, <1>5 DEF InOrder
  <2>2. IsAccountMap(After2(f, ws))
    BY <1>1, <1>4, <1>5
  <2>. QED
    BY <2>1, <2>2, CreditWritten DEF After3
<1>6. CASE Len(ws) = 1
  <2>1. After(f, ws) = After1(f, ws)
    BY <1>6 DEF After
  <2>. QED
    BY <1>3, <1>6, <2>1
<1>7. CASE Len(ws) = 2
  <2>1. After(f, ws) = After2(f, ws)
    BY <1>7 DEF After
  <2>. QED
    BY <1>3, <1>4, <1>7, <2>1
<1>8. CASE Len(ws) = 3
  <2>1. After(f, ws) = After3(f, ws)
    BY <1>8 DEF After
  <2>. QED
    BY <1>3, <1>4, <1>5, <1>8, <2>1
<1>. QED
  BY <1>1, <1>2, <1>6, <1>7, <1>8

\* The invariant holds at the start.
LEMMA InvInit == Init => Inv
<1>. SUFFICES ASSUME Init PROVE Inv
  OBVIOUS
<1>1. Types
  <2>1. before.accounts = Start /\ before.block = <<>> /\ snapshots.count = {}
    BY DEF Init
  <2>2. 0 \in 0..MaxHeight
    BY SwitchAssumption
  <2>3. <<>> \in Seq(Transaction) /\ <<>> \in Seq(WriteType)
    OBVIOUS
  <2>. QED
    BY StartAssumption, <2>1, <2>2, <2>3 DEF Init, Types
<1>2. phase = "idle" /\ outcome = "none"
  BY DEF Init
<1>. QED
  BY <1>1, <1>2 DEF Inv, Saved, Applying, Undoing, Gaining, RollbackRestores

\* Beginning a block preserves the invariant.
LEMMA InvBeginBlock ==
    ASSUME Inv, NEW txs \in Blocks, BeginBlock(txs)
    PROVE  Inv'
<1>0. txs \in Seq(Transaction)
  BY BlocksAssumption
<1>1. /\ accounts' = accounts /\ state_root' = state_root /\ writes' = writes /\ failing' = failing
      /\ phase = "idle" /\ phase' = "snapshot" /\ height < MaxHeight /\ height' = height + 1 /\ block' = txs
      /\ before' = [accounts |-> accounts, state_root |-> state_root, block |-> txs]
  BY DEF BeginBlock
<1>2. before'.accounts = accounts /\ before'.state_root = state_root /\ before'.block = txs
  BY <1>1
<1>3. /\ IsAccountMap(accounts) /\ writes = <<>> /\ failing \in BOOLEAN /\ height \in 0..MaxHeight
      /\ snapshots.count = {} \/ snapshots.count = {0}
  BY <1>1 DEF Inv, Types
<1>4. get_snapshot_count(snapshots) = 0
  BY <1>3 DEF get_snapshot_count
<1>5. /\ snapshots'.stack[0] = snapshot'
      /\ snapshots'.count = {} \/ snapshots'.count = {0}
  BY <1>3, <1>4 DEF BeginBlock
<1>6. snapshot' = TheSnapshot'
  BY <1>1, <1>2 DEF BeginBlock, TheSnapshot
<1>7. height' \in 0..MaxHeight
  BY <1>1, <1>3, SwitchAssumption
<1>8. Types'
  BY <1>0, <1>1, <1>2, <1>3, <1>5, <1>7 DEF Types
<1>9. Saved'
  BY <1>1, <1>2, <1>5, <1>6 DEF Saved, SameAt
<1>10. Applying'
  <2>1. InOrder(accounts, <<>>) /\ After(accounts, <<>>) = accounts
    BY DEF InOrder, After
  <2>2. TotalBalance(accounts) \in Nat
    BY <1>3, FreshAccount, TreasuryAssumption, SavedAccount
  <2>3. \A i \in 1..Len(txs) : txs[i].sender \in Touched(txs) /\ txs[i].receiver \in Touched(txs)
    BY <1>0, AffectedCovers
  <2>. QED
    BY <1>1, <1>2, <1>3, <2>1, <2>2, <2>3 DEF Applying
<1>11. Gaining'
  <2>1. After(accounts, <<>>) = accounts
    BY DEF After
  <2>2. Gained(accounts, accounts) = 0
    BY <1>3, GainedNothing
  <2>3. Len(txs) \in Nat /\ Len(txs) - Len(txs) = 0 /\ \A i \in 1..Len(txs) : txs[i] = txs[0 + i]
    BY <1>0
  <2>4. 0 <= MovedUpTo(txs, 0)
    BY <1>0, <2>3, MovedByMore
  <2>. QED
    BY <1>1, <1>2, <1>3, <2>1, <2>2, <2>3, <2>4 DEF Gaining
<1>. QED
  BY <1>1, <1>8, <1>9, <1>10, <1>11 DEF Inv, Undoing, RollbackRestores

\* Saving the count preserves the invariant.
LEMMA InvSaveCount ==
    ASSUME Inv, SaveCount
    PROVE  Inv'
<1>1. /\ UNCHANGED <<accounts, state_root, height, writes, failing, block, snapshot, before, outcome>>
      /\ phase = "snapshot" /\ phase' = "apply"
  BY DEF SaveCount
<1>2. Types /\ Saved /\ Applying /\ Gaining
  BY DEF Inv
<1>3. get_snapshot_count(snapshots) = 0
  BY <1>2 DEF Types, get_snapshot_count
<1>4. snapshots'.count = {0} /\ snapshots'.stack = snapshots.stack
  BY <1>3 DEF SaveCount
<1>5. TheSnapshot' = TheSnapshot
  BY <1>1 DEF TheSnapshot
<1>6. Types'
  BY <1>1, <1>2, <1>4 DEF Types
<1>7. Saved'
  BY <1>1, <1>2, <1>4, <1>5 DEF Saved
<1>8. Applying' /\ Gaining'
  BY <1>1, <1>2 DEF Applying, Gaining
<1>. QED
  BY <1>1, <1>6, <1>7, <1>8 DEF Inv, Undoing, RollbackRestores

\* Beginning a transaction preserves the invariant.
LEMMA InvBeginTransaction ==
    ASSUME Inv, BeginTransaction
    PROVE  Inv'
<1> DEFINE tx == Head(block)
<1>1. /\ UNCHANGED <<accounts, state_root, snapshots, height, phase, snapshot, before, outcome>>
      /\ phase = "apply" /\ writes = <<>> /\ ~failing /\ block # <<>>
      /\ writes' = tx_writes(accounts, tx) /\ block' = Tail(block)
      /\ failing' = ~apply_transaction(accounts, tx).ok
  BY DEF BeginTransaction
<1>2. Types /\ Saved /\ Applying /\ Gaining
  BY DEF Inv
<1>3. /\ tx = block[1] /\ tx \in Transaction /\ 1 \in 1..Len(block)
      /\ Tail(block) \in Seq(Transaction) /\ Len(Tail(block)) = Len(block) - 1
      /\ \A i \in 1..Len(Tail(block)) : Tail(block)[i] = block[i + 1] /\ i + 1 \in 1..Len(block)
  BY <1>1, <1>2 DEF Types
<1>. HIDE DEF tx
<1>4. /\ InOrder(accounts, writes')
      /\ IsAccountMap(apply_transaction(accounts, tx).accts)
      /\ After(accounts, writes') = apply_transaction(accounts, tx).accts
      /\ TotalBalance(After(accounts, writes')) \in Nat
      /\ TotalBalance(After(accounts, writes')) <= TotalBalance(accounts)
      /\ \A i \in 1..Len(writes') : writes'[i].addr \in {tx.sender, tx.receiver, Treasury}
  <2>1. IsAccountMap(accounts)
    BY <1>2 DEF Types
  <2>. QED
    BY <1>1, <1>3, <2>1, TransactionWrites
<1>5. Types'
  <2>1. writes' \in Seq(WriteType)
    BY <1>4 DEF InOrder
  <2>. QED
    BY <1>1, <1>2, <1>3, <2>1 DEF Types
<1>6. TheSnapshot' = TheSnapshot
  BY <1>1 DEF TheSnapshot
<1>7. Saved'
  BY <1>1, <1>2, <1>6 DEF Saved
<1>8. Applying'
  <2>1. before' = before /\ accounts' = accounts
    BY <1>1
  <2>2. Treasury \in Touched(before.block)
    BY <1>2, AffectedCovers DEF Types
  <2>3. tx.sender \in Touched(before.block) /\ tx.receiver \in Touched(before.block)
    BY <1>1, <1>2, <1>3 DEF Applying
  <2>4. \A i \in 1..Len(writes') : writes'[i].addr \in Touched(before.block)
    BY <1>4, <2>2, <2>3
  <2>5. \A i \in 1..Len(block') : /\ block'[i].sender \in Touched(before.block)
                                  /\ block'[i].receiver \in Touched(before.block)
    BY <1>1, <1>2, <1>3 DEF Applying
  <2>6. /\ TotalBalance(before.accounts) \in Nat /\ TotalBalance(accounts) \in Nat
        /\ TotalBalance(accounts) <= TotalBalance(before.accounts)
    BY <1>1, <1>2 DEF Applying
  <2>7. TotalBalance(After(accounts, writes')) <= TotalBalance(before.accounts)
    BY <1>4, <2>6
  <2>. QED
    BY <1>4, <2>1, <2>4, <2>5, <2>6, <2>7 DEF Applying
<1>9. Gaining'
  <2>1. PICK old : old = before.accounts
    OBVIOUS
  <2>2. PICK txs : txs = before.block
    OBVIOUS
  <2>3. PICK k \in Nat, l \in Nat : k = Len(txs) /\ l = Len(block)
    BY <1>2, <2>2 DEF Types
  <2>4. /\ IsAccountMap(accounts) /\ IsAccountMap(old) /\ txs \in Seq(Transaction)
    BY <1>2, <2>1, <2>2 DEF Types
  <2>5. PICK n \in Nat : n = k - l
    BY <1>1, <1>2, <2>2, <2>3 DEF Gaining
  <2>6. /\ \A i \in 1..l : block[i] = txs[n + i]
        /\ Gained(After(accounts, writes), old) <= MovedUpTo(txs, n)
    BY <1>1, <1>2, <2>1, <2>2, <2>3, <2>5 DEF Gaining
  <2>7. Gained(accounts, old) <= MovedUpTo(txs, n)
    <3>1. After(accounts, <<>>) = accounts
      BY DEF After
    <3>. QED
      BY <1>1, <2>6, <3>1
  <2>8. l >= 1 /\ n < k /\ n <= k
    BY <1>3, <2>3, <2>5
  <2>9. tx = txs[n + 1]
    BY <1>3, <2>3, <2>6
  <2>10. Len(block') = l - 1 /\ k - (l - 1) = n + 1
    BY <1>1, <1>3, <2>3, <2>5
  <2>11. ASSUME NEW i \in 1..Len(block')
         PROVE  block'[i] = txs[(n + 1) + i]
    <3>1. i + 1 \in 1..l /\ n + (i + 1) = (n + 1) + i
      BY <2>3, <2>5, <2>10
    <3>2. block'[i] = block[i + 1]
      BY <1>1, <1>3
    <3>. QED
      BY <2>6, <3>1, <3>2
  <2>12. PICK a \in Nat, b \in Nat, c \in Nat, m \in Nat :
           /\ a = Gained(accounts, old) /\ b = Gained(After(accounts, writes'), old)
           /\ c = MovedUpTo(txs, n) /\ m = Moved(tx)
    <3>1. /\ Moved(tx) \in Nat /\ Gained(accounts, old) \in Nat
          /\ Gained(apply_transaction(accounts, tx).accts, old) \in Nat
      BY <1>3, <2>4, TransactionGains
    <3>2. MovedUpTo(txs, n) \in Nat
      BY <2>3, <2>4, <2>8, MovedByMore
    <3>. QED
      BY <1>4, <3>1, <3>2
  <2>13. b <= a + m /\ a <= c
    <3>1. Gained(apply_transaction(accounts, tx).accts, old) <= Gained(accounts, old) + Moved(tx)
      BY <1>3, <2>4, TransactionGains
    <3>. QED
      BY <1>4, <2>7, <2>12, <3>1
  <2>14. MovedUpTo(txs, n + 1) = c + m
    BY <2>3, <2>4, <2>8, <2>9, <2>12, MovedByMore
  <2>15. Gained(After(accounts', writes'), old) <= MovedUpTo(txs, n + 1)
    BY <1>1, <2>12, <2>13, <2>14
  <2>16. /\ Len(before'.block) - Len(block') = n + 1 /\ n + 1 \in Nat
         /\ before'.block = txs /\ before'.accounts = old
    BY <1>1, <2>1, <2>2, <2>3, <2>10
  <2>. QED
    BY <1>1, <2>11, <2>15, <2>16 DEF Gaining
<1>. QED
  BY <1>1, <1>5, <1>7, <1>8, <1>9 DEF Inv, Undoing, RollbackRestores

\* The first of the writes ahead, and the rest.
LEMMA WritesAhead ==
    ASSUME NEW ws \in Seq(WriteType), ws # <<>>
    PROVE  /\ Head(ws) = ws[1] /\ Head(ws) \in WriteType /\ 1 \in 1..Len(ws)
           /\ Tail(ws) \in Seq(WriteType)
           /\ \A i \in 1..Len(Tail(ws)) : Tail(ws)[i] = ws[i + 1] /\ i + 1 \in 1..Len(ws)
           /\ \A j \in 1..Len(ws) : j = 1 \/ (j - 1 \in 1..Len(Tail(ws)) /\ Tail(ws)[j - 1] = ws[j])
<1>1. /\ Head(ws) = ws[1] /\ Head(ws) \in WriteType /\ Len(ws) \in Nat /\ Len(ws) >= 1
      /\ Tail(ws) \in Seq(WriteType) /\ Len(Tail(ws)) = Len(ws) - 1
      /\ \A i \in 1..Len(Tail(ws)) : Tail(ws)[i] = ws[i + 1]
  OBVIOUS
<1>2. ASSUME NEW j \in 1..Len(ws), j # 1
      PROVE  j - 1 \in 1..Len(Tail(ws)) /\ Tail(ws)[j - 1] = ws[j]
  <2>1. j - 1 \in 1..Len(Tail(ws)) /\ (j - 1) + 1 = j
    BY <1>1, <1>2
  <2>. QED
    BY <1>1, <2>1
<1>3. \A i \in 1..Len(Tail(ws)) : i + 1 \in 1..Len(ws)
  BY <1>1
<1>. QED
  BY <1>1, <1>2, <1>3

\* One more write undone.
LEMMA UndoOne ==
    ASSUME NEW f, IsAccountMap(f), NEW old, NEW ws \in Seq(WriteType), ws # <<>>,
           Head(ws) = Undo(old, Head(ws).addr),
           NEW x, Undone(old, f, ws, x)
    PROVE  Undone(old, Written(f, Head(ws)), Tail(ws), x)
<1> DEFINE w == Head(ws)
           g == Written(f, w)
<1>1. w = ws[1] /\ w \in WriteType
  BY WritesAhead
<1>2. \A y : y # w.addr => SameAt(g, f, y)
  BY <1>1, WrittenElsewhere
<1>3. SameAt(g, old, w.addr)
  BY UndoRestores
<1>. HIDE DEF w, g
<1>4. CASE x = w.addr
  BY <1>3, <1>4 DEF Undone, w, g
<1>5. CASE x # w.addr /\ SameAt(f, old, x)
  <2>1. SameAt(g, f, x)
    BY <1>2, <1>5
  <2>2. SameAt(g, old, x)
    BY <1>5, <2>1 DEF SameAt
  <2>. QED
    BY <2>2 DEF Undone, w, g
<1>6. ASSUME x # w.addr, NEW i \in 1..Len(ws), ws[i].addr = x
      PROVE  Undone(old, g, Tail(ws), x)
  <2>1. i # 1
    BY <1>1, <1>6
  <2>2. i - 1 \in 1..Len(Tail(ws)) /\ Tail(ws)[i - 1] = ws[i]
    BY <2>1, WritesAhead
  <2>. QED
    BY <1>6, <2>2 DEF Undone
<1>. QED
  BY <1>4, <1>5, <1>6 DEF Undone, w, g

\* A write of a block, or of a rollback, preserves the invariant.
LEMMA InvWrite ==
    ASSUME Inv, Write
    PROVE  Inv'
<1> DEFINE w == Head(writes)
           t == Tail(writes)
<1>1. /\ UNCHANGED <<state_root, snapshots, height, phase, failing, block, snapshot, before, outcome>>
      /\ writes # <<>> /\ accounts' = Written(accounts, w) /\ writes' = t
  BY DEF Write
<1>2. Types /\ Saved /\ Applying /\ Undoing /\ Gaining
  BY DEF Inv
<1>3. /\ phase \in {"apply", "undo"} /\ writes \in Seq(WriteType) /\ IsAccountMap(accounts)
  BY <1>1, <1>2 DEF Types
<1>4. /\ w = writes[1] /\ w \in WriteType /\ 1 \in 1..Len(writes)
      /\ t \in Seq(WriteType)
      /\ \A i \in 1..Len(t) : t[i] = writes[i + 1] /\ i + 1 \in 1..Len(writes)
  BY <1>1, <1>3, WritesAhead
<1>5. /\ IsAccountMap(accounts')
      /\ \A x : x # w.addr => SameAt(accounts', accounts, x)
  BY <1>1, <1>3, <1>4, WrittenElsewhere
<1>. HIDE DEF w, t
<1>6. Types'
  BY <1>1, <1>2, <1>3, <1>4, <1>5 DEF Types
<1>7. w.addr \in Touched(before.block)
  BY <1>2, <1>3, <1>4 DEF Applying, Undoing
<1>8. TheSnapshot' = TheSnapshot
  BY <1>1 DEF TheSnapshot
<1>9. Saved'
  <2>1. ASSUME NEW x, x \notin Touched(before.block)
        PROVE  SameAt(accounts', before.accounts, x)
    <3>1. x # w.addr
      BY <1>7, <2>1
    <3>2. SameAt(accounts', accounts, x)
      BY <1>5, <3>1
    <3>3. SameAt(accounts, before.accounts, x)
      BY <1>2, <1>3, <2>1 DEF Saved
    <3>. QED
      BY <3>2, <3>3 DEF SameAt
  <2>2. before' = before
    BY <1>1
  <2>. QED
    BY <1>1, <1>2, <1>3, <1>8, <2>1, <2>2 DEF Saved
<1>10. Applying'
  <2>. SUFFICES ASSUME phase = "apply" PROVE Applying'
    BY <1>1, <1>3 DEF Applying
  <2>1. InOrder(accounts, writes)
    BY <1>2 DEF Applying
  <2>2. /\ InOrder(accounts', t)
        /\ After(accounts', t) = After(accounts, writes)
        /\ IsDebit(accounts, w) \/ IsCredit(accounts, w)
        /\ Len(t) >= 1 => IsCredit(accounts', t[1])
    BY <1>1, <2>1, WriteInOrder DEF w, t
  <2>3. TotalBalance(accounts') \in Nat
    BY <1>1, <1>3, <1>4, <2>2, CreditWritten, DebitWritten
  <2>4. TotalBalance(accounts') <= TotalBalance(After(accounts', t))
    BY <1>5, <2>2, <2>3, CreditsLeft
  <2>5. /\ TotalBalance(before.accounts) \in Nat
        /\ TotalBalance(After(accounts', t)) \in Nat
        /\ TotalBalance(After(accounts', t)) <= TotalBalance(before.accounts)
    BY <1>2, <2>2 DEF Applying
  <2>6. TotalBalance(accounts') <= TotalBalance(before.accounts)
    BY <2>3, <2>4, <2>5
  <2>7. \A i \in 1..Len(t) : t[i].addr \in Touched(before.block)
    BY <1>2, <1>4 DEF Applying
  <2>8. before' = before /\ block' = block /\ writes' = t
    BY <1>1
  <2>9. \A i \in 1..Len(block) : /\ block[i].sender \in Touched(before.block)
                                 /\ block[i].receiver \in Touched(before.block)
    BY <1>2 DEF Applying
  <2>. QED
    BY <2>2, <2>3, <2>5, <2>6, <2>7, <2>8, <2>9 DEF Applying
<1>11. Undoing'
  <2>. SUFFICES ASSUME phase = "undo" PROVE Undoing'
    BY <1>1 DEF Undoing
  <2>1. w = Undo(before.accounts, w.addr)
    BY <1>2, <1>4 DEF Undoing
  <2>2. \A i \in 1..Len(t) : /\ t[i] = Undo(before.accounts, t[i].addr)
                             /\ t[i].addr \in Touched(before.block)
    BY <1>2, <1>4 DEF Undoing
  <2>3. ASSUME NEW x
        PROVE  Undone(before.accounts, accounts', t, x)
    <3>1. Undone(before.accounts, accounts, writes, x)
      BY <1>2 DEF Undoing
    <3>. QED
      BY <1>1, <1>3, <2>1, <3>1, UndoOne DEF w, t
  <2>4. before' = before /\ writes' = t
    BY <1>1
  <2>. QED
    BY <2>2, <2>3, <2>4 DEF Undoing
<1>12. Gaining'
  <2>1. CASE phase = "apply"
    <3>1. After(accounts', t) = After(accounts, writes)
      BY <1>1, <1>2, <2>1, WriteInOrder DEF Applying, w, t
    <3>. QED
      BY <1>1, <1>2, <2>1, <3>1 DEF Gaining
  <2>2. CASE phase = "undo"
    <3>1. w = Undo(before.accounts, w.addr)
      BY <1>2, <1>4, <2>2 DEF Undoing
    <3>2. IsAccountMap(before.accounts) /\ before.block \in Seq(Transaction)
      BY <1>2 DEF Types
    <3>3. PICK a \in Nat, b \in Nat : /\ a = Gained(accounts, before.accounts)
                                     /\ b = Gained(accounts', before.accounts)
                                     /\ b <= a
      BY <1>1, <1>3, <1>4, <3>1, <3>2, GainedUndo
    <3>4. PICK c \in Nat : c = MovedBy(before.block)
      <4>1. MovedBy(before.block) \in Nat
        BY <3>2, MovedByMore
      <4>. QED
        BY <4>1
    <3>5. a <= c
      BY <1>2, <2>2, <3>3, <3>4 DEF Gaining
    <3>6. Gained(accounts', before.accounts) <= MovedBy(before.block)
      BY <3>3, <3>4, <3>5
    <3>7. before' = before /\ phase' = "undo"
      BY <1>1, <2>2
    <3>. QED
      BY <3>6, <3>7 DEF Gaining
  <2>. QED
    BY <1>3, <2>1, <2>2
<1>. QED
  BY <1>1, <1>3, <1>6, <1>9, <1>10, <1>11, <1>12 DEF Inv, RollbackRestores

\* Beginning a rollback preserves the invariant.
LEMMA InvBeginRollback ==
    ASSUME Inv, BeginRollback
    PROVE  Inv'
<1> DEFINE old == before.accounts
           all == affected(before.block)
<1>1. /\ UNCHANGED <<accounts, state_root, snapshots, height, failing, block, snapshot, before, outcome>>
      /\ phase = "apply" /\ phase' = "undo" /\ writes = <<>> /\ writes' = snapshot.modified
  BY DEF BeginRollback
<1>2. Types /\ Saved /\ snapshot = TheSnapshot
  BY <1>1 DEF Inv, Saved
<1>3. /\ writes' \in Seq(WriteType) /\ Len(writes') = Len(all)
      /\ \A i \in 1..Len(writes') : writes'[i] = Undo(old, all[i])
  BY <1>1, <1>2, SnapshotUndoes DEF Types, TheSnapshot
<1>. HIDE DEF old, all
<1>4. ASSUME NEW i \in 1..Len(writes')
      PROVE  /\ writes'[i].addr = all[i] /\ writes'[i] = Undo(old, writes'[i].addr)
             /\ all[i] \in Touched(before.block)
  <2>1. writes'[i].addr = all[i]
    BY <1>3, UndoRestores
  <2>2. all[i] \in Touched(before.block)
    BY <1>3 DEF Touched, all
  <2>. QED
    BY <1>3, <2>1, <2>2
<1>5. Types'
  BY <1>1, <1>2, <1>3 DEF Types
<1>6. TheSnapshot' = TheSnapshot
  BY <1>1 DEF TheSnapshot
<1>7. Saved'
  BY <1>1, <1>2, <1>6 DEF Saved
<1>8. ASSUME NEW x
      PROVE  Undone(old, accounts, writes', x)
  <2>1. CASE x \notin Touched(before.block)
    <3>1. SameAt(accounts, old, x)
      BY <1>1, <1>2, <2>1 DEF Saved, old
    <3>. QED
      BY <3>1 DEF Undone
  <2>2. CASE x \in Touched(before.block)
    <3>1. PICK i \in 1..Len(all) : x = all[i]
      BY <2>2 DEF Touched, all
    <3>2. i \in 1..Len(writes') /\ writes'[i].addr = x
      BY <1>3, <1>4, <3>1
    <3>. QED
      BY <3>2 DEF Undone
  <2>. QED
    BY <2>1, <2>2
<1>9. Undoing'
  <2>1. before' = before /\ accounts' = accounts
    BY <1>1
  <2>. QED
    BY <1>4, <1>8, <2>1 DEF Undoing, old
<1>10. Gaining'
  <2>1. After(accounts, <<>>) = accounts
    BY DEF After
  <2>2. PICK n : n = Len(before.block) - Len(block)
    OBVIOUS
  <2>3. n \in Nat /\ Gained(accounts, before.accounts) <= MovedUpTo(before.block, n)
    BY <1>1, <2>1, <2>2 DEF Inv, Gaining
  <2>4. before.block \in Seq(Transaction) /\ Len(before.block) \in Nat /\ Len(block) \in Nat
    BY <1>2 DEF Types
  <2>5. n <= Len(before.block)
    BY <2>2, <2>3, <2>4
  <2>6. PICK a \in Nat, b \in Nat, c \in Nat :
          /\ a = Gained(accounts, before.accounts)
          /\ b = MovedUpTo(before.block, n) /\ c = MovedBy(before.block) /\ b <= c
    <3>1. IsAccountMap(accounts) /\ IsAccountMap(before.accounts)
      BY <1>2 DEF Types
    <3>2. Gained(accounts, before.accounts) \in Nat
      <4>1. PICK acc : acc = get_or_create_account(accounts, Treasury)
        OBVIOUS
      <4>2. acc \in Account /\ Coins(acc) \in Nat
        BY <3>1, <4>1, LoadedAccount, CoinsOf
      <4>3. Coins(acc) <= Coins(get_or_create_account(accounts, Treasury)) + 0
        BY <4>1, <4>2
      <4>. QED
        BY <3>1, <4>2, <4>3, TreasuryAssumption, GainedSave
    <3>3. /\ MovedUpTo(before.block, n) \in Nat /\ MovedBy(before.block) \in Nat
          /\ MovedUpTo(before.block, n) <= MovedBy(before.block)
      BY <2>3, <2>4, <2>5, MovedByMore
    <3>. QED
      BY <3>2, <3>3
  <2>7. Gained(accounts, before.accounts) <= MovedBy(before.block)
    BY <2>3, <2>6
  <2>. QED
    BY <1>1, <2>7 DEF Gaining
<1>. QED
  BY <1>1, <1>5, <1>7, <1>9, <1>10 DEF Inv, Applying, RollbackRestores

\* Ending a rollback preserves the invariant: all accounts are back.
LEMMA InvFinishRollback ==
    ASSUME Inv, FinishRollback
    PROVE  Inv'
<1>1. /\ UNCHANGED <<accounts, snapshots, height, before>>
      /\ phase = "undo" /\ phase' = "idle" /\ writes = <<>> /\ writes' = <<>> /\ failing' = FALSE
      /\ block' = <<>> /\ state_root' = snapshot.state_root /\ outcome' = "rolled back"
  BY DEF FinishRollback, Forget
<1>2. Types /\ Saved /\ Undoing
  BY DEF Inv
<1>3. Types'
  <2>1. <<>> \in Seq(Transaction) /\ <<>> \in Seq(WriteType)
    OBVIOUS
  <2>. QED
    BY <1>1, <1>2, <2>1 DEF Types
<1>4. snapshot.state_root = before.state_root
  <2>1. \A f, root, h, addrs : take_snapshot(f, root, h, addrs).state_root = root
    BY DEF take_snapshot
  <2>2. snapshot = TheSnapshot
    BY <1>1, <1>2 DEF Saved
  <2>. QED
    BY <2>1, <2>2 DEF TheSnapshot
<1>5. ASSUME NEW x
      PROVE  SameAt(accounts, before.accounts, x)
  <2>1. Undone(before.accounts, accounts, <<>>, x)
    BY <1>1, <1>2 DEF Undoing
  <2>2. 1..Len(<<>>) = {}
    OBVIOUS
  <2>. QED
    BY <2>1, <2>2 DEF Undone
<1>6. accounts = before.accounts
  BY <1>2, <1>5, SameEverywhere DEF Types
<1>. QED
  BY <1>1, <1>3, <1>4, <1>6 DEF Inv, Saved, Applying, Undoing, Gaining, RollbackRestores

\* Ending a block and a crash preserve the invariant.
LEMMA InvStops ==
    ASSUME Inv, (\E isEpoch \in BOOLEAN : FinishBlock(isEpoch)) \/ Crash
    PROVE  Inv'
<1>1. /\ UNCHANGED <<accounts, snapshots, height, before>>
      /\ phase # "idle" /\ phase' = "idle" /\ writes' = <<>> /\ failing' = FALSE /\ block' = <<>>
      /\ outcome' = "applied" \/ (outcome' = "crashed" /\ state_root' = state_root)
  BY DEF FinishBlock, Crash, Forget
<1>2. Types /\ Saved
  BY DEF Inv
<1>3. Types'
  <2>1. <<>> \in Seq(Transaction) /\ <<>> \in Seq(WriteType)
    OBVIOUS
  <2>. QED
    BY <1>1, <1>2, <2>1 DEF Types
<1>4. TheSnapshot' = TheSnapshot
  BY <1>1 DEF TheSnapshot
<1>5. Saved'
  BY <1>1, <1>2, <1>4 DEF Saved
<1>. QED
  BY <1>1, <1>3, <1>5 DEF Inv, Applying, Undoing, Gaining, RollbackRestores

\* Block processing keeps the invariant, whatever blocks arrive and wherever
\* the process stops.
THEOREM BlockApplyInvariant == Spec => []Inv
<1>1. Init => Inv
  BY InvInit
<1>2. Inv /\ [Next]_vars => Inv'
  <2>. SUFFICES ASSUME Inv, [Next]_vars PROVE Inv'
    OBVIOUS
  <2>1. ASSUME NEW txs \in Blocks, BeginBlock(txs) PROVE Inv'
    BY <2>1, InvBeginBlock
  <2>8. CASE SaveCount
    BY <2>8, InvSaveCount
  <2>2. CASE BeginTransaction
    BY <2>2, InvBeginTransaction
  <2>3. CASE Write
    BY <2>3, InvWrite
  <2>4. CASE BeginRollback
    BY <2>4, InvBeginRollback
  <2>5. CASE FinishRollback
    BY <2>5, InvFinishRollback
  <2>6. CASE (\E isEpoch \in BOOLEAN : FinishBlock(isEpoch)) \/ Crash
    BY <2>6, InvStops
  <2>7. CASE UNCHANGED vars
    <3>1. UNCHANGED <<accounts, state_root, snapshots, height, phase, writes, failing, block,
                      snapshot, before, outcome>>
      BY <2>7 DEF vars, memory
    <3>2. TheSnapshot' = TheSnapshot
      BY <3>1 DEF TheSnapshot
    <3>3. Types' /\ Saved' /\ Applying' /\ Undoing' /\ Gaining' /\ RollbackRestores'
      BY <3>1, <3>2 DEF Inv, Types, Saved, Applying, Undoing, Gaining, RollbackRestores
    <3>. QED
      BY <3>3 DEF Inv
  <2>. QED
    BY <2>1, <2>2, <2>3, <2>4, <2>5, <2>6, <2>7, <2>8 DEF Next
<1>. QED
  BY <1>1, <1>2, PTL DEF Spec

\* A block that failed leaves no trace: rollback_to_snapshot has restored every
\* account, created ones included, and the state root.
THEOREM BlockApplyRollbackRestores == Spec => []RollbackRestores
<1>1. Inv => RollbackRestores
  BY DEF Inv
<1>. QED
  BY <1>1, BlockApplyInvariant, PTL

\* Between any two writes the trees are well typed.  While a block is being
\* applied they never hold more coins than before it, and while it is rolled
\* back at most the coins its transactions credit on top of those.
THEOREM BlockApplyNeverAhead == Spec => []NeverAhead
<1>1. Inv => NeverAhead
  <2>. SUFFICES ASSUME Inv PROVE NeverAhead
    OBVIOUS
  <2>1. Types /\ Applying
    BY DEF Inv
  <2>2. ASSUME NEW i \in DOMAIN writes
        PROVE  writes[i].addr \in Address /\ writes[i].acc \subseteq Account
    <3>1. writes[i] \in WriteType
      BY <2>1 DEF Types
    <3>. QED
      BY <3>1 DEF WriteType
  <2>3. TypeOK
    BY <2>1, <2>2 DEF Types, TypeOK
  <2>4. ASSUME phase = "undo"
        PROVE  TotalBalance(accounts) <= TotalBalance(before.accounts) + MovedBy(before.block)
    <3>1. IsAccountMap(accounts) /\ IsAccountMap(before.accounts) /\ before.block \in Seq(Transaction)
      BY <2>1 DEF Types
    <3>2. TotalBalance(accounts) \in Nat /\ TotalBalance(before.accounts) \in Nat
      BY <3>1, FreshAccount, TreasuryAssumption, SavedAccount
    <3>3. TotalBalance(accounts) <= TotalBalance(before.accounts) + Gained(accounts, before.accounts)
      BY <3>1, AheadByGains
    <3>4. Gained(accounts, before.accounts) <= MovedBy(before.block)
      BY <2>4 DEF Inv, Gaining
    <3>5. MovedBy(before.block) \in Nat
      BY <3>1, MovedByMore
    <3>6. Gained(accounts, before.accounts) \in Nat
      <4>1. PICK acc : acc = get_or_create_account(accounts, Treasury)
        OBVIOUS
      <4>2. acc \in Account /\ Coins(acc) \in Nat
        BY <3>1, <4>1, LoadedAccount, CoinsOf
      <4>3. Coins(acc) <= Coins(get_or_create_account(accounts, Treasury)) + 0
        BY <4>1, <4>2
      <4>. QED
        BY <3>1, <4>2, <4>3, TreasuryAssumption, GainedSave
    <3>. QED
      BY <3>2, <3>3, <3>4, <3>5, <3>6
  <2>. QED
    BY <2>1, <2>3, <2>4 DEF Applying, NeverAhead
<1>. QED
  BY <1>1, BlockApplyInvariant, PTL

\* A debit and the nonce it uses up are one write, wherever the process is in
\* the block.
THEOREM BlockApplyDebitsUseNonce == Spec => DebitsUseNonce
<1> DEFINE A == phase = "apply" =>
                  \A a \in DOMAIN accounts :
                     accounts'[a].balance < accounts[a].balance =>
                         accounts'[a].nonce = accounts[a].nonce + 1
<1>1. Inv /\ [Next]_vars => [A]_vars
  <2>. SUFFICES ASSUME Inv, Next, phase = "apply", NEW a \in DOMAIN accounts,
                       accounts'[a].balance < accounts[a].balance
                PROVE  accounts'[a].nonce = accounts[a].nonce + 1
    OBVIOUS
  <2>1. IsAccountMap(accounts) /\ InOrder(accounts, writes) /\ writes \in Seq(WriteType)
    BY DEF Inv, Types, Applying
  <2>2. accounts[a] \in Account
    BY <2>1 DEF IsAccountMap
  <2>3. accounts[a].balance \in Nat
    BY <2>2, AccountFields
  <2>4. CASE Write
    <3> DEFINE w == Head(writes)
    <3>1. writes # <<>> /\ accounts' = Written(accounts, w)
      BY <2>4 DEF Write
    <3>2. w \in WriteType /\ (IsDebit(accounts, w) \/ IsCredit(accounts, w))
      BY <2>1, <3>1, WriteInOrder
    <3>. HIDE DEF w
    <3>3. PICK acc \in Account :
            /\ w = Put(w.addr, acc)
            /\ LET old == get_or_create_account(accounts, w.addr) IN
               acc.nonce = old.nonce + 1 \/ acc.balance >= old.balance
      BY <3>2 DEF IsDebit, IsCredit
    <3>4. accounts' = save_account(accounts, w.addr, acc)
      BY <3>1, <3>3, WrittenPut
    <3>5. CASE a # w.addr
      <4>1. accounts'[a] = accounts[a]
        BY <3>4, <3>5 DEF save_account
      <4>. QED
        BY <2>3, <4>1
    <3>6. CASE a = w.addr
      <4>1. accounts'[a] = acc
        BY <3>4, <3>6 DEF save_account
      <4>2. get_or_create_account(accounts, w.addr) = accounts[a]
        BY <3>6 DEF get_or_create_account
      <4>3. acc.balance \in Nat
        BY AccountFields
      <4>4. ~(acc.balance >= accounts[a].balance)
        BY <2>3, <4>1, <4>3
      <4>. QED
        BY <3>3, <4>1, <4>2, <4>4
    <3>. QED
      BY <3>5, <3>6
  <2>5. CASE ~Write
    <3>1. accounts' = accounts
      BY <2>5 DEF Next, BeginBlock, SaveCount, BeginTransaction, BeginRollback, FinishRollback, FinishBlock, Crash
    <3>. QED
      BY <2>3, <3>1
  <2>. QED
    BY <2>4, <2>5
<1>. QED
  BY <1>1, BlockApplyInvariant, PTL DEF Spec, DebitsUseNonce

-----------------------------------------------------------------------------
(***************************************************************************)
(* Recovery: what folding the stored snapshot over a half-written tree     *)
(* gives.                                                                  *)
(***************************************************************************)
\* f with the entries for D as they are in old.
RestoredAt(f, old, D) ==
    [x \in (DOMAIN f \ D) \cup (DOMAIN old \cap D) |-> IF x \in D THEN old[x] ELSE f[x]]

\* Undoing one more address.
LEMMA RestoreOne ==
    ASSUME NEW f, NEW old, NEW D, NEW a
    PROVE  Written(RestoredAt(f, old, D), Undo(old, a)) = RestoredAt(f, old, D \cup {a})
<1> DEFINE g == RestoredAt(f, old, D)
           h == RestoredAt(f, old, D \cup {a})
<1>1. DOMAIN g = (DOMAIN f \ D) \cup (DOMAIN old \cap D)
  BY DEF RestoredAt
<1>2. CASE a \in DOMAIN old
  <2>1. Written(g, Undo(old, a)) = save_account(g, a, old[a])
    BY <1>2, WrittenPut DEF Undo
  <2>2. save_account(g, a, old[a]) = [x \in DOMAIN g \cup {a} |-> IF x = a THEN old[a] ELSE g[x]]
    BY DEF save_account
  <2>3. DOMAIN h = DOMAIN g \cup {a}
    BY <1>2 DEF RestoredAt
  <2>4. ASSUME NEW x \in DOMAIN h
        PROVE  h[x] = IF x = a THEN old[a] ELSE g[x]
    <3>1. CASE x = a
      BY <3>1 DEF RestoredAt
    <3>2. CASE x # a
      BY <2>4, <3>2 DEF RestoredAt
    <3>. QED
      BY <3>1, <3>2
  <2>5. h = [x \in DOMAIN h |-> h[x]]
    BY DEF RestoredAt
  <2>. HIDE DEF g, h
  <2>6. h = [x \in DOMAIN g \cup {a} |-> IF x = a THEN old[a] ELSE g[x]]
    BY <2>3, <2>4, <2>5
  <2>. QED
    BY <2>1, <2>2, <2>6 DEF g, h
<1>3. CASE a \notin DOMAIN old
  <2>1. Written(g, Undo(old, a)) = [x \in DOMAIN g \ {a} |-> g[x]]
    BY <1>3 DEF Undo, Delete, Written, Restrict
  <2>2. DOMAIN h = DOMAIN g \ {a}
    BY <1>3 DEF RestoredAt
  <2>3. \A x \in DOMAIN h : h[x] = g[x]
    BY <1>3 DEF RestoredAt
  <2>4. h = [x \in DOMAIN h |-> h[x]]
    BY DEF RestoredAt
  <2>. HIDE DEF g, h
  <2>5. h = [x \in DOMAIN g \ {a} |-> g[x]]
    BY <2>2, <2>3, <2>4
  <2>. QED
    BY <2>1, <2>5 DEF g, h
<1>. QED
  BY <1>2, <1>3

\* mod lists the undos of k addresses, D in all.
UndoList(mod, old, all, k, D) ==
    /\ k \in Nat
    /\ DOMAIN mod = 1..k
    /\ \A i \in 1..k : mod[i] = Undo(old, all[i])
    /\ D = {all[i] : i \in 1..k}

\* Folding a list of undos restores the addresses in it.  The fold's own table,
\* over every subset of the indices, is known in closed form, and the fold is
\* the entry for all indices: no smallest i has another value for the first i.
LEMMA RollbackFold ==
    ASSUME NEW f, IsAccountMap(f), NEW old, NEW mod, NEW all, NEW k, NEW D,
           UndoList(mod, old, all, k, D)
    PROVE  rolled_back(f, mod) = RestoredAt(f, old, D)
<1> DEFINE S == 1..k
           At(s) == {all[i] : i \in s}
           Table(h) == h = [s \in SUBSET S |-> IF s = {} THEN f
                                               ELSE Written(h[s \ {Max(s)}], mod[Max(s)])]
           R == [s \in SUBSET S |-> RestoredAt(f, old, At(s))]
           H == CHOOSE h : Table(h)
<1>. k \in Nat /\ DOMAIN mod = 1..k /\ \A i \in 1..k : mod[i] = Undo(old, all[i])
  BY DEF UndoList
<1>1. rolled_back(f, mod) = H[S]
  <2>1. DOMAIN mod = S
    OBVIOUS
  <2>. QED
    BY <2>1 DEF rolled_back, FoldLeft, MapThenFoldSet
<1>2. RestoredAt(f, old, {}) = f
  BY DEF RestoredAt, IsAccountMap
<1>3. ASSUME NEW s \in SUBSET S, s # {}
      PROVE  R[s] = Written(R[s \ {Max(s)}], mod[Max(s)])
  <2>1. Max(s) \in s
    BY <1>3, LargestIndex
  <2>2. PICK m : m = Max(s)
    OBVIOUS
  <2>3. m \in s /\ mod[m] = Undo(old, all[m]) /\ s \ {m} \in SUBSET S
    BY <2>1, <2>2
  <2>4. At(s \ {m}) \cup {all[m]} = At(s)
    BY <2>3
  <2>5. R[s] = RestoredAt(f, old, At(s)) /\ R[s \ {m}] = RestoredAt(f, old, At(s \ {m}))
    BY <2>3
  <2>6. PICK E, a : E = At(s \ {m}) /\ a = all[m]
    OBVIOUS
  <2>7. Written(RestoredAt(f, old, E), Undo(old, a)) = RestoredAt(f, old, E \cup {a})
    BY RestoreOne
  <2>. HIDE DEF At, R
  <2>. QED
    BY <2>2, <2>3, <2>4, <2>5, <2>6, <2>7
<1>10. R[{}] = f
  <2>1. R[{}] = RestoredAt(f, old, At({})) /\ At({}) = {}
    OBVIOUS
  <2>. HIDE DEF At, R
  <2>. QED
    BY <1>2, <2>1
<1>4. Table(R)
  <2>2. \A s \in SUBSET S : R[s] = IF s = {} THEN f ELSE Written(R[s \ {Max(s)}], mod[Max(s)])
    BY <1>3, <1>10
  <2>3. R = [s \in SUBSET S |-> R[s]]
    OBVIOUS
  <2>. HIDE DEF R, S
  <2>. QED
    BY <2>2, <2>3
<1>5. Table(H)
  <2>. HIDE DEF Table, R
  <2>. QED
    BY <1>4
<1>6. /\ H[{}] = f
      /\ \A s \in SUBSET S : s # {} => H[s] = Written(H[s \ {Max(s)}], mod[Max(s)])
  <2>. HIDE DEF H, S
  <2>. QED
    BY <1>5
<1>7. ASSUME NEW i \in 0..k
      PROVE  /\ 1..i \in SUBSET S
             /\ i # 0 => /\ H[1..i] = Written(H[1..(i - 1)], mod[i])
                         /\ R[1..i] = Written(R[1..(i - 1)], mod[i])
  <2>1. 1..i \in SUBSET S /\ i \in Nat
    OBVIOUS
  <2>. HIDE DEF H, R, S
  <2>2. ASSUME i # 0
        PROVE  /\ H[1..i] = Written(H[1..(i - 1)], mod[i])
               /\ R[1..i] = Written(R[1..(i - 1)], mod[i])
    <3>0. i \in 1..i
      BY <2>1, <2>2
    <3>1. Max(1..i) = i /\ (1..i) \ {i} = 1..(i - 1)
      BY <2>1, <2>2, LastIndex
    <3>. QED
      BY <1>3, <1>6, <2>1, <3>0, <3>1
  <2>. QED
    BY <2>1, <2>2
<1> DEFINE T == {i \in 0..k : H[1..i] # R[1..i]}
<1>8. T = {}
  <2>1. ASSUME T # {}
        PROVE  FALSE
    <3>1. PICK i \in T : \A j \in T : i <= j
      <4>1. T \subseteq Nat
        OBVIOUS
      <4>. HIDE DEF T
      <4>. QED
        BY <2>1, <4>1, LeastNat
    <3>2. i \in 0..k /\ H[1..i] # R[1..i]
      OBVIOUS
    <3>3. CASE i = 0
      <4>1. 1..0 = {}
        OBVIOUS
      <4>. QED
        BY <1>6, <1>10, <3>2, <3>3, <4>1
    <3>4. CASE i # 0
      <4>1. i - 1 \in 0..k /\ ~(i <= i - 1)
        BY <3>2, <3>4
      <4>2. i - 1 \notin T
        <5>. HIDE DEF T
        <5>. QED
          BY <3>1, <4>1
      <4>. HIDE DEF H, R
      <4>3. H[1..(i - 1)] = R[1..(i - 1)]
        BY <4>1, <4>2
      <4>. QED
        BY <1>7, <3>2, <3>4, <4>3
    <3>. QED
      BY <3>3, <3>4
  <2>. QED
    BY <2>1
<1>9. H[S] = R[S]
  <2>. HIDE DEF H, R
  <2>1. k \in 0..k
    OBVIOUS
  <2>. QED
    BY <1>8, <2>1
<1>11. D = At(S)
  BY DEF UndoList
<1>. QED
  BY <1>1, <1>9, <1>11

\* Wherever the process stopped, the stored snapshot rolled back gives the
\* accounts and the root of before the block.
THEOREM BlockApplyCrashRecoverable == Spec => []CrashRecoverable
<1>1. Inv => CrashRecoverable
  <2>. SUFFICES ASSUME Inv, outcome = "crashed", phase = "idle" PROVE CrashRecoverable
    BY DEF CrashRecoverable
  <2> DEFINE stored == snapshots.stack[get_snapshot_count(snapshots)]
             old == before.accounts
             all == affected(before.block)
             k == Len(all)
  <2>1. Types /\ Saved
    BY DEF Inv
  <2>2. get_snapshot_count(snapshots) = 0
    BY <2>1 DEF Types, get_snapshot_count
  <2>3. stored = TheSnapshot
    BY <2>1, <2>2 DEF Saved
  <2>4. stored.state_root = before.state_root
    <3>1. \A f, root, h, addrs : take_snapshot(f, root, h, addrs).state_root = root
      BY DEF take_snapshot
    <3>. QED
      BY <2>3, <3>1 DEF TheSnapshot
  <2>5. PICK mod : mod = stored.modified
    OBVIOUS
  <2>14. mod \in Seq(WriteType) /\ Len(mod) = k /\ \A i \in 1..Len(mod) : mod[i] = Undo(old, all[i])
    <3>1. mod = take_snapshot(before.accounts, before.state_root, height, affected(before.block)).modified
      BY <2>3, <2>5 DEF TheSnapshot
    <3>2. IsAccountMap(before.accounts) /\ before.block \in Seq(Transaction)
      BY <2>1 DEF Types
    <3>. QED
      BY <3>1, <3>2, SnapshotUndoes
  <2>6. all \in Seq(Address)
    BY <2>1, AffectedCovers DEF Types
  <2>. HIDE DEF stored, all, old
  <2>7. k \in Nat
    BY <2>6
  <2>8. mod = [i \in 1..k |-> Undo(old, all[i])]
    BY <2>7, <2>14
  <2>9. IsAccountMap(accounts) /\ IsAccountMap(old)
    BY <2>1 DEF Types, old
  <2>10. rolled_back(accounts, mod) = RestoredAt(accounts, old, {all[i] : i \in 1..k})
    <3>1. PICK D : D = {all[i] : i \in 1..k}
      OBVIOUS
    <3>2. UndoList(mod, old, all, k, D)
      BY <2>7, <2>8, <3>1 DEF UndoList
    <3>3. rolled_back(accounts, mod) = RestoredAt(accounts, old, D)
      BY <2>9, <3>2, RollbackFold
    <3>. QED
      BY <3>1, <3>3
  <2>11. {all[i] : i \in 1..k} = Touched(before.block)
    BY DEF Touched, all
  <2>12. \A x : x \notin Touched(before.block) => SameAt(accounts, old, x)
    BY <2>1 DEF Saved, old
  <2>13. RestoredAt(accounts, old, Touched(before.block)) = old
    BY <2>9, <2>12 DEF RestoredAt, SameAt, IsAccountMap
  <2>. QED
    BY <2>4, <2>5, <2>10, <2>11, <2>13 DEF CrashRecoverable, stored, old
<1>. QED
  BY <1>1, BlockApplyInvariant, PTL

-----------------------------------------------------------------------------
(***************************************************************************)
(* Refinement of AtomicBlocks.  Its operators are an instance of their own *)
(* and are shown to be the same first.                                     *)
(***************************************************************************)
\* The two instances of the state transition function agree.
LEMMA SameTransition ==
    ASSUME NEW f, NEW tx
    PROVE  Atomic!apply_transaction(f, tx) = apply_transaction(f, tx)
<1>1. \A x, y, z : Atomic!save_account(x, y, z) = save_account(x, y, z)
  BY DEF Atomic!save_account, save_account
<1>2. \A x, y : Atomic!get_or_create_account(x, y) = get_or_create_account(x, y)
  BY DEF Atomic!get_or_create_account, get_or_create_account, Atomic!NewAccount, NewAccount
<1>3. \A x : Atomic!Ok(x) = Ok(x) /\ Atomic!Err(x) = Err(x)
  BY DEF Atomic!Ok, Ok, Atomic!Err, Err
<1>4. Atomic!U64 = U64
  BY DEF Atomic!U64, U64
<1>5. \A x, n : Atomic!Credited(x, n) = Credited(x, n)
  BY <1>4 DEF Atomic!Credited, Credited
<1>6. \A x, y, n : Atomic!credit_account(x, y, n) = credit_account(x, y, n)
  BY <1>1, <1>2, <1>3, <1>4, <1>5 DEF Atomic!credit_account, credit_account
<1>7. \A x, n : Atomic!apply_fee_split(x, n) = apply_fee_split(x, n)
  BY <1>3, <1>6 DEF Atomic!apply_fee_split, apply_fee_split
<1>8. \A x, b, s, n : Atomic!Revised(x, b, s, n) = Revised(x, b, s, n)
  BY DEF Atomic!Revised, Revised
<1>9. \A x : Atomic!update_validator_tier(x) = update_validator_tier(x)
  BY DEF Atomic!update_validator_tier, update_validator_tier,
         Atomic!from_staked_balance, from_staked_balance
<1>10. \A x : /\ Atomic!sender_after_transfer(x, tx) = sender_after_transfer(x, tx)
              /\ Atomic!sender_after_stake_lock(x, tx) = sender_after_stake_lock(x, tx)
              /\ Atomic!sender_after_stake_unlock(x, tx) = sender_after_stake_unlock(x, tx)
              /\ Atomic!sender_after_fee_only(x, tx) = sender_after_fee_only(x, tx)
  BY <1>8, <1>9
  DEF Atomic!sender_after_transfer, Atomic!sender_after_stake_lock,
      Atomic!sender_after_stake_unlock, Atomic!sender_after_fee_only,
      sender_after_transfer, sender_after_stake_lock,
      sender_after_stake_unlock, sender_after_fee_only
<1>11. Atomic!apply_transfer(f, tx) = apply_transfer(f, tx)
  BY <1>1, <1>2, <1>3, <1>4, <1>6, <1>7, <1>10 DEF Atomic!apply_transfer, apply_transfer
<1>12. Atomic!apply_stake_lock(f, tx) = apply_stake_lock(f, tx)
  BY <1>1, <1>2, <1>3, <1>4, <1>7, <1>10 DEF Atomic!apply_stake_lock, apply_stake_lock
<1>13. Atomic!apply_stake_unlock(f, tx) = apply_stake_unlock(f, tx)
  BY <1>1, <1>2, <1>3, <1>4, <1>7, <1>10 DEF Atomic!apply_stake_unlock, apply_stake_unlock
<1>14. Atomic!apply_fee_only(f, tx) = apply_fee_only(f, tx)
  BY <1>1, <1>2, <1>3, <1>7, <1>10 DEF Atomic!apply_fee_only, apply_fee_only
<1>. QED
  BY <1>11, <1>12, <1>13, <1>14 DEF Atomic!apply_transaction, apply_transaction

\* The abstract specification applies a block alike.
LEMMA SameBlock ==
    ASSUME NEW f, NEW k \in Nat, NEW txs, DOMAIN txs = 1..k
    PROVE  Atomic!ApplyAll(f, txs) = ApplyAll(f, txs)
<1>1. \A r, tx : Atomic!ApplyNext(r, tx) = ApplyNext(r, tx)
  BY SameTransition DEF Atomic!ApplyNext, ApplyNext
<1>2. Atomic!Ok(f) = Ok(f)
  BY DEF Atomic!Ok, Ok
<1>3. \A s : Atomic!Max(s) = Max(s)
  BY DEF Atomic!Max, Max
<1>4. Atomic!ApplyAll(f, txs)
        = (CHOOSE h : h = [s \in SUBSET (1..k) |->
                             IF s = {} THEN Atomic!Ok(f)
                             ELSE Atomic!ApplyNext(h[s \ {Atomic!Max(s)}], txs[Atomic!Max(s)])])[1..k]
  BY DEF Atomic!ApplyAll, Atomic!FoldLeft, Atomic!MapThenFoldSet
<1>5. Atomic!ApplyAll(f, txs) = (CHOOSE h : FoldTable(h, f, txs, k))[1..k]
  BY <1>1, <1>2, <1>3, <1>4 DEF FoldTable
<1>. QED
  BY <1>5, ApplyAllByDefinition

\* The first n transactions of the block are begun, and what they return is where
\* the writes ahead lead.
Begun(n, g) ==
    /\ n \in Nat
    /\ n + Len(block) = Len(before.block)
    /\ \A i \in 1..Len(block) : block[i] = before.block[i + n]
    /\ Partial(g, before.accounts, before.block, n)
    /\ g[n] = [ok |-> ~failing, accts |-> After(accounts, writes)]

\* A block is applied transaction by transaction, and rolled back only when one
\* of them fails.
Progress ==
    /\ phase \in {"idle", "snapshot"} => failing = FALSE
    /\ phase # "idle" => before.block \in Blocks
    /\ phase \in {"snapshot", "apply"} => \E n, g : Begun(n, g)
    /\ phase = "undo" => ~ApplyAll(before.accounts, before.block).ok

\* Once a transaction has failed the block has.
LEMMA FailureStays ==
    ASSUME NEW f, NEW k \in Nat, NEW txs, DOMAIN txs = 1..k, NEW n \in Nat, n <= k,
           NEW g, Partial(g, f, txs, n), ~g[n].ok
    PROVE  ~ApplyAll(f, txs).ok
<1>1. PICK h : h = [i \in 0..k |-> IF i <= n THEN g[i] ELSE g[n]]
  OBVIOUS
<1>2. h[0] = Ok(f)
  BY <1>1 DEF Partial
<1>3. ASSUME NEW i \in 1..k
      PROVE  h[i] = ApplyNext(h[i - 1], txs[i])
  <2>1. CASE i <= n
    <3>1. i \in 1..n /\ i \in 0..k /\ i - 1 \in 0..k /\ i - 1 <= n
      BY <2>1
    <3>. QED
      BY <1>1, <2>1, <3>1 DEF Partial
  <2>2. CASE ~(i <= n)
    <3>1. i \in 0..k /\ i - 1 \in 0..k /\ (i - 1 <= n => i - 1 = n)
      BY <2>2
    <3>2. h[i] = g[n] /\ h[i - 1] = g[n]
      BY <1>1, <2>2, <3>1
    <3>. QED
      BY <3>2 DEF ApplyNext
  <2>. QED
    BY <2>1, <2>2
<1>4. Partial(h, f, txs, k)
  BY <1>2, <1>3 DEF Partial
<1>5. k \in 0..k /\ (k <= n => k = n)
  OBVIOUS
<1>6. h[k] = g[n]
  BY <1>1, <1>5
<1>7. ApplyAll(f, txs) = h[k]
  BY <1>4, ApplyAllIsPartial
<1>. QED
  BY <1>6, <1>7

\* A block that has just begun.
LEMMA ProgressBeginBlock ==
    ASSUME Inv, Progress, NEW txs \in Blocks, BeginBlock(txs)
    PROVE  Progress'
<1>1. /\ accounts' = accounts /\ writes' = <<>> /\ failing' = FALSE /\ phase' = "snapshot" /\ block' = txs
      /\ before'.accounts = accounts /\ before'.block = txs
  BY DEF BeginBlock, Progress, Inv, Types
<1>2. txs \in Seq(Transaction)
  BY BlocksAssumption
<1>3. PICK g : g = [i \in {0} |-> Ok(accounts)]
  OBVIOUS
<1>4. g[0] = Ok(accounts)
  BY <1>3
<1>5. After(accounts, <<>>) = accounts
  BY DEF After
<1>6. g[0] = [ok |-> ~failing', accts |-> After(accounts', writes')]
  BY <1>1, <1>4, <1>5 DEF Ok
<1>7. Partial(g, accounts, txs, 0)
  BY <1>4 DEF Partial
<1>8. 0 + Len(txs) = Len(txs) /\ \A i \in 1..Len(txs) : txs[i] = txs[i + 0]
  BY <1>2
<1>9. Begun(0, g)'
  BY <1>1, <1>6, <1>7, <1>8 DEF Begun
<1>. QED
  BY <1>1, <1>9 DEF Progress

\* A transaction that has just begun.
LEMMA ProgressBeginTransaction ==
    ASSUME Inv, Progress, BeginTransaction
    PROVE  Progress'
<1> DEFINE tx == Head(block)
           r == apply_transaction(accounts, tx)
<1>1. /\ accounts' = accounts /\ before' = before /\ phase' = phase
      /\ phase = "apply" /\ writes = <<>> /\ ~failing /\ block # <<>>
      /\ writes' = tx_writes(accounts, tx) /\ block' = Tail(block) /\ failing' = ~r.ok
  BY DEF BeginTransaction
<1>2. IsAccountMap(accounts) /\ block \in Seq(Transaction)
  BY DEF Inv, Types
<1>3. /\ tx = block[1] /\ tx \in Transaction /\ Len(block) \in Nat /\ Len(block) >= 1
      /\ Len(Tail(block)) = Len(block) - 1
      /\ \A i \in 1..Len(Tail(block)) : Tail(block)[i] = block[i + 1]
  BY <1>1, <1>2
<1>4. PICK n, g : Begun(n, g)
  BY <1>1 DEF Progress
<1>5. n \in Nat /\ block[1] = before.block[1 + n] /\ n + Len(block) = Len(before.block)
  BY <1>3, <1>4 DEF Begun
<1>6. After(accounts, <<>>) = accounts
  BY DEF After
<1>7. g[n].ok = TRUE /\ g[n].accts = accounts
  <2>1. g[n] = [ok |-> ~failing, accts |-> After(accounts, writes)]
    BY <1>4 DEF Begun
  <2>2. (~failing) = TRUE /\ writes = <<>>
    BY <1>1
  <2>3. g[n].ok = (~failing) /\ g[n].accts = After(accounts, writes)
    BY <2>1
  <2>. QED
    BY <1>6, <2>2, <2>3, Zenon
<1>8. ApplyNext(g[n], tx) = r
  <2>1. tx.type # "Coinbase"
    BY <1>2, <1>3 DEF Transaction, TransactionType
  <2>. QED
    BY <1>7, <2>1 DEF ApplyNext
<1>9. r.ok \in BOOLEAN /\ r = [ok |-> r.ok, accts |-> r.accts]
  BY TransactionReturns
<1>10. After(accounts, writes') = r.accts
  BY <1>1, <1>2, <1>3, TransactionWrites
<1>. HIDE DEF r, tx
<1>11. r = [ok |-> ~failing', accts |-> After(accounts', writes')]
  BY <1>1, <1>9, <1>10
<1>12. PICK h : h = [i \in 0..(n + 1) |-> IF i = n + 1 THEN r ELSE g[i]]
  OBVIOUS
<1>13. h[n + 1] = r /\ \A i \in 0..n : h[i] = g[i]
  BY <1>5, <1>12
<1>14. Partial(h, before.accounts, before.block, n + 1)
  <2>1. h[0] = Ok(before.accounts)
    BY <1>4, <1>5, <1>13 DEF Begun, Partial
  <2>2. ASSUME NEW i \in 1..(n + 1)
        PROVE  h[i] = ApplyNext(h[i - 1], before.block[i])
    <3>1. CASE i = n + 1
      <4>1. i - 1 = n /\ n \in 0..n /\ i = 1 + n
        BY <1>5, <3>1
      <4>. QED
        BY <1>3, <1>5, <1>8, <1>13, <3>1, <4>1
    <3>2. CASE i # n + 1
      <4>1. i \in 1..n /\ i \in 0..n /\ i - 1 \in 0..n
        BY <1>5, <3>2
      <4>. QED
        BY <1>4, <1>13, <4>1 DEF Begun, Partial
    <3>. QED
      BY <3>1, <3>2
  <2>. QED
    BY <2>1, <2>2 DEF Partial
<1>15. n + 1 \in Nat /\ (n + 1) + Len(Tail(block)) = Len(before.block)
  <2>1. PICK a, b, c : a = Len(block) /\ b = Len(Tail(block)) /\ c = Len(before.block)
    OBVIOUS
  <2>2. a \in Nat /\ b = a - 1 /\ n + a = c /\ n \in Nat
    BY <1>3, <1>5, <2>1
  <2>3. n + 1 \in Nat /\ (n + 1) + b = c
    BY <2>2
  <2>. QED
    BY <2>1, <2>3
<1>16. ASSUME NEW i \in 1..Len(Tail(block))
       PROVE  Tail(block)[i] = before.block[i + (n + 1)]
  <2>1. i + 1 \in 1..Len(block) /\ (i + 1) + n = i + (n + 1)
    BY <1>3, <1>5
  <2>. QED
    BY <1>3, <1>4, <2>1 DEF Begun
<1>17. PICK m : m = n + 1
  OBVIOUS
<1>18. Begun(m, h)'
  BY <1>1, <1>11, <1>13, <1>14, <1>15, <1>16, <1>17 DEF Begun
<1>. QED
  BY <1>1, <1>4, <1>18 DEF Progress

\* Every step keeps track of the block.
LEMMA ProgressStep ==
    ASSUME Inv, Progress, [Next]_vars
    PROVE  Progress'
<1>1. ASSUME NEW txs \in Blocks, BeginBlock(txs) PROVE Progress'
  BY <1>1, ProgressBeginBlock
<1>7. CASE SaveCount
  <2>1. UNCHANGED <<accounts, writes, failing, block, before>> /\ phase = "snapshot" /\ phase' = "apply"
    BY <1>7 DEF SaveCount
  <2>2. \A n, g : Begun(n, g)' <=> Begun(n, g)
    BY <2>1 DEF Begun
  <2>. QED
    BY <2>1, <2>2 DEF Progress
<1>2. CASE BeginTransaction
  BY <1>2, ProgressBeginTransaction
<1>3. CASE Write
  <2>1. /\ before' = before /\ phase' = phase /\ block' = block /\ failing' = failing
        /\ writes # <<>> /\ accounts' = Written(accounts, Head(writes)) /\ writes' = Tail(writes)
    BY <1>3 DEF Write
  <2>0. phase \in {"apply", "undo"}
    BY <2>1 DEF Inv, Types
  <2>6. CASE phase = "undo"
    BY <2>1, <2>6 DEF Progress
  <2>. SUFFICES ASSUME phase = "apply" PROVE \E n, g : Begun(n, g)'
    BY <2>0, <2>1, <2>6 DEF Progress
  <2>2. InOrder(accounts, writes)
    BY DEF Inv, Applying
  <2>3. After(accounts', writes') = After(accounts, writes)
    BY <2>1, <2>2, WriteInOrder
  <2>4. PICK n, g : Begun(n, g)
    BY DEF Progress
  <2>5. Begun(n, g)'
    BY <2>1, <2>3, <2>4 DEF Begun
  <2>. QED
    BY <2>5
<1>4. CASE BeginRollback
  <2>1. /\ accounts' = accounts /\ before' = before /\ phase = "apply" /\ phase' = "undo"
        /\ failing = TRUE
    BY <1>4 DEF BeginRollback, Inv, Types
  <2>2. PICK n, g : Begun(n, g)
    BY <2>1 DEF Progress
  <2>3. PICK txs : txs = before.block
    OBVIOUS
  <2>4. txs \in Seq(Transaction) /\ block \in Seq(Transaction)
    BY <2>3 DEF Inv, Types
  <2>5. PICK k \in Nat, l \in Nat : k = Len(txs) /\ l = Len(block) /\ DOMAIN txs = 1..k
    BY <2>4
  <2>6. n \in Nat /\ n + l = k /\ Partial(g, before.accounts, txs, n)
    BY <2>2, <2>3, <2>5 DEF Begun
  <2>7. g[n].ok = FALSE
    <3>1. g[n] = [ok |-> ~failing, accts |-> After(accounts, writes)]
      BY <2>2 DEF Begun
    <3>2. (~failing) = FALSE
      BY <2>1
    <3>3. g[n].ok = (~failing)
      BY <3>1
    <3>. QED
      BY <3>2, <3>3, Zenon
  <2>8. n <= k
    BY <2>5, <2>6
  <2>9. ~ApplyAll(before.accounts, txs).ok
    BY <2>5, <2>6, <2>7, <2>8, FailureStays
  <2>. QED
    BY <2>1, <2>3, <2>9 DEF Progress
<1>5. CASE FinishRollback \/ (\E isEpoch \in BOOLEAN : FinishBlock(isEpoch)) \/ Crash
  BY <1>5 DEF FinishRollback, FinishBlock, Crash, Forget, Progress
<1>6. CASE UNCHANGED vars
  <2>1. UNCHANGED <<accounts, phase, writes, failing, block, before>>
    BY <1>6 DEF vars, memory
  <2>2. \A n, g : Begun(n, g)' <=> Begun(n, g)
    BY <2>1 DEF Begun
  <2>. QED
    BY <2>1, <2>2 DEF Progress
<1>. QED
  BY <1>1, <1>2, <1>3, <1>4, <1>5, <1>6, <1>7 DEF Next

\* A stop in the middle of a block disturbs no account outside it.
LEMMA StopInterrupts ==
    ASSUME Inv, Progress, Crash
    PROVE  Atomic!Next
<1>1. /\ UNCHANGED <<accounts, state_root, before>> /\ outcome' = "crashed"
      /\ phase # "idle" /\ phase' = "idle"
  BY DEF Crash, Forget
<1>2. /\ visible_accounts = before.accounts /\ visible_root = before.state_root
      /\ visible_accounts' = accounts /\ visible_root' = state_root
  BY <1>1 DEF visible_accounts, visible_root
<1>3. PICK txs : txs = before.block
  OBVIOUS
<1>4. txs \in Blocks /\ txs \in Seq(Transaction)
  BY <1>1, <1>3 DEF Progress, Inv, Types
<1>5. /\ state_root = before.state_root
      /\ \A x : x \notin Touched(txs) => SameAt(accounts, before.accounts, x)
  BY <1>1, <1>3 DEF Inv, Saved
<1>6. PICK P : P = Atomic!Parties(txs)
  OBVIOUS
<1>7. Touched(txs) \subseteq P
  <2>1. DOMAIN txs = 1..Len(txs)
    BY <1>4
  <2>2. P = {Treasury} \cup UNION {{txs[i].sender, txs[i].receiver} : i \in 1..Len(txs)}
    BY <1>6, <2>1 DEF Atomic!Parties
  <2>3. \A x \in Touched(txs) :
          x = Treasury \/ \E i \in 1..Len(txs) : x \in {txs[i].sender, txs[i].receiver}
    BY <1>4, AffectedCovers
  <2>. QED
    BY <2>2, <2>3
<1>8. \A x : x \notin P => SameAt(accounts, before.accounts, x)
  BY <1>5, <1>7
<1>9. PICK A, B : A = DOMAIN accounts \ P /\ B = DOMAIN before.accounts \ P
  OBVIOUS
<1>10. A = B /\ \A x \in A : accounts[x] = before.accounts[x]
  BY <1>8, <1>9 DEF SameAt
<1>11. Atomic!Restrict(accounts, A) = Atomic!Restrict(before.accounts, B)
  BY <1>10 DEF Atomic!Restrict
<1>12. Atomic!Interrupt(txs)
  BY <1>1, <1>2, <1>5, <1>6, <1>9, <1>11 DEF Atomic!Interrupt
<1>. QED
  BY <1>4, <1>12 DEF Atomic!Next

\* Block by block the write-level process is the atomic one: a block is applied
\* as a whole or, when one of its transactions fails, has no effect, and a stop
\* in the middle disturbs no account the block does not name.
THEOREM BlockApplyImplementsAtomicBlocks == Spec => ImplementsAtomicBlocks
<1>1. Init => Inv /\ Progress /\ Atomic!Init
  <2>1. Init => Progress
    BY DEF Init, Progress
  <2>2. Init => Atomic!Init
    <3>1. EmptyTree = <<>>
      BY DEF EmptyTree, compute_state_root
    <3>. QED
      BY <3>1 DEF Init, Atomic!Init, visible_accounts, visible_root
  <2>. QED
    BY <2>1, <2>2, InvInit
<1>2. Inv /\ Progress /\ Inv' /\ [Next]_vars => Progress' /\ [Atomic!Next]_<<visible_accounts, visible_root, outcome>>
  <2>. SUFFICES ASSUME Inv, Progress, Inv', [Next]_vars
                PROVE  [Atomic!Next]_<<visible_accounts, visible_root, outcome>>
    BY ProgressStep
  <2>1. CASE \E txs \in Blocks : BeginBlock(txs)
    BY <2>1 DEF BeginBlock, visible_accounts, visible_root
  <2>2. CASE SaveCount \/ BeginTransaction \/ BeginRollback
    BY <2>2 DEF SaveCount, BeginTransaction, BeginRollback, visible_accounts, visible_root
  <2>3. CASE Write
    <3>1. phase # "idle" /\ phase' = phase /\ before' = before /\ outcome' = outcome
      BY <2>3 DEF Write, Inv, Types
    <3>. QED
      BY <3>1 DEF visible_accounts, visible_root
  <2>4. CASE FinishRollback
    <3>1. phase = "undo" /\ phase' = "idle" /\ outcome' = "rolled back" /\ before' = before
      BY <2>4 DEF FinishRollback, Forget
    <3>2. accounts' = before.accounts /\ state_root' = before.state_root
      BY <3>1 DEF Inv, RollbackRestores
    <3>3. /\ visible_accounts' = visible_accounts /\ visible_root' = visible_root
          /\ visible_accounts = before.accounts
      BY <3>1, <3>2 DEF visible_accounts, visible_root
    <3>4. PICK txs : txs = before.block
      OBVIOUS
    <3>5. txs \in Blocks /\ txs \in Seq(Transaction) /\ ~ApplyAll(before.accounts, txs).ok
      BY <3>1, <3>4 DEF Progress, Inv, Types
    <3>6. Len(txs) \in Nat /\ DOMAIN txs = 1..Len(txs)
      BY <3>5
    <3>7. ~Atomic!ApplyAll(before.accounts, txs).ok
      BY <3>5, <3>6, SameBlock
    <3>8. Atomic!Refuse(txs)
      BY <3>1, <3>3, <3>7 DEF Atomic!Refuse
    <3>. QED
      BY <3>5, <3>8 DEF Atomic!Next
  <2>5. ASSUME NEW isEpoch \in BOOLEAN, FinishBlock(isEpoch)
        PROVE  Atomic!Next
    <3>1. /\ phase = "apply" /\ phase' = "idle" /\ writes = <<>> /\ ~failing /\ block = <<>>
          /\ accounts' = accounts
          /\ state_root' = IF isEpoch THEN accounts ELSE state_root
          /\ outcome' = "applied"
      BY <2>5 DEF FinishBlock, Forget, compute_state_root
    <3>2. /\ visible_accounts = before.accounts /\ visible_root = before.state_root
          /\ visible_accounts' = accounts /\ visible_root' = state_root'
      BY <3>1 DEF visible_accounts, visible_root
    <3>3. state_root = before.state_root /\ before.block \in Seq(Transaction)
      BY <3>1 DEF Inv, Saved, Types
    <3>4. PICK n, g : Begun(n, g)
      BY <3>1 DEF Progress
    <3>5. PICK txs : txs = before.block
      OBVIOUS
    <3>6. n \in Nat /\ n = Len(txs) /\ DOMAIN txs = 1..n
      <4>1. Len(block) = 0 /\ Len(txs) \in Nat /\ DOMAIN txs = 1..Len(txs)
        BY <3>1, <3>3, <3>5
      <4>. QED
        BY <3>4, <3>5, <4>1 DEF Begun
    <3>7. Partial(g, before.accounts, txs, n) /\ g[n] = [ok |-> TRUE, accts |-> accounts]
      <4>1. After(accounts, <<>>) = accounts
        BY DEF After
      <4>. QED
        BY <3>1, <3>4, <3>5, <4>1 DEF Begun
    <3>8. Atomic!ApplyAll(before.accounts, txs) = g[n]
      BY <3>6, <3>7, ApplyAllIsPartial, SameBlock
    <3>9. txs \in Blocks
      BY <3>1, <3>5 DEF Progress
    <3>10. Atomic!Commit(txs, isEpoch)
      BY <3>1, <3>2, <3>3, <3>7, <3>8 DEF Atomic!Commit
    <3>. QED
      BY <3>9, <3>10 DEF Atomic!Next
  <2>6. CASE Crash
    BY <2>6, StopInterrupts
  <2>7. CASE UNCHANGED vars
    BY <2>7 DEF vars, memory, visible_accounts, visible_root
  <2>. QED
    BY <2>1, <2>2, <2>3, <2>4, <2>5, <2>6, <2>7 DEF Next
<1>. QED
  BY <1>1, <1>2, BlockApplyInvariant, PTL DEF Spec, ImplementsAtomicBlocks, Atomic!Spec
=============================================================================
