--------------------------- MODULE MempoolProofs ----------------------------
(***************************************************************************)
(* Proofs about Mempool, for every pool size, set of transactions and      *)
(* history of the chain.                                                   *)
(***************************************************************************)
EXTENDS Mempool, FiniteSetTheorems, WellFoundedInduction, TLAPS

(***************************************************************************)
(* The inductive invariant, as a predicate on a pool so that it can be     *)
(* stated of the intermediate pool between an eviction and the insertion.  *)
(***************************************************************************)
IsPool(p) ==
    /\ p = [transactions |-> p.transactions, fee_index |-> p.fee_index,
            pending_nonces |-> p.pending_nonces]
    /\ p.transactions \in [DOMAIN p.transactions -> Tx]
    /\ IsFiniteSet(DOMAIN p.transactions)
    /\ \A h \in DOMAIN p.transactions : p.transactions[h].hash = h
    /\ p.fee_index = {FeeKey(p.transactions[h]) : h \in DOMAIN p.transactions}
    /\ p.pending_nonces = {SenderKey(p.transactions[h]) : h \in DOMAIN p.transactions}
    /\ \A h, g \in DOMAIN p.transactions :
          SenderKey(p.transactions[h]) = SenderKey(p.transactions[g]) => h = g

\* A set of naturals that is not empty has a least element.
LEMMA NatMinimum ==
    ASSUME NEW T, T \subseteq Nat, T # {}
    PROVE  \E m \in T : \A n \in T : m <= n
<1> DEFINE R == OpToRel(<, Nat)
<1>1. \E m \in T : \A n \in T : ~(<<n, m>> \in R)
  BY NatLessThanWellFounded, WFMin
<1>2. \A m, n \in Nat : n < m => <<n, m>> \in R
  BY DEF OpToRel
<1>. HIDE DEF R
<1>3. PICK m \in T : \A n \in T : ~(<<n, m>> \in R)
  BY <1>1
<1>4. ASSUME NEW n \in T
      PROVE  m <= n
  <2>1. m \in Nat /\ n \in Nat
    OBVIOUS
  <2>2. ~(<<n, m>> \in R)
    BY <1>3
  <2>3. ~(n < m)
    BY <1>2, <2>1, <2>2
  <2>. QED
    BY <2>1, <2>3
<1>. QED
  BY <1>4

\* The first key of a fee_index that is not empty: lowest_key returns a key of
\* the index, and no key has a lower fee.
LEMMA LowestKey ==
    ASSUME NEW p, p.fee_index \subseteq Nat \X Nat, p.fee_index # {}
    PROVE  /\ lowest_key(p) \in p.fee_index
           /\ \A j \in p.fee_index : lowest_key(p)[1] <= j[1]
<1> DEFINE fees == {k[1] : k \in p.fee_index}
<1>1. PICK f \in fees : \A g \in fees : f <= g
  <2>1. fees \subseteq Nat /\ fees # {}
    OBVIOUS
  <2>. HIDE DEF fees
  <2>. QED
    BY <2>1, NatMinimum
<1> DEFINE ties == {k[2] : k \in {i \in p.fee_index : i[1] = f}}
<1>2. PICK h \in ties : \A g \in ties : h <= g
  <2>1. ties \subseteq Nat /\ ties # {}
    BY <1>1
  <2>. HIDE DEF ties
  <2>. QED
    BY <2>1, NatMinimum
<1>3. PICK k \in p.fee_index : k[1] = f /\ k[2] = h
  BY <1>2
<1>4. ASSUME NEW j \in p.fee_index
      PROVE  j = k \/ KeyBelow(k, j)
  <2>1. f <= j[1] /\ j[1] \in Nat /\ j[2] \in Nat /\ f \in Nat /\ h \in Nat
    BY <1>1, <1>2, <1>3
  <2>2. j[1] = f => h <= j[2]
    BY <1>2
  <2>3. CASE j[1] = f /\ j[2] = h
    BY <2>3, <1>3
  <2>4. CASE ~(j[1] = f /\ j[2] = h)
    BY <2>1, <2>2, <2>4, <1>3 DEF KeyBelow
  <2>. QED
    BY <2>3, <2>4
<1>5. /\ lowest_key(p) \in p.fee_index
      /\ \A j \in p.fee_index : j = lowest_key(p) \/ KeyBelow(lowest_key(p), j)
  BY <1>3, <1>4 DEF lowest_key
<1>6. ASSUME NEW j \in p.fee_index
      PROVE  lowest_key(p)[1] <= j[1]
  <2>1. j[1] \in Nat /\ lowest_key(p)[1] \in Nat
    BY <1>5
  <2>. QED
    BY <1>5, <2>1 DEF KeyBelow
<1>. QED
  BY <1>5, <1>6

-----------------------------------------------------------------------------
\* remove and remove_batch keep the indexes in step and take out exactly the
\* given hashes.
LEMMA RemoveBatchPool ==
    ASSUME NEW p, IsPool(p), NEW hashes
    PROVE  /\ IsPool(remove_batch(p, hashes))
           /\ DOMAIN remove_batch(p, hashes).transactions = DOMAIN p.transactions \ hashes
           /\ \A h \in DOMAIN p.transactions \ hashes :
                 remove_batch(p, hashes).transactions[h] = p.transactions[h]
<1> DEFINE D == DOMAIN p.transactions
           E == D \ hashes
           q == remove_batch(p, hashes)
<1>1. /\ q = [transactions |-> q.transactions, fee_index |-> q.fee_index,
              pending_nonces |-> q.pending_nonces]
      /\ q.transactions = [h \in E |-> p.transactions[h]]
  BY DEF remove_batch, Restrict
<1>2. q.transactions \in [E -> Tx]
  BY <1>1 DEF IsPool
<1>3. IsFiniteSet(E)
  BY FS_Subset DEF IsPool
<1>4. \A h \in D : p.transactions[h] \in Tx /\ p.transactions[h].hash = h
  BY DEF IsPool
<1>5. q.fee_index = {FeeKey(p.transactions[h]) : h \in E}
  <2>1. q.fee_index = {FeeKey(p.transactions[h]) : h \in D}
                        \ {FeeKey(tx) : tx \in {p.transactions[h] : h \in hashes \cap D}}
    BY DEF remove_batch, IsPool
  <2>2. \A h, g \in D : FeeKey(p.transactions[h]) = FeeKey(p.transactions[g]) => h = g
    BY <1>4 DEF FeeKey
  <2>. QED
    BY <2>1, <2>2
<1>6. q.pending_nonces = {SenderKey(p.transactions[h]) : h \in E}
  <2>1. q.pending_nonces = {SenderKey(p.transactions[h]) : h \in D}
                        \ {SenderKey(tx) : tx \in {p.transactions[h] : h \in hashes \cap D}}
    BY DEF remove_batch, IsPool
  <2>2. \A h, g \in D : SenderKey(p.transactions[h]) = SenderKey(p.transactions[g]) => h = g
    BY DEF IsPool
  <2>. QED
    BY <2>1, <2>2
<1>7. \A h, g \in E : SenderKey(q.transactions[h]) = SenderKey(q.transactions[g]) => h = g
  BY <1>1 DEF IsPool
<1>8. q.fee_index = {FeeKey(q.transactions[h]) : h \in E}
  BY <1>1, <1>5
<1>9. q.pending_nonces = {SenderKey(q.transactions[h]) : h \in E}
  BY <1>1, <1>6
<1>10. \A h \in E : q.transactions[h].hash = h
  BY <1>1, <1>4
<1>11. DOMAIN q.transactions = E
  BY <1>1
<1>. HIDE DEF q
<1>12. IsPool(q)
  BY <1>1, <1>2, <1>3, <1>7, <1>8, <1>9, <1>10, <1>11 DEF IsPool
<1>. QED
  BY <1>1, <1>11, <1>12 DEF q

\* insert of a transaction with a new hash and a free slot keeps the indexes in
\* step and adds exactly that transaction.
LEMMA InsertPool ==
    ASSUME NEW p, IsPool(p), NEW tx \in Tx,
           tx.hash \notin DOMAIN p.transactions,
           SenderKey(tx) \notin p.pending_nonces
    PROVE  /\ IsPool(insert(p, tx))
           /\ DOMAIN insert(p, tx).transactions = DOMAIN p.transactions \cup {tx.hash}
           /\ insert(p, tx).transactions[tx.hash] = tx
           /\ \A h \in DOMAIN p.transactions :
                 insert(p, tx).transactions[h] = p.transactions[h]
<1> DEFINE D == DOMAIN p.transactions
           E == D \cup {tx.hash}
           q == insert(p, tx)
<1>1. /\ q = [transactions |-> q.transactions, fee_index |-> q.fee_index,
              pending_nonces |-> q.pending_nonces]
      /\ q.transactions = [h \in E |-> IF h = tx.hash THEN tx ELSE p.transactions[h]]
  BY DEF insert
<1>2. q.transactions \in [E -> Tx]
  BY <1>1 DEF IsPool
<1>3. IsFiniteSet(E)
  BY FS_AddElement DEF IsPool
<1>4. /\ q.transactions[tx.hash] = tx
      /\ \A h \in D : q.transactions[h] = p.transactions[h]
  BY <1>1
<1>5. q.fee_index = {FeeKey(q.transactions[h]) : h \in E}
  <2>1. q.fee_index = {FeeKey(p.transactions[h]) : h \in D} \cup {FeeKey(tx)}
    BY DEF insert, IsPool
  <2>. QED
    BY <2>1, <1>4
<1>6. q.pending_nonces = {SenderKey(q.transactions[h]) : h \in E}
  <2>1. q.pending_nonces = {SenderKey(p.transactions[h]) : h \in D} \cup {SenderKey(tx)}
    BY DEF insert, IsPool
  <2>. QED
    BY <2>1, <1>4
<1>7. \A h, g \in E : SenderKey(q.transactions[h]) = SenderKey(q.transactions[g]) => h = g
  <2>1. \A h \in D : SenderKey(p.transactions[h]) # SenderKey(tx)
    BY DEF IsPool
  <2>2. \A h, g \in D : SenderKey(p.transactions[h]) = SenderKey(p.transactions[g]) => h = g
    BY DEF IsPool
  <2>. QED
    BY <2>1, <2>2, <1>4
<1>8. \A h \in E : q.transactions[h].hash = h
  BY <1>4 DEF IsPool
<1>9. DOMAIN q.transactions = E
  BY <1>1
<1>. HIDE DEF q
<1>10. IsPool(q)
  BY <1>1, <1>2, <1>3, <1>5, <1>6, <1>7, <1>8, <1>9 DEF IsPool
<1>. QED
  BY <1>4, <1>9, <1>10 DEF q

-----------------------------------------------------------------------------
\* The number of pooled transactions.
Size(p) == Cardinality(DOMAIN p.transactions)

\* p loses exactly one of its cheapest transactions, v, which pays less than fee.
Displaced(p, q, v, fee) ==
    /\ v \in DOMAIN p.transactions
    /\ q = remove_batch(p, {v})
    /\ p.transactions[v].fee < fee
    /\ \A h \in DOMAIN p.transactions : p.transactions[v].fee <= p.transactions[h].fee

\* What a pooled transaction and its key are made of.
LEMMA PoolTypes ==
    ASSUME NEW p, IsPool(p)
    PROVE  /\ p.fee_index \subseteq Nat \X Nat
           /\ p.pending_nonces \subseteq Sender \X Nat
           /\ \A h \in DOMAIN p.transactions :
                 p.transactions[h] \in Tx /\ p.transactions[h].fee \in Nat
<1>1. \A h \in DOMAIN p.transactions : p.transactions[h] \in Transaction
  BY TxAssumption DEF IsPool
<1>2. \A tx \in Transaction : FeeKey(tx) \in Nat \X Nat /\ SenderKey(tx) \in Sender \X Nat
  BY DEF Transaction, FeeKey, SenderKey
<1>. QED
  BY <1>1, <1>2 DEF IsPool, Transaction

\* add_transaction has a place to insert into: either the pool was not full and
\* is untouched, or it was full and one cheapest transaction made way.
LEMMA MakeRoomPool ==
    ASSUME NEW p, IsPool(p), Size(p) <= MAX_MEMPOOL_SIZE,
           NEW fee \in Nat, make_room(p, fee).ok
    PROVE  /\ IsPool(make_room(p, fee).pool)
           /\ Size(make_room(p, fee).pool) < MAX_MEMPOOL_SIZE
           /\ DOMAIN make_room(p, fee).pool.transactions \subseteq DOMAIN p.transactions
           /\ make_room(p, fee).pool.pending_nonces \subseteq p.pending_nonces
           /\ \/ Size(p) < MAX_MEMPOOL_SIZE /\ make_room(p, fee).pool = p
              \/ /\ Size(p) = MAX_MEMPOOL_SIZE
                 /\ \E v \in DOMAIN p.transactions :
                       Displaced(p, make_room(p, fee).pool, v, fee)
<1> DEFINE q == make_room(p, fee).pool
<1>1. Size(p) \in Nat /\ MAX_MEMPOOL_SIZE \in Nat \ {0}
  BY FS_CardinalityType, SizeAssumption DEF IsPool, Size
<1>2. CASE Size(p) < MAX_MEMPOOL_SIZE
  <2>1. q = p
    BY <1>1, <1>2 DEF make_room, Size
  <2>. QED
    BY <1>2, <2>1
<1>3. CASE Size(p) = MAX_MEMPOOL_SIZE
  <2> DEFINE k == lowest_key(p)
             v == k[2]
  <2>1. make_room(p, fee) = evict_for(p, fee)
    BY <1>1, <1>3 DEF make_room, Size
  <2>2. DOMAIN p.transactions # {}
    BY <1>1, <1>3, FS_EmptySet DEF Size
  <2>3. p.fee_index # {} /\ p.fee_index \subseteq Nat \X Nat
    BY <2>2, PoolTypes DEF IsPool
  <2>4. k \in p.fee_index /\ \A j \in p.fee_index : k[1] <= j[1]
    BY <2>3, LowestKey
  <2>5. PICK h \in DOMAIN p.transactions : k = FeeKey(p.transactions[h])
    BY <2>4 DEF IsPool
  <2>6. h = v /\ p.transactions[v].fee = k[1]
    BY <2>5 DEF IsPool, FeeKey
  <2>7. q = remove_batch(p, {v}) /\ k[1] < fee
    <3>1. k[1] \in Nat
      BY <2>3, <2>4
    <3>. HIDE DEF k
    <3>2. evict_for(p, fee) = IF fee <= k[1] THEN [ok |-> FALSE, pool |-> p]
                              ELSE [ok |-> TRUE, pool |-> remove_batch(p, {v})]
      BY <2>3 DEF evict_for, k
    <3>. QED
      BY <3>1, <3>2, <2>1
  <2>8. \A g \in DOMAIN p.transactions : p.transactions[v].fee <= p.transactions[g].fee
    <3>1. \A g \in DOMAIN p.transactions : FeeKey(p.transactions[g]) \in p.fee_index
      BY DEF IsPool
    <3>. HIDE DEF k
    <3>. QED
      BY <3>1, <2>4, <2>6 DEF FeeKey
  <2>9. Displaced(p, q, v, fee) /\ v \in DOMAIN p.transactions
    BY <2>5, <2>6, <2>7, <2>8 DEF Displaced
  <2>10. IsPool(q) /\ DOMAIN q.transactions = DOMAIN p.transactions \ {v}
    BY <2>7, RemoveBatchPool
  <2>11. Size(q) = Size(p) - 1
    BY <2>9, <2>10, FS_RemoveElement DEF Size, IsPool
  <2>12. q.pending_nonces \subseteq p.pending_nonces
    BY <2>7 DEF remove_batch
  <2>. HIDE DEF q, v
  <2>13. Size(q) < MAX_MEMPOOL_SIZE
    BY <1>1, <1>3, <2>11
  <2>. QED
    BY <1>3, <2>9, <2>10, <2>12, <2>13 DEF q
<1>. QED
  BY <1>1, <1>2, <1>3

-----------------------------------------------------------------------------
\* The inductive invariant of Mempool.
IInv ==
    /\ IsPool(pool)
    /\ Size(pool) <= MAX_MEMPOOL_SIZE
    /\ chain \in [Sender -> [balance : Balances, nonce : 0..MaxNonce]]

\* What add_transaction does to a pool that satisfies the invariant.
LEMMA AddStep ==
    ASSUME IInv, NEW tx \in Tx, add_transaction(tx)
    PROVE  LET q == make_room(pool, tx.fee).pool IN
           /\ tx.fee \in Nat
           /\ IsPool(q)
           /\ Size(q) < MAX_MEMPOOL_SIZE
           /\ tx.hash \notin DOMAIN pool.transactions
           /\ tx.hash \notin DOMAIN q.transactions
           /\ SenderKey(tx) \notin pool.pending_nonces
           /\ SenderKey(tx) \notin q.pending_nonces
           /\ pool' = insert(q, tx)
           /\ chain' = chain
<1>1. tx.fee \in Nat
  BY TxAssumption DEF Transaction
<1>. QED
  BY <1>1, MakeRoomPool DEF IInv, add_transaction

\* Every step of Mempool keeps the inductive invariant.
LEMMA IInvStep == IInv /\ [Next]_vars => IInv'
<1> SUFFICES ASSUME IInv, [Next]_vars
             PROVE  IInv'
  OBVIOUS
<1>1. ASSUME NEW tx \in Tx, add_transaction(tx)
      PROVE  IInv'
  <2> DEFINE q == make_room(pool, tx.fee).pool
  <2>1. /\ IsPool(q) /\ Size(q) < MAX_MEMPOOL_SIZE
        /\ tx.hash \notin DOMAIN q.transactions
        /\ SenderKey(tx) \notin q.pending_nonces
        /\ pool' = insert(q, tx) /\ chain' = chain
    BY <1>1, AddStep
  <2>. HIDE DEF q
  <2>2. IsPool(pool') /\ DOMAIN pool'.transactions = DOMAIN q.transactions \cup {tx.hash}
    BY <2>1, InsertPool
  <2>3. Size(q) \in Nat /\ Size(pool') = Size(q) + 1
    BY <2>1, <2>2, FS_AddElement, FS_CardinalityType DEF IsPool, Size
  <2>4. Size(pool') <= MAX_MEMPOOL_SIZE
    BY <2>1, <2>3, SizeAssumption
  <2>. QED
    BY <2>1, <2>2, <2>4 DEF IInv, IsPool, Size
<1>2. ASSUME NEW hashes, RemoveBatch(hashes)
      PROVE  IInv'
  <2>1. pool' = remove_batch(pool, hashes) /\ chain' = chain /\ IsPool(pool)
    BY <1>2 DEF RemoveBatch, IInv
  <2>2. IsPool(pool') /\ DOMAIN pool'.transactions = DOMAIN pool.transactions \ hashes
    BY <2>1, RemoveBatchPool
  <2>3. Size(pool') <= Size(pool) /\ Size(pool) \in Nat /\ Size(pool') \in Nat
    BY <2>1, <2>2, FS_Subset, FS_CardinalityType DEF IsPool, Size
  <2>4. Size(pool') <= MAX_MEMPOOL_SIZE
    BY <2>3, SizeAssumption DEF IInv
  <2>. QED
    BY <2>1, <2>2, <2>4 DEF IInv, IsPool, Size
<1>3. ASSUME NEW a \in Sender, ChainAdvances(a)
      PROVE  IInv'
  BY <1>3, ChainAssumption DEF IInv, IsPool, Size, ChainAdvances
<1>4. ASSUME NEW a \in Sender, ChainCredits(a)
      PROVE  IInv'
  BY <1>4 DEF IInv, IsPool, Size, ChainCredits
<1>5. CASE UNCHANGED vars
  BY <1>5 DEF IInv, IsPool, Size, vars
<1>. QED
  BY <1>1, <1>2, <1>3, <1>4, <1>5 DEF Next

\* The empty pool satisfies the inductive invariant.
LEMMA IInvInit == Init => IInv
<1> SUFFICES ASSUME Init
             PROVE  IInv
  OBVIOUS
<1>1. IsPool(pool)
  BY FS_EmptySet DEF Init, IsPool
<1>2. Size(pool) = 0
  BY FS_EmptySet DEF Init, Size
<1>3. chain \in [Sender -> [balance : Balances, nonce : 0..MaxNonce]]
  BY ChainAssumption DEF Init
<1>. QED
  BY <1>1, <1>2, <1>3, SizeAssumption DEF IInv

\* The inductive invariant implies the checked invariants.
LEMMA IInvImplies == IInv => TypeOK /\ IndexesAgree /\ OneTxPerNonce /\ SizeBounded
<1> SUFFICES ASSUME IInv
             PROVE  TypeOK /\ IndexesAgree /\ OneTxPerNonce /\ SizeBounded
  OBVIOUS
<1>1. IsPool(pool)
  BY DEF IInv
<1>2. Held = {pool.transactions[h] : h \in DOMAIN pool.transactions}
  BY DEF Held, Range
<1>3. DOMAIN pool = {"transactions", "fee_index", "pending_nonces"}
  BY <1>1 DEF IsPool
<1>4. TypeOK
  BY <1>1, <1>3, PoolTypes DEF TypeOK, IInv, IsPool
<1>5. IndexesAgree
  BY <1>1, <1>2 DEF IndexesAgree, IsPool
<1>6. OneTxPerNonce /\ SizeBounded
  BY <1>1 DEF OneTxPerNonce, SizeBounded, IsPool, IInv, Size
<1>. QED
  BY <1>4, <1>5, <1>6

\* Every reachable pool satisfies the inductive invariant.
THEOREM MempoolInvariant == Spec => []IInv
  BY IInvInit, IInvStep, PTL DEF Spec

\* Through every order of insertions, evictions and removals the pool is well
\* typed, its two indexes describe the stored transactions exactly, no two of
\* them share sender and nonce, and there are at most MAX_MEMPOOL_SIZE.
THEOREM MempoolPoolSound == Spec => []PoolSound
<1>1. IInv => PoolSound
  BY IInvImplies DEF PoolSound
<1>. QED
  BY <1>1, MempoolInvariant, PTL

-----------------------------------------------------------------------------
\* The transactions of a pool; Range of its function.
Txs(p) == {p.transactions[h] : h \in DOMAIN p.transactions}

\* A pool holds as many transactions as it has hashes.
LEMMA HeldCardinality ==
    ASSUME NEW p, IsPool(p)
    PROVE  Cardinality(Txs(p)) = Size(p)
<1> DEFINE D == DOMAIN p.transactions
           f == [h \in D |-> p.transactions[h]]
<1>1. f \in Injection(D, Txs(p))
  BY DEF Injection, IsInjective, IsPool, Txs
<1>2. f \in Surjection(D, Txs(p))
  BY DEF Surjection, Txs
<1>3. ExistsBijection(D, Txs(p))
  BY <1>1, <1>2 DEF ExistsBijection, Bijection
<1>. QED
  BY <1>3, FS_Bijection DEF IsPool, Size

\* Every step of Mempool is a step of FeePool on the set of pooled transactions,
\* or leaves that set alone.
LEMMA RefinementStep == IInv /\ [Next]_vars => [Abstract!Next]_Held
<1> SUFFICES ASSUME IInv, [Next]_vars
             PROVE  [Abstract!Next]_Held
  OBVIOUS
<1>0. Held = Txs(pool) /\ Held' = Txs(pool')
  BY DEF Held, Range, Txs
<1>1. ASSUME NEW tx \in Tx, add_transaction(tx)
      PROVE  Abstract!Next
  <2> DEFINE q == make_room(pool, tx.fee).pool
  <2>1. /\ tx.fee \in Nat
        /\ IsPool(pool) /\ IsPool(q) /\ Size(pool) <= MAX_MEMPOOL_SIZE
        /\ tx.hash \notin DOMAIN pool.transactions
        /\ tx.hash \notin DOMAIN q.transactions
        /\ SenderKey(tx) \notin pool.pending_nonces
        /\ SenderKey(tx) \notin q.pending_nonces
        /\ pool' = insert(q, tx)
    BY <1>1, AddStep DEF IInv
  <2>2. \/ Size(pool) < MAX_MEMPOOL_SIZE /\ q = pool
        \/ /\ Size(pool) = MAX_MEMPOOL_SIZE
           /\ \E v \in DOMAIN pool.transactions : Displaced(pool, q, v, tx.fee)
    BY <1>1, <2>1, MakeRoomPool DEF add_transaction
  <2>. HIDE DEF q
  <2>3. Txs(pool') = Txs(q) \cup {tx}
    <3>1. /\ DOMAIN pool'.transactions = DOMAIN q.transactions \cup {tx.hash}
          /\ pool'.transactions[tx.hash] = tx
          /\ \A h \in DOMAIN q.transactions : pool'.transactions[h] = q.transactions[h]
      BY <2>1, InsertPool
    <3>. QED
      BY <3>1 DEF Txs
  <2>4. \A u \in Held : u.hash # tx.hash /\ ~Abstract!SameSlot(tx, u)
    <3>1. \A h \in DOMAIN pool.transactions :
             /\ pool.transactions[h].hash = h
             /\ SenderKey(pool.transactions[h]) # SenderKey(tx)
      BY <2>1 DEF IsPool
    <3>. QED
      BY <1>0, <2>1, <3>1 DEF Txs, SenderKey, Abstract!SameSlot
  <2>5. Abstract!Cardinality(Held) = Size(pool)
    <3>1. Abstract!Cardinality(Held) = Cardinality(Held)
      BY DEF Cardinality, Abstract!Cardinality
    <3>. QED
      BY <1>0, <2>1, <3>1, HeldCardinality
  <2>6. CASE Size(pool) < MAX_MEMPOOL_SIZE /\ q = pool
    <3>1. Abstract!Admit(tx)
      BY <1>0, <2>3, <2>4, <2>5, <2>6 DEF Abstract!Admit
    <3>. QED
      BY <3>1 DEF Abstract!Next
  <2>7. ASSUME Size(pool) = MAX_MEMPOOL_SIZE,
               NEW v \in DOMAIN pool.transactions, Displaced(pool, q, v, tx.fee)
        PROVE  Abstract!Next
    <3> DEFINE victim == pool.transactions[v]
    <3>1. Txs(q) = Txs(pool) \ {victim}
      <4>1. /\ DOMAIN q.transactions = DOMAIN pool.transactions \ {v}
            /\ \A h \in DOMAIN q.transactions : q.transactions[h] = pool.transactions[h]
        BY <2>1, <2>7, RemoveBatchPool DEF Displaced
      <4>2. \A h \in DOMAIN pool.transactions : pool.transactions[h].hash = h
        BY <2>1 DEF IsPool
      <4>. QED
        BY <4>1, <4>2 DEF Txs
    <3>2. victim \in Held /\ victim.fee < tx.fee /\ \A u \in Held : victim.fee <= u.fee
      BY <1>0, <2>7 DEF Displaced, Txs
    <3>3. Abstract!Displace(tx, victim)
      BY <1>0, <2>3, <2>4, <2>5, <2>7, <3>1, <3>2 DEF Abstract!Displace
    <3>. QED
      BY <3>2, <3>3 DEF Abstract!Next
  <2>. QED
    BY <2>2, <2>6, <2>7
<1>2. ASSUME NEW hashes, RemoveBatch(hashes)
      PROVE  Abstract!Next
  <2>1. pool' = remove_batch(pool, hashes) /\ IsPool(pool)
    BY <1>2 DEF RemoveBatch, IInv
  <2>2. /\ DOMAIN pool'.transactions = DOMAIN pool.transactions \ hashes
        /\ \A h \in DOMAIN pool'.transactions : pool'.transactions[h] = pool.transactions[h]
    BY <2>1, RemoveBatchPool
  <2>3. Held' \in SUBSET Held
    BY <1>0, <2>2 DEF Txs
  <2>. QED
    BY <2>3 DEF Abstract!Next, Abstract!Drop
<1>3. CASE UNCHANGED pool
  BY <1>0, <1>3
<1>. QED
  BY <1>1, <1>2, <1>3 DEF Next, ChainAdvances, ChainCredits, vars

\* The indexed pool implements the bounded set of fee-paying transactions that
\* FeePool specifies.
THEOREM MempoolImplementsFeePool == Spec => ImplementsFeePool
<1>1. Init => Abstract!Init
  BY DEF Init, Abstract!Init, Held, Range
<1>. QED
  BY <1>1, MempoolInvariant, RefinementStep, PTL DEF Spec, ImplementsFeePool, Abstract!Spec

-----------------------------------------------------------------------------
(***************************************************************************)
(* What top_by_fee returns.  The number of keys above a key is its rank:   *)
(* ranks number the keys of a finite index from 0 without gaps, so the     *)
(* keys with a rank below limit are limit many, or all of them.            *)
(***************************************************************************)
\* The keys that come before k when the index is read from its high end.
Above(F, k) == {j \in F : KeyBelow(k, j)}

\* The number of them, for each key.
Rank(F) == [k \in F |-> Cardinality(Above(F, k))]

\* The smaller of two numbers.
Smaller(m, n) == IF m < n THEN m ELSE n

\* The order of the keys is total and strict.
LEMMA KeyOrder ==
    /\ \A k \in Nat \X Nat : ~KeyBelow(k, k)
    /\ \A j, k \in Nat \X Nat : j = k \/ KeyBelow(j, k) \/ KeyBelow(k, j)
    /\ \A j, k, l \in Nat \X Nat : KeyBelow(j, k) /\ KeyBelow(k, l) => KeyBelow(j, l)
<1>1. \A k \in Nat \X Nat : ~KeyBelow(k, k)
  BY DEF KeyBelow
<1>2. \A j, k \in Nat \X Nat : j = k \/ KeyBelow(j, k) \/ KeyBelow(k, j)
  <2>. SUFFICES ASSUME NEW a \in Nat, NEW b \in Nat, NEW c \in Nat, NEW d \in Nat
                PROVE  LET j == <<a, b>> k == <<c, d>> IN
                       j = k \/ KeyBelow(j, k) \/ KeyBelow(k, j)
    OBVIOUS
  <2>. QED
    BY DEF KeyBelow
<1>3. \A j, k, l \in Nat \X Nat : KeyBelow(j, k) /\ KeyBelow(k, l) => KeyBelow(j, l)
  BY DEF KeyBelow
<1>. QED
  BY <1>1, <1>2, <1>3

\* A higher key has a lower rank.
LEMMA RankFalls ==
    ASSUME NEW F, F \subseteq Nat \X Nat, IsFiniteSet(F),
           NEW k \in F, NEW j \in F, KeyBelow(k, j)
    PROVE  Rank(F)[j] < Rank(F)[k] /\ Rank(F)[j] \in Nat /\ Rank(F)[k] \in Nat
<1>1. Above(F, j) \subseteq Above(F, k) /\ j \in Above(F, k) /\ j \notin Above(F, j)
  BY KeyOrder DEF Above
<1>2. Above(F, k) \subseteq F
  BY DEF Above
<1>3. IsFiniteSet(Above(F, k)) /\ IsFiniteSet(Above(F, j))
  BY <1>1, <1>2, FS_Subset
<1>4. Cardinality(Above(F, k)) \in Nat /\ Cardinality(Above(F, j)) \in Nat
  BY <1>3, FS_CardinalityType
<1>5. /\ Cardinality(Above(F, j)) <= Cardinality(Above(F, k))
      /\ Cardinality(Above(F, j)) # Cardinality(Above(F, k))
  BY <1>1, <1>3, FS_Subset
<1>. QED
  BY <1>4, <1>5 DEF Rank

\* The ranks of n keys are 0 to n - 1, each once.
LEMMA RankNumbers ==
    ASSUME NEW F, F \subseteq Nat \X Nat, IsFiniteSet(F)
    PROVE  Rank(F) \in Bijection(F, 0..(Cardinality(F) - 1))
<1> DEFINE n == Cardinality(F)
           T == 0..(n - 1)
<1>1. n \in Nat
  BY FS_CardinalityType
<1>2. ASSUME NEW k \in F
      PROVE  Rank(F)[k] \in T
  <2>1. Above(F, k) \subseteq F \ {k}
    BY KeyOrder DEF Above
  <2>2. IsFiniteSet(F \ {k}) /\ Cardinality(F \ {k}) = n - 1
    BY FS_RemoveElement
  <2>3. IsFiniteSet(Above(F, k)) /\ Cardinality(Above(F, k)) <= n - 1
    BY <2>1, <2>2, FS_Subset
  <2>4. Cardinality(Above(F, k)) \in Nat
    BY <2>3, FS_CardinalityType
  <2>. HIDE DEF n
  <2>5. Cardinality(Above(F, k)) \in T
    BY <1>1, <2>3, <2>4
  <2>. QED
    BY <2>5 DEF Rank
<1>3. Rank(F) \in Injection(F, T)
  <2>1. Rank(F) \in [F -> T]
    BY <1>2 DEF Rank
  <2>2. \A j, k \in F : Rank(F)[j] = Rank(F)[k] => j = k
    <3>1. SUFFICES ASSUME NEW j \in F, NEW k \in F, Rank(F)[j] = Rank(F)[k], j # k
                   PROVE  FALSE
      OBVIOUS
    <3>2. KeyBelow(j, k) \/ KeyBelow(k, j)
      BY <3>1, KeyOrder
    <3>. QED
      BY <3>1, <3>2, RankFalls
  <2>. HIDE DEF T
  <2>. QED
    BY <2>1, <2>2 DEF Injection, IsInjective
<1>4. IsFiniteSet(T) /\ Cardinality(T) = n
  <2>. HIDE DEF n
  <2>1. 0 \in Int /\ n - 1 \in Int
    BY <1>1
  <2>. QED
    BY <1>1, <2>1, FS_Interval
<1>. HIDE DEF T
<1>5. Rank(F) \in Surjection(F, T)
  BY <1>3, <1>4, FS_Injection
<1>. QED
  BY <1>3, <1>5 DEF Bijection, T

\* The keys top_by_fee visits are limit many, or all.
LEMMA TopKeysCount ==
    ASSUME NEW F, F \subseteq Nat \X Nat, IsFiniteSet(F), NEW limit \in Nat
    PROVE  LET top == {k \in F : Rank(F)[k] < limit} IN
           /\ IsFiniteSet(top)
           /\ Cardinality(top) = Smaller(limit, Cardinality(F))
<1> DEFINE n == Cardinality(F)
           top == {k \in F : Rank(F)[k] < limit}
           m == Smaller(limit, n)
           S == 0..(m - 1)
           r == [k \in top |-> Rank(F)[k]]
<1>1. n \in Nat
  BY FS_CardinalityType
<1>2. /\ \A k \in F : Rank(F)[k] \in 0..(n - 1)
      /\ \A i \in 0..(n - 1) : \E k \in F : Rank(F)[k] = i
      /\ \A j, k \in F : Rank(F)[j] = Rank(F)[k] => j = k
  BY RankNumbers DEF Bijection, Injection, Surjection, IsInjective
<1>. HIDE DEF n
<1>3. m \in Nat /\ \A i \in Int : i \in S <=> i \in 0..(n - 1) /\ i < limit
  BY <1>1 DEF Smaller
<1>4. IsFiniteSet(S) /\ Cardinality(S) = m
  <2>. HIDE DEF m
  <2>1. 0 \in Int /\ m - 1 \in Int
    BY <1>3
  <2>. QED
    BY <1>3, <2>1, FS_Interval
<1>5. S \subseteq Int /\ 0..(n - 1) \subseteq Int
  BY <1>1, <1>3
<1>. HIDE DEF S, m
<1>6. \A k \in top : r[k] \in S /\ r[k] = Rank(F)[k]
  BY <1>2, <1>3, <1>5
<1>7. \A i \in S : \E k \in top : r[k] = i
  BY <1>2, <1>3, <1>5
<1>8. top \subseteq F
  OBVIOUS
<1>9. r \in [top -> S] /\ DOMAIN r = top
  BY <1>6
<1>. HIDE DEF r, top
<1>10. r \in Injection(top, S)
  BY <1>2, <1>6, <1>8, <1>9 DEF Injection, IsInjective
<1>11. r \in Surjection(top, S)
  BY <1>7, <1>9 DEF Surjection
<1>12. IsFiniteSet(top) /\ Cardinality(top) = Cardinality(S)
  BY <1>4, <1>10, <1>11, FS_Injection
<1>. QED
  BY <1>4, <1>12 DEF top, m, n

\* The transactions some keys of the index lead to are as many as the keys.
LEMMA TxsOfKeys ==
    ASSUME NEW p, IsPool(p), NEW K, K \subseteq p.fee_index, IsFiniteSet(K)
    PROVE  /\ \A k \in K : k[2] \in DOMAIN p.transactions
           /\ Cardinality({p.transactions[k[2]] : k \in K}) = Cardinality(K)
<1> DEFINE V == {p.transactions[k[2]] : k \in K}
           g == [k \in K |-> p.transactions[k[2]]]
<1>1. \A k \in K : k[2] \in DOMAIN p.transactions /\ k = FeeKey(p.transactions[k[2]])
  BY DEF IsPool, FeeKey
<1>2. g \in [K -> V] /\ DOMAIN g = K /\ \A k \in K : k = FeeKey(g[k])
  BY <1>1
<1>3. \A v \in V : \E k \in K : g[k] = v
  OBVIOUS
<1>. HIDE DEF V, g
<1>4. g \in Injection(K, V)
  BY <1>2 DEF Injection, IsInjective
<1>5. g \in Surjection(K, V)
  BY <1>2, <1>3 DEF Surjection
<1>6. ExistsBijection(K, V)
  BY <1>4, <1>5 DEF ExistsBijection, Bijection
<1>7. Cardinality(V) = Cardinality(K)
  BY <1>6, FS_Bijection
<1>. QED
  BY <1>1, <1>7 DEF V

\* The index of a pool is finite and leads to all its transactions.
LEMMA IndexComplete ==
    ASSUME NEW p, IsPool(p)
    PROVE  /\ IsFiniteSet(p.fee_index)
           /\ Txs(p) = {p.transactions[k[2]] : k \in p.fee_index}
           /\ \A tx \in Txs(p) : FeeKey(tx) \in p.fee_index /\ p.transactions[tx.hash] = tx
           /\ \A k \in p.fee_index : FeeKey(p.transactions[k[2]]) = k
<1> DEFINE D == DOMAIN p.transactions
           f == [h \in D |-> FeeKey(p.transactions[h])]
<1>1. f \in Surjection(D, p.fee_index)
  BY DEF Surjection, IsPool
<1>2. IsFiniteSet(p.fee_index)
  BY <1>1, FS_Surjection DEF IsPool
<1>3. \A h \in D : /\ FeeKey(p.transactions[h]) \in p.fee_index
                   /\ FeeKey(p.transactions[h])[2] = h /\ p.transactions[h].hash = h
  BY DEF IsPool, FeeKey
<1>4. \A k \in p.fee_index : k[2] \in D /\ FeeKey(p.transactions[k[2]]) = k
  BY DEF IsPool, FeeKey
<1>5. Txs(p) = {p.transactions[k[2]] : k \in p.fee_index}
  BY <1>3, <1>4 DEF Txs
<1>. QED
  BY <1>2, <1>3, <1>4, <1>5 DEF Txs

\* What top_by_fee serves is limit many, or all there are, and none of the rest
\* pays more.
LEMMA TopByFee ==
    ASSUME NEW p, IsPool(p), NEW limit \in Nat
    PROVE  LET top == top_by_fee(p, limit) IN
           /\ Cardinality(top) = Smaller(limit, Cardinality(Txs(p)))
           /\ \A tx \in top, other \in Txs(p) \ top : other.fee <= tx.fee
<1> DEFINE F == p.fee_index
           K == {k \in F : Rank(F)[k] < limit}
           top == top_by_fee(p, limit)
<1>1. F \subseteq Nat \X Nat /\ IsFiniteSet(F)
  BY PoolTypes, IndexComplete
<1>2. top_keys(p, limit) = K
  BY DEF top_keys, Rank, Above
<1>3. IsFiniteSet(K) /\ Cardinality(K) = Smaller(limit, Cardinality(F))
  BY <1>1, TopKeysCount
<1>4. K \subseteq F
  OBVIOUS
<1>5. \A k \in K : k[2] \in DOMAIN p.transactions
  BY <1>3, <1>4, TxsOfKeys
<1>6. top = {p.transactions[k[2]] : k \in K}
  BY <1>2, <1>5 DEF top_by_fee
<1>7. Cardinality(top) = Cardinality(K)
  BY <1>3, <1>4, <1>6, TxsOfKeys
<1>8. Cardinality(Txs(p)) = Cardinality(F)
  BY <1>1, IndexComplete, TxsOfKeys
<1>9. ASSUME NEW tx \in top, NEW other \in Txs(p) \ top
      PROVE  other.fee <= tx.fee
  <2>1. PICK k \in K : tx = p.transactions[k[2]] /\ k = FeeKey(tx)
    BY <1>4, <1>6, IndexComplete
  <2>2. PICK j \in F : j = FeeKey(other) /\ other = p.transactions[j[2]]
    BY IndexComplete DEF FeeKey
  <2>3. j \notin K
    BY <1>6, <2>2
  <2>4. j \in Nat \X Nat /\ k \in Nat \X Nat /\ j # k
    BY <1>1, <2>3
  <2>5. ~KeyBelow(k, j)
    <3>1. SUFFICES ASSUME KeyBelow(k, j) PROVE FALSE
      OBVIOUS
    <3>2. Rank(F)[j] < Rank(F)[k] /\ Rank(F)[j] \in Nat /\ Rank(F)[k] \in Nat
      BY <1>1, <1>4, <3>1, RankFalls
    <3>3. Rank(F)[k] < limit /\ ~(Rank(F)[j] < limit)
      BY <2>3
    <3>. QED
      BY <3>2, <3>3
  <2>6. KeyBelow(j, k)
    BY <2>4, <2>5, KeyOrder
  <2>7. j[1] <= k[1]
    BY <2>4, <2>6 DEF KeyBelow
  <2>. QED
    BY <2>1, <2>2, <2>7 DEF FeeKey
<1>. HIDE DEF F, K
<1>10. Cardinality(top) = Smaller(limit, Cardinality(Txs(p)))
  BY <1>3, <1>7, <1>8
<1>. QED
  BY <1>9, <1>10

\* In every reachable pool a miner is served the highest fees, as many as asked
\* for or all there are.
THEOREM MempoolTopByFee == Spec => []TopByFeeIsBest
<1>1. IInv => TopByFeeIsBest
  <2>. SUFFICES ASSUME IInv, NEW limit \in 0..(MAX_MEMPOOL_SIZE + 1)
                PROVE  LET top == top_by_fee(pool, limit) IN
                       /\ Cardinality(top) = IF limit < Cardinality(Held) THEN limit
                                             ELSE Cardinality(Held)
                       /\ \A tx \in top, other \in Held \ top : other.fee <= tx.fee
    BY DEF TopByFeeIsBest
  <2>1. IsPool(pool) /\ limit \in Nat /\ Held = Txs(pool)
    BY SizeAssumption DEF IInv, Held, Range, Txs
  <2>. QED
    BY <2>1, TopByFee DEF Smaller
<1>. QED
  BY <1>1, MempoolInvariant, PTL
=============================================================================
