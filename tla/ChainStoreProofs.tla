-------------------------- MODULE ChainStoreProofs --------------------------
(***************************************************************************)
(* Proofs about ChainStore: for every genesis, every number of blocks and  *)
(* every number of stops, the indexes of the stores resolve, the tip heads *)
(* a hash-linked chain down to a genesis block, it moves up by one block   *)
(* at a time, and the saved state root is that of the accounts, which hold *)
(* the genesis supply once per start at most; and the history of an        *)
(* address starts with what it has on the chain.                           *)
(*                                                                         *)
(* None of these is inductive: what makes them hold is the order of the    *)
(* writes a running call has still to make.  StoreInv says of each write   *)
(* in `todo` what it relies on: either an earlier write of `todo`, or what *)
(* the trees hold already.                                                 *)
(***************************************************************************)
EXTENDS ChainStore, CoinTheorems, SequenceTheorems

\* The writes of save_block and save_chain_tip.
BlockOps == {"by_hash", "by_height", "chain_tip"}

\* A transaction with the hash the builder computes of its fields.
Hashed(tx) ==
    tx = [sender |-> tx.sender, nonce |-> tx.nonce, fee |-> tx.fee,
          hash |-> <<tx.sender, tx.nonce, tx.fee>>]

\* b is stored under its hash.
Stored(b) == b.hash \in DOMAIN blocks_by_hash /\ blocks_by_hash[b.hash] = b

\* b is stored, and is the block of its height.
Indexed(b) ==
    /\ Stored(b)
    /\ b.index \in DOMAIN blocks_by_height
    /\ blocks_by_height[b.index] = b.hash

\* The block of the running call: a genesis block when there is no tip, and
\* otherwise one on top of it, of the last hash given out.
NextBlock(b) ==
    /\ b.hash = mined
    /\ mined \in 1..MaxHash
    /\ chain_tip = {} => b.index = 0 /\ b.previous_hash = 0 /\ b.is_epoch_block /\ b.producer = GENESIS_MINER
    /\ \A tip \in chain_tip : b.index = tip.index + 1 /\ b.previous_hash = tip.hash

-----------------------------------------------------------------------------
\* What is left to write, and the types of what the trees hold.
Sequence ==
    /\ todo \in Seq(Range(todo))
    /\ mined \in 0..MaxHash
    /\ IsAccountMap(accounts)
    /\ IsAccountMap(state_root)

\* The blocks under their hashes, all of them given out.
BlocksUnderHash ==
    \A h \in DOMAIN blocks_by_hash : blocks_by_hash[h].hash = h /\ h \in 1..mined

\* A transaction is under its own hash, which is that of its fields.
TransactionsUnderHash ==
    \A k \in DOMAIN transactions :
        k[1] = "hash" => /\ k = hash_key(transactions[k].hash)
                         /\ Hashed(transactions[k])

\* There is at most one tip.
OneTip == chain_tip = {} \/ \E tip \in chain_tip : chain_tip = {tip} /\ tip.index \in Nat

\* Accounts are credited, and the root saved, before there is a tip.
GenesisWrites ==
    \A i \in DOMAIN todo :
        /\ todo[i].op = "credit" => chain_tip = {} /\ todo[i].to \in Address
        /\ todo[i].op = "state_root" => chain_tip = {}

\* A block still to be stored is the only one, and its hash is not in use.
ByHashFresh ==
    \A i \in DOMAIN todo : todo[i].op = "by_hash" =>
        /\ mined \notin DOMAIN blocks_by_hash
        /\ \A j \in DOMAIN todo : todo[j].op = "by_hash" => j = i

\* All the writes of blocks are of the block of the running call.
OfNextBlock == \A i \in DOMAIN todo : todo[i].op \in BlockOps => NextBlock(todo[i].block)

\* The height is indexed when the block is stored.
HeightAfterBlock ==
    \A i \in DOMAIN todo : todo[i].op = "by_height" =>
        IF i = 1 THEN Stored(todo[i].block)
        ELSE todo[i - 1].op = "by_hash" /\ todo[i - 1].block = todo[i].block

\* The tip is the last write, after the height.
TipLast ==
    \A i \in DOMAIN todo : todo[i].op = "chain_tip" =>
        /\ i = Len(todo)
        /\ \/ Indexed(todo[i].block)
           \/ \E j \in 1..(i - 1) : todo[j].op = "by_height" /\ todo[j].block = todo[i].block

\* The first tip is saved after the root, and the root after the credits.
RootAfterCredits ==
    \A i \in DOMAIN todo : (todo[i].op = "chain_tip" /\ chain_tip = {}) =>
        \/ /\ state_root = accounts
           /\ \A k \in DOMAIN todo : todo[k].op # "credit"
        \/ \E j \in 1..(i - 1) :
             /\ todo[j].op = "state_root"
             /\ \A k \in DOMAIN todo : todo[k].op = "credit" => k < j

\* A transaction is written under its own hash.
HashRecords ==
    \A i \in DOMAIN todo : todo[i].op = "transactions" =>
        \/ todo[i].key[1] = "sender"
        \/ todo[i].key = hash_key(todo[i].value.hash) /\ Hashed(todo[i].value)

\* The sender index is written when the transaction is stored.
IndexAfterRecord ==
    \A i \in DOMAIN todo : (todo[i].op = "transactions" /\ todo[i].key[1] = "sender") =>
        IF i = 1
        THEN \E tx \in get_transaction(todo[i].value) : sender_key(tx) = todo[i].key
        ELSE /\ todo[i - 1].op = "transactions"
             /\ todo[i - 1].key = hash_key(todo[i].value)
             /\ sender_key(todo[i - 1].value) = todo[i].key

\* The tip is saved when the transactions of its block are.
BodyBeforeTip ==
    \A i \in DOMAIN todo : todo[i].op = "chain_tip" =>
        \A tx \in Range(todo[i].block.body) :
            /\ Hashed(tx)
            /\ \/ get_transaction(tx.hash) = {tx}
               \/ \E j \in 1..(i - 1) :
                    /\ todo[j].op = "transactions"
                    /\ todo[j].key = hash_key(tx.hash)
                    /\ todo[j].value = tx

\* The root saved with a tip is that of the accounts.
RootOfAccounts == chain_tip # {} => state_root = accounts

\* What is on the chain has the hash of its fields.
OnChainHashed == \A tx \in OnChain : Hashed(tx)

\* The writes left to make.
Plan ==
    /\ GenesisWrites /\ ByHashFresh /\ OfNextBlock /\ HeightAfterBlock
    /\ TipLast /\ RootAfterCredits /\ HashRecords /\ IndexAfterRecord
    /\ BodyBeforeTip

\* What the trees hold.
Trees ==
    /\ BlocksUnderHash /\ TransactionsUnderHash /\ OneTip
    /\ HeightIndexResolves /\ SenderIndexResolves /\ TipHeadsChain /\ RootOfAccounts
    /\ OnChainFound /\ OnChainHashed

\* The inductive invariant.
StoreInv == Sequence /\ Plan /\ Trees

-----------------------------------------------------------------------------
\* The pairs one after the other: what flattening n pairs gives.
Paired(pairs, n) ==
    [m \in 1..(2 * n) |-> IF m % 2 = 1 THEN pairs[(m + 1) \div 2][1] ELSE pairs[m \div 2][2]]

\* One pair more.
LEMMA PairedStep ==
    ASSUME NEW S, NEW n \in Nat, NEW pairs \in [1..n -> Seq(S)],
           \A i \in 1..n : Len(pairs[i]) = 2, NEW k \in 2..n
    PROVE  Paired(pairs, k - 1) \o pairs[k] = Paired(pairs, k)
<1> DEFINE s == Paired(pairs, k - 1)
           t == pairs[k]
           u == Paired(pairs, k)
<1>1. \A i \in 1..n : pairs[i] \in Seq(S) /\ pairs[i][1] \in S /\ pairs[i][2] \in S
  OBVIOUS
<1>2. \A m \in 1..(2 * k) : (m % 2 = 1 => (m + 1) \div 2 \in 1..k) /\ (m % 2 # 1 => m \div 2 \in 1..k)
  OBVIOUS
<1>3. \A m \in 1..(2 * (k - 1)) : (m % 2 = 1 => (m + 1) \div 2 \in 1..k) /\ (m % 2 # 1 => m \div 2 \in 1..k)
  OBVIOUS
<1>4. u \in Seq(S) /\ Len(u) = 2 * k
  BY <1>1, <1>2 DEF Paired
<1>5. s \in Seq(S) /\ Len(s) = 2 * (k - 1)
  BY <1>1, <1>3 DEF Paired
<1>6. t \in Seq(S) /\ Len(t) = 2
  OBVIOUS
<1>7. \A m \in 1..(2 * (k - 1)) : s[m] = u[m]
  BY DEF Paired
<1>8. u[2 * k - 1] = t[1] /\ u[2 * k] = t[2]
  BY DEF Paired
<1>. HIDE DEF s, t, u
<1>9. /\ s \o t \in Seq(S)
      /\ Len(s \o t) = Len(s) + Len(t)
      /\ \A i \in 1..(Len(s) + Len(t)) :
           (s \o t)[i] = IF i <= Len(s) THEN s[i] ELSE t[i - Len(s)]
  BY <1>5, <1>6, ConcatProperties
<1>10. ASSUME NEW m \in 1..(2 * k)
       PROVE  (s \o t)[m] = u[m]
  <2>0. m \in 1..(Len(s) + Len(t)) /\ Len(s) = 2 * k - 2
    BY <1>5, <1>6
  <2>1. CASE m <= 2 * (k - 1)
    BY <2>0, <2>1, <1>5, <1>7, <1>9
  <2>2. CASE m = 2 * k - 1
    <3>1. m - Len(s) = 1 /\ ~(m <= Len(s))
      BY <2>0, <2>2
    <3>. QED
      BY <2>0, <2>2, <3>1, <1>8, <1>9
  <2>3. CASE m = 2 * k
    <3>1. m - Len(s) = 2 /\ ~(m <= Len(s))
      BY <2>0, <2>3
    <3>. QED
      BY <2>0, <2>3, <3>1, <1>8, <1>9
  <2>4. m <= 2 * (k - 1) \/ m = 2 * k - 1 \/ m = 2 * k
    OBVIOUS
  <2>. QED
    BY <2>1, <2>2, <2>3, <2>4
<1>11. s \o t = u
  <2> DEFINE v == s \o t
  <2>1. v \in Seq(S) /\ Len(v) = 2 * k /\ \A m \in 1..(2 * k) : v[m] = u[m]
    BY <1>5, <1>6, <1>9, <1>10
  <2>. HIDE DEF v
  <2>2. v = u
    BY <1>4, <2>1, SeqEqual
  <2>. QED
    BY <2>2 DEF v
<1>. QED
  BY <1>11 DEF s, t, u

\* G[k] is the first k of the n sequences in a row.
IsFlattening(G, seqs, n) ==
    /\ n \in Nat \ {0} /\ Len(seqs) = n
    /\ DOMAIN G = 1..n /\ G = [i \in 1..n |-> G[i]]
    /\ G[1] = seqs[1]
    /\ \A k \in 2..n : G[k - 1] \o seqs[k] = G[k]

\* FlattenSeq: the recursive function it chooses exists, being G, and is no
\* other than G, by the least argument at which they would differ.
LEMMA FlattenBy ==
    ASSUME NEW n, NEW seqs, NEW G, IsFlattening(G, seqs, n)
    PROVE  FlattenSeq(seqs) = G[n]
<1>. USE DEF IsFlattening
<1> DEFINE Flat(f) == f = [i \in 1..Len(seqs) |-> IF i = 1 THEN seqs[i] ELSE f[i - 1] \o seqs[i]]
<1>1. FlattenSeq(seqs) = (CHOOSE f : Flat(f))[Len(seqs)]
  BY DEF FlattenSeq
<1>2. Flat(G)
  <2> DEFINE H == [i \in 1..Len(seqs) |-> IF i = 1 THEN seqs[i] ELSE G[i - 1] \o seqs[i]]
  <2>1. ASSUME NEW i \in 1..n
        PROVE  G[i] = H[i]
    <3>1. CASE i = 1
      BY <3>1
    <3>2. CASE i # 1
      <4>1. i \in 2..n
        BY <3>2
      <4>. QED
        BY <3>2, <4>1
    <3>. QED
      BY <3>1, <3>2
  <2>2. G = H
    <3>1. H = [i \in 1..n |-> H[i]]
      OBVIOUS
    <3>. HIDE DEF H
    <3>2. [i \in 1..n |-> G[i]] = [i \in 1..n |-> H[i]]
      BY <2>1
    <3>. QED
      BY <3>1, <3>2
  <2>. QED
    BY <2>2
<1>3. ASSUME NEW f, Flat(f)
      PROVE  f[n] = G[n]
  <2> DEFINE T == {k \in 1..n : f[k] # G[k]}
  <2>1. f[1] = seqs[1] /\ \A k \in 2..n : f[k] = f[k - 1] \o seqs[k]
    <3>1. 1 \in 1..n /\ \A k \in 2..n : k \in 1..n /\ k # 1
      OBVIOUS
    <3>2. f = [i \in 1..n |-> IF i = 1 THEN seqs[i] ELSE f[i - 1] \o seqs[i]]
      BY <1>3
    <3>3. \A i \in 1..n : f[i] = IF i = 1 THEN seqs[i] ELSE f[i - 1] \o seqs[i]
      BY <3>2, Zenon
    <3>. QED
      BY <3>1, <3>3
  <2>2. CASE T = {}
    BY <2>2
  <2>3. CASE T # {}
    <3>1. PICK m \in T : \A k \in T : m <= k
      <4>1. T \subseteq Nat
        OBVIOUS
      <4>. HIDE DEF T
      <4>. QED
        BY <4>1, <2>3, LeastNat
    <3>2. CASE m = 1
      BY <2>1, <3>1, <3>2
    <3>3. CASE m # 1
      <4>1. m \in 2..n /\ m - 1 \in 1..n /\ m - 1 < m
        BY <3>1, <3>3
      <4>2. f[m - 1] = G[m - 1]
        BY <3>1, <4>1
      <4>. QED
        BY <2>1, <3>1, <4>1, <4>2
    <3>. QED
      BY <3>2, <3>3
  <2>. QED
    BY <2>2, <2>3
<1>. HIDE DEF Flat
<1>4. Flat(CHOOSE f : Flat(f))
  BY <1>2
<1>. QED
  BY <1>1, <1>3, <1>4

\* FlattenSeq of n pairs.
LEMMA FlattenPairs ==
    ASSUME NEW S, NEW n \in Nat, NEW pairs \in [1..n -> Seq(S)],
           \A i \in 1..n : Len(pairs[i]) = 2
    PROVE  FlattenSeq(pairs) = Paired(pairs, n)
<1>0. Len(pairs) = n
  OBVIOUS
<1>1. CASE n = 0
  <2>1. FlattenSeq(pairs) = pairs
    BY <1>0, <1>1 DEF FlattenSeq
  <2>2. pairs = <<>>
    BY <1>1
  <2>3. Paired(pairs, n) = <<>>
    BY <1>1 DEF Paired
  <2>. QED
    BY <2>1, <2>2, <2>3
<1>2. CASE n # 0
  <2> DEFINE F == [i \in 1..n |-> Paired(pairs, i)]
  <2>1. Paired(pairs, 1) = pairs[1]
    <3>1. pairs[1] \in Seq(S) /\ Len(pairs[1]) = 2
      BY <1>2
    <3>2. Paired(pairs, 1) = [m \in 1..2 |-> pairs[1][m]]
      BY DEF Paired
    <3>. QED
      BY <3>1, <3>2
  <2>2. \A k \in 2..n : Paired(pairs, k - 1) \o pairs[k] = Paired(pairs, k)
    BY PairedStep
  <2>3. DOMAIN F = 1..n /\ \A i \in 1..n : F[i] = Paired(pairs, i)
    OBVIOUS
  <2>4. F = [i \in 1..n |-> F[i]]
    OBVIOUS
  <2>. HIDE DEF F
  <2>5. n \in Nat \ {0} /\ 1 \in 1..n /\ n \in 1..n
    BY <1>2
  <2>6. F[1] = pairs[1] /\ F[n] = Paired(pairs, n)
    BY <2>1, <2>3, <2>5
  <2>7. ASSUME NEW k \in 2..n
        PROVE  F[k - 1] \o pairs[k] = F[k]
    <3>1. k \in 1..n /\ k - 1 \in 1..n
      OBVIOUS
    <3>. QED
      BY <2>2, <2>3, <3>1
  <2>8. FlattenSeq(pairs) = F[n]
    <3>1. IsFlattening(F, pairs, n)
      BY <1>0, <2>3, <2>4, <2>5, <2>6, <2>7 DEF IsFlattening
    <3>. QED
      BY <3>1, FlattenBy
  <2>. QED
    BY <2>6, <2>8
<1>. QED
  BY <1>1, <1>2

\* Sequence i of the n is that of x[i] alone.
IsSingles(seqs, x, n) == n \in Nat /\ seqs = [i \in 1..n |-> <<x[i]>>]

\* FlattenSeq of sequences of one: their members.
LEMMA FlattenSingles ==
    ASSUME NEW n, NEW x, NEW seqs, IsSingles(seqs, x, n)
    PROVE  FlattenSeq(seqs) = [i \in 1..n |-> x[i]]
<1>. USE DEF IsSingles
<1> DEFINE P(k) == [i \in 1..k |-> x[i]]
           F == [k \in 1..n |-> P(k)]
<1>0. Len(seqs) = n
  OBVIOUS
<1>1. CASE n = 0
  <2>1. FlattenSeq(seqs) = seqs
    BY <1>0, <1>1 DEF FlattenSeq
  <2>. QED
    BY <1>1, <2>1
<1>2. CASE n # 0
  <2>1. P(1) = seqs[1]
    <3>1. 1 \in 1..n /\ seqs[1] = <<x[1]>>
      BY <1>2
    <3>. QED
      BY <3>1
  <2>2. ASSUME NEW k \in 2..n
        PROVE  P(k - 1) \o seqs[k] = P(k)
    <3> DEFINE S == {x[i] : i \in 1..n}
               s == P(k - 1)
               t == <<x[k]>>
               u == P(k)
    <3>1. seqs[k] = t /\ \A i \in 1..n : x[i] \in S
      OBVIOUS
    <3>. HIDE DEF S
    <3>2. s \in Seq(S) /\ Len(s) = k - 1 /\ \A i \in 1..(k - 1) : s[i] = x[i]
      BY <3>1
    <3>3. t \in Seq(S) /\ Len(t) = 1 /\ t[1] = x[k]
      BY <3>1
    <3>4. u \in Seq(S) /\ Len(u) = k /\ \A i \in 1..k : u[i] = x[i]
      BY <3>1
    <3>. HIDE DEF s, t, u
    <3>5. /\ s \o t \in Seq(S) /\ Len(s \o t) = Len(s) + Len(t)
          /\ \A i \in 1..(Len(s) + Len(t)) : (s \o t)[i] = IF i <= Len(s) THEN s[i] ELSE t[i - Len(s)]
      BY <3>2, <3>3, ConcatProperties
    <3>6. PICK v : v = s \o t
      OBVIOUS
    <3>7. v \in Seq(S) /\ Len(v) = k
      BY <3>2, <3>3, <3>5, <3>6
    <3>8. ASSUME NEW i \in 1..k
          PROVE  v[i] = u[i]
      <4>1. i \in 1..(Len(s) + Len(t)) /\ Len(s) = k - 1
        BY <3>2, <3>3
      <4>2. CASE i <= k - 1
        <5>1. i \in 1..(k - 1) /\ i <= Len(s)
          BY <4>1, <4>2
        <5>2. v[i] = s[i]
          BY <3>5, <3>6, <4>1, <5>1
        <5>. QED
          BY <3>2, <3>4, <5>1, <5>2
      <4>3. CASE i = k
        <5>1. i - Len(s) = 1 /\ ~(i <= Len(s))
          BY <4>1, <4>3
        <5>. QED
          BY <3>3, <3>4, <3>5, <3>6, <4>1, <4>3, <5>1
      <4>. QED
        BY <4>2, <4>3
    <3>9. v = u
      BY <3>4, <3>7, <3>8, SeqEqual
    <3>. QED
      BY <3>1, <3>6, <3>9 DEF s, u
  <2>. HIDE DEF P
  <2>3. DOMAIN F = 1..n /\ \A k \in 1..n : F[k] = P(k)
    OBVIOUS
  <2>4. F = [k \in 1..n |-> F[k]]
    OBVIOUS
  <2>. HIDE DEF F
  <2>5. n \in Nat \ {0} /\ 1 \in 1..n /\ n \in 1..n
    BY <1>2
  <2>6. F[1] = seqs[1] /\ F[n] = P(n)
    BY <2>1, <2>3, <2>5
  <2>7. ASSUME NEW k \in 2..n
        PROVE  F[k - 1] \o seqs[k] = F[k]
    <3>1. k \in 1..n /\ k - 1 \in 1..n
      OBVIOUS
    <3>. QED
      BY <2>2, <2>3, <3>1
  <2>8. FlattenSeq(seqs) = F[n]
    <3>1. IsFlattening(F, seqs, n)
      BY <1>0, <2>3, <2>4, <2>5, <2>6, <2>7 DEF IsFlattening
    <3>. QED
      BY <3>1, FlattenBy
  <2>. QED
    BY <2>6, <2>8 DEF P
<1>. QED
  BY <1>1, <1>2

-----------------------------------------------------------------------------
\* save_block_transactions writes up to the first transaction without a hash,
\* and all of them when each has one.
LEMMA SavablePrefix ==
    ASSUME NEW S, NEW txs \in Seq(S)
    PROVE  /\ savable(txs) \in 0..Len(txs)
           /\ \A i \in 1..savable(txs) : txs[i].hash # EmptyHash
           /\ AllHashed(txs) => savable(txs) = Len(txs)
<1> DEFINE T == {k \in 1..Len(txs) : txs[k].hash = EmptyHash}
           P(k) == /\ AllHashed(SubSeq(txs, 1, k))
                   /\ k < Len(txs) => txs[k + 1].hash = EmptyHash
<1>0. Len(txs) \in Nat
  OBVIOUS
<1>1. \A k \in 0..Len(txs) : /\ DOMAIN SubSeq(txs, 1, k) = 1..k
                             /\ \A i \in 1..k : SubSeq(txs, 1, k)[i] = txs[i]
  OBVIOUS
<1>2. \E k \in 0..Len(txs) : P(k)
  <2>1. CASE T = {}
    <3>1. P(Len(txs))
      BY <2>1, <1>0, <1>1 DEF AllHashed
    <3>. QED
      BY <3>1, <1>0
  <2>2. CASE T # {}
    <3>1. PICK m \in T : \A k \in T : m <= k
      <4>1. T \subseteq Nat
        OBVIOUS
      <4>. HIDE DEF T
      <4>. QED
        BY <4>1, <2>2, LeastNat
    <3>2. m \in 1..Len(txs) /\ txs[m].hash = EmptyHash /\ m - 1 \in 0..Len(txs)
      BY <3>1, <1>0
    <3>3. \A i \in 1..(m - 1) : txs[i].hash # EmptyHash
      <4>. SUFFICES ASSUME NEW i \in 1..(m - 1), txs[i].hash = EmptyHash
                    PROVE  FALSE
        OBVIOUS
      <4>1. i \in T /\ ~(m <= i)
        BY <3>2
      <4>. QED
        BY <3>1, <4>1
    <3>4. P(m - 1)
      BY <3>2, <3>3, <1>1 DEF AllHashed
    <3>. QED
      BY <3>2, <3>4
  <2>. QED
    BY <2>1, <2>2
<1>3. savable(txs) \in 0..Len(txs) /\ P(savable(txs))
  <2>1. savable(txs) = CHOOSE k \in 0..Len(txs) : P(k)
    BY DEF savable
  <2>. HIDE DEF P
  <2>. QED
    BY <1>2, <2>1
<1>4. \A i \in 1..savable(txs) : txs[i].hash # EmptyHash
  BY <1>1, <1>3 DEF AllHashed
<1>5. AllHashed(txs) => savable(txs) = Len(txs)
  BY <1>0, <1>3 DEF AllHashed
<1>. QED
  BY <1>3, <1>4, <1>5

\* The writes of save_block_transactions: the i-th transaction and then its
\* index entry.
LEMMA TransactionWrites ==
    ASSUME NEW S, NEW txs \in Seq(S)
    PROVE  \E W, w :
              /\ w = save_block_transactions(txs)
              /\ w \in Seq(W)
              /\ Len(w) = 2 * savable(txs)
              /\ \A i \in 1..savable(txs) :
                   /\ w[2 * i - 1] = Record(hash_key(txs[i].hash), txs[i])
                   /\ w[2 * i] = Record(sender_key(txs[i]), txs[i].hash)
<1> DEFINE n == savable(txs)
           first(i) == Record(hash_key(txs[i].hash), txs[i])
           second(i) == Record(sender_key(txs[i]), txs[i].hash)
           pairs == [i \in 1..n |-> save_transaction(txs[i])]
           W == {first(i) : i \in 1..n} \cup {second(i) : i \in 1..n}
<1>0. n \in Nat /\ n <= Len(txs) /\ Len(txs) \in Nat
  BY SavablePrefix
<1>1. \A i \in 1..n : save_transaction(txs[i]) = <<first(i), second(i)>>
  BY SavablePrefix DEF save_transaction
<1>. HIDE DEF n, first, second
<1>2. \A i \in 1..n : pairs[i] = <<first(i), second(i)>>
  BY <1>1
<1>3. \A i \in 1..n : first(i) \in W /\ second(i) \in W
  OBVIOUS
<1>. HIDE DEF W
<1>4. \A i \in 1..n : /\ pairs[i] \in Seq(W) /\ Len(pairs[i]) = 2
                      /\ pairs[i][1] = first(i) /\ pairs[i][2] = second(i)
  BY <1>2, <1>3
<1>5. pairs \in [1..n -> Seq(W)]
  BY <1>4
<1>6. save_block_transactions(txs) = FlattenSeq(pairs)
  BY DEF save_block_transactions, n
<1>. HIDE DEF pairs
<1>7. FlattenSeq(pairs) = Paired(pairs, n)
  BY <1>0, <1>4, <1>5, FlattenPairs
<1> DEFINE w == Paired(pairs, n)
<1>8. \A m \in 1..(2 * n) : (m % 2 = 1 => (m + 1) \div 2 \in 1..n) /\ (m % 2 # 1 => m \div 2 \in 1..n)
  BY <1>0
<1>9. w \in Seq(W) /\ Len(w) = 2 * n
  BY <1>0, <1>3, <1>4, <1>8 DEF Paired
<1>10. ASSUME NEW i \in 1..n
       PROVE  w[2 * i - 1] = first(i) /\ w[2 * i] = second(i)
  <2>1. /\ 2 * i - 1 \in 1..(2 * n) /\ (2 * i - 1) % 2 = 1 /\ (2 * i - 1 + 1) \div 2 = i
        /\ 2 * i \in 1..(2 * n) /\ (2 * i) % 2 # 1 /\ (2 * i) \div 2 = i
    BY <1>0
  <2>2. w[2 * i - 1] = pairs[i][1] /\ w[2 * i] = pairs[i][2]
    BY <2>1 DEF Paired
  <2>. QED
    BY <2>2, <1>4
<1>. HIDE DEF w
<1>. QED
  BY <1>6, <1>7, <1>9, <1>10 DEF w, n, first, second

\* What initialize_chain credits: the allocations and the reward of the miner.
Given == Append(Allocations, [to |-> GENESIS_MINER, amount |-> GENESIS_BLOCK_REWARD])

\* All of it are amounts for addresses.
LEMMA GivenCredits ==
    /\ Len(Allocations) \in Nat /\ DOMAIN Allocations = 1..Len(Allocations)
    /\ Len(Given) = Len(Allocations) + 1 /\ DOMAIN Given = 1..Len(Given)
    /\ \A i \in 1..Len(Allocations) : Given[i] = Allocations[i]
    /\ Given[Len(Given)] = [to |-> GENESIS_MINER, amount |-> GENESIS_BLOCK_REWARD]
    /\ \A i \in 1..Len(Given) : Given[i].to \in Address /\ Given[i].amount \in Nat
<1> DEFINE C == [to : Address, amount : U64]
<1>1. Allocations \in Seq(C)
  BY AllocationsAssumption
<1>2. PICK r : r = [to |-> GENESIS_MINER, amount |-> GENESIS_BLOCK_REWARD]
  OBVIOUS
<1>3. r \in C
  BY <1>2, AllocationsAssumption
<1>4. \A c \in C : c.to \in Address /\ c.amount \in Nat
  BY DEF U64
<1>. HIDE DEF C
<1>5. PICK g : g = Append(Allocations, r)
  OBVIOUS
<1>6. /\ g \in Seq(C) /\ Len(g) = Len(Allocations) + 1 /\ g[Len(g)] = r
      /\ Len(Allocations) \in Nat /\ DOMAIN Allocations = 1..Len(Allocations)
      /\ \A i \in 1..Len(Allocations) : g[i] = Allocations[i]
  BY <1>1, <1>3, <1>5
<1>7. DOMAIN g = 1..Len(g) /\ \A i \in 1..Len(g) : g[i] \in C
  BY <1>6, ElementOfSeq
<1>8. Given = g
  BY <1>2, <1>5 DEF Given
<1>. QED
  BY <1>2, <1>4, <1>6, <1>7, <1>8

\* w is the genesis call: n credits, the block b, its height, the root, the tip.
IsGenesisCall(w, n, b, W) ==
    /\ w = initialize_writes(b)
    /\ w \in Seq(W)
    /\ n = Len(Given) /\ n \in Nat \ {0}
    /\ Len(w) = n + 4
    /\ \A i \in 1..n : w[i].op = "credit" /\ w[i].to \in Address /\ w[i] = Credit(Given[i])
    /\ w[n + 1] = ByHash(b)
    /\ w[n + 2] = ByHeight(b)
    /\ w[n + 3] = Root
    /\ w[n + 4] = Tip(b)

\* So are the writes of initialize_chain.
LEMMA GenesisCall ==
    ASSUME NEW b
    PROVE  \E w, n, W : IsGenesisCall(w, n, b, W)
<1> DEFINE reward == Credit([to |-> GENESIS_MINER, amount |-> GENESIS_BLOCK_REWARD])
           A == apply_genesis_allocations
           m == Len(Allocations)
           W == {Credit(Allocations[i]) : i \in 1..m} \cup {reward, ByHash(b), ByHeight(b), Root, Tip(b)}
           r == A \o <<reward>>
           s == r \o save_block(b)
           w == s \o <<Root, Tip(b)>>
<1>1. m \in Nat /\ DOMAIN Allocations = 1..m /\ \A i \in 1..m : Allocations[i].to \in Address
  <2>1. Allocations \in Seq([to : Address, amount : U64])
    BY AllocationsAssumption
  <2>2. m \in Nat /\ DOMAIN Allocations = 1..m
    BY <2>1
  <2>3. \A i \in 1..m : Allocations[i] \in [to : Address, amount : U64]
    BY <2>1, ElementOfSeq
  <2>. QED
    BY <2>2, <2>3
<1>2. initialize_writes(b) = w
  BY DEF initialize_writes
<1>3. A \in Seq(W) /\ Len(A) = m /\ \A i \in 1..m : A[i].op = "credit" /\ A[i].to \in Address
  BY <1>1 DEF apply_genesis_allocations, Credit
<1>4. reward.op = "credit" /\ reward.to \in Address
  BY AllocationsAssumption DEF Credit
<1>5. reward \in W /\ ByHash(b) \in W /\ ByHeight(b) \in W /\ Root \in W /\ Tip(b) \in W
  OBVIOUS
<1>6. \A i \in 1..m : A[i] = Credit(Given[i])
  BY <1>1, GivenCredits DEF apply_genesis_allocations
<1>7. Len(Given) = m + 1 /\ reward = Credit(Given[m + 1])
  BY GivenCredits
<1>. HIDE DEF m, A, W, reward
<1>8. /\ r \in Seq(W) /\ Len(r) = m + 1
      /\ \A i \in 1..(m + 1) : r[i].op = "credit" /\ r[i].to \in Address
      /\ \A i \in 1..(m + 1) : r[i] = Credit(Given[i])
  <2>1. <<reward>> \in Seq(W) /\ Len(<<reward>>) = 1 /\ <<reward>>[1] = reward
    BY <1>5
  <2>2. /\ r \in Seq(W) /\ Len(r) = Len(A) + Len(<<reward>>)
        /\ \A i \in 1..(Len(A) + Len(<<reward>>)) :
             r[i] = IF i <= Len(A) THEN A[i] ELSE <<reward>>[i - Len(A)]
    BY <1>3, <2>1, ConcatProperties
  <2>3. ASSUME NEW i \in 1..(m + 1)
        PROVE  r[i] = IF i <= m THEN A[i] ELSE reward
    <3>0. i \in 1..(Len(A) + Len(<<reward>>)) /\ Len(A) = m /\ i \in Int
      BY <1>1, <1>3, <2>1
    <3>1. CASE i <= m
      BY <3>0, <3>1, <2>2
    <3>2. CASE i = m + 1
      <4>1. i - m = 1 /\ ~(i <= m)
        BY <3>2, <1>1
      <4>. QED
        BY <4>1, <3>0, <2>1, <2>2
    <3>3. i <= m \/ i = m + 1
      BY <1>1
    <3>. QED
      BY <3>1, <3>2, <3>3
  <2>. HIDE DEF r
  <2>4. \A i \in 1..(m + 1) : i <= m => i \in 1..m
    BY <1>1
  <2>5. ASSUME NEW i \in 1..(m + 1)
        PROVE  r[i] = Credit(Given[i])
    <3>1. CASE i <= m
      BY <1>6, <2>3, <2>4, <3>1
    <3>2. CASE ~(i <= m)
      <4>1. i = m + 1
        BY <1>1, <3>2
      <4>. QED
        BY <1>7, <2>3, <3>2, <4>1
    <3>. QED
      BY <3>1, <3>2
  <2>. QED
    BY <1>1, <1>3, <1>4, <2>1, <2>2, <2>3, <2>4, <2>5
<1>. HIDE DEF r
<1>9. /\ s \in Seq(W) /\ Len(s) = m + 3
      /\ \A i \in 1..(m + 1) : s[i] = r[i]
      /\ s[m + 2] = ByHash(b) /\ s[m + 3] = ByHeight(b)
  <2> DEFINE t == <<ByHash(b), ByHeight(b)>>
  <2>1. t \in Seq(W) /\ Len(t) = 2 /\ t[1] = ByHash(b) /\ t[2] = ByHeight(b) /\ s = r \o t
    BY <1>5 DEF save_block
  <2>. HIDE DEF t, s
  <2>2. /\ s \in Seq(W) /\ Len(s) = Len(r) + Len(t)
        /\ \A i \in 1..(Len(r) + Len(t)) : s[i] = IF i <= Len(r) THEN r[i] ELSE t[i - Len(r)]
    BY <1>8, <2>1, ConcatProperties
  <2>3. m + 2 - (m + 1) = 1 /\ m + 3 - (m + 1) = 2
    BY <1>1
  <2>4. s[m + 2] = t[1] /\ s[m + 3] = t[2]
    BY <1>1, <1>8, <2>1, <2>2, <2>3
  <2>. QED
    BY <1>1, <1>8, <2>1, <2>2, <2>4
<1>. HIDE DEF s
<1>10. /\ w \in Seq(W) /\ Len(w) = m + 5
      /\ \A i \in 1..(m + 3) : w[i] = s[i]
      /\ w[m + 4] = Root /\ w[m + 5] = Tip(b)
  <2> DEFINE t == <<Root, Tip(b)>>
  <2>1. t \in Seq(W) /\ Len(t) = 2 /\ t[1] = Root /\ t[2] = Tip(b)
    BY <1>5
  <2>2. /\ w \in Seq(W) /\ Len(w) = Len(s) + Len(t)
        /\ \A i \in 1..(Len(s) + Len(t)) : w[i] = IF i <= Len(s) THEN s[i] ELSE t[i - Len(s)]
    BY <1>9, <2>1, ConcatProperties
  <2>. HIDE DEF t, w
  <2>3. PICK l : l = m + 3
    OBVIOUS
  <2>4. /\ m \in Nat /\ l \in Nat /\ l + 1 = m + 4 /\ l + 2 = m + 5
        /\ Len(s) = l /\ Len(t) = 2
    BY <1>1, <1>9, <2>1, <2>3
  <2>5. /\ w \in Seq(W) /\ Len(w) = l + 2
        /\ \A i \in 1..(l + 2) : w[i] = IF i <= l THEN s[i] ELSE t[i - l]
    BY <2>2, <2>4
  <2>6. /\ l + 1 \in 1..(l + 2) /\ ~(l + 1 <= l) /\ (l + 1) - l = 1
        /\ l + 2 \in 1..(l + 2) /\ ~(l + 2 <= l) /\ (l + 2) - l = 2
        /\ \A i \in 1..l : i \in 1..(l + 2) /\ i <= l
    BY <2>4
  <2>7. w[l + 1] = t[1] /\ w[l + 2] = t[2] /\ \A i \in 1..l : w[i] = s[i]
    BY <2>5, <2>6
  <2>. QED
    BY <2>1, <2>3, <2>4, <2>5, <2>7
<1>. HIDE DEF w
<1> DEFINE n == m + 1
<1>11. n \in Nat \ {0} /\ n + 4 = m + 5 /\ n + 1 = m + 2 /\ n + 2 = m + 3 /\ n + 3 = m + 4
  BY <1>1
<1>12. \A i \in 1..n : w[i].op = "credit" /\ w[i].to \in Address
  BY <1>1, <1>8, <1>9, <1>10
<1>13. w[n + 1] = ByHash(b) /\ w[n + 2] = ByHeight(b)
  BY <1>1, <1>9, <1>10, <1>11
<1>14. n = Len(Given) /\ \A i \in 1..n : w[i] = Credit(Given[i])
  BY <1>1, <1>8, <1>9, <1>10, <1>7
<1>. HIDE DEF n
<1>15. IsGenesisCall(w, n, b, W)
  BY <1>2, <1>10, <1>11, <1>12, <1>13, <1>14 DEF IsGenesisCall
<1>. QED
  BY <1>15

\* The writes of an accepted block: the block, its height, its transactions
\* in pairs, and, when all of them could be saved, the tip.
LEMMA BlockCall ==
    ASSUME NEW b, NEW S, NEW txs \in Seq(S)
    PROVE  \E W, w : \E n \in 0..Len(txs) :
              /\ w = save_block(b) \o save_block_transactions(txs)
                       \o (IF AllHashed(txs) THEN <<Tip(b)>> ELSE <<>>)
              /\ w \in Seq(W)
              /\ Len(w) = IF AllHashed(txs) THEN 2 * n + 3 ELSE 2 * n + 2
              /\ w[1] = ByHash(b)
              /\ w[2] = ByHeight(b)
              /\ \A i \in 1..n : /\ txs[i].hash # EmptyHash
                                 /\ w[2 * i + 1] = Record(hash_key(txs[i].hash), txs[i])
                                 /\ w[2 * i + 2] = Record(sender_key(txs[i]), txs[i].hash)
              /\ AllHashed(txs) => n = Len(txs) /\ w[2 * n + 3] = Tip(b)
<1> DEFINE n == savable(txs)
           t == save_block(b)
<1>1. PICK V, v : /\ v = save_block_transactions(txs)
                  /\ v \in Seq(V)
                  /\ Len(v) = 2 * n
                  /\ \A i \in 1..n :
                       /\ v[2 * i - 1] = Record(hash_key(txs[i].hash), txs[i])
                       /\ v[2 * i] = Record(sender_key(txs[i]), txs[i].hash)
  BY TransactionWrites
<1>2. /\ n \in 0..Len(txs) /\ Len(txs) \in Nat
      /\ \A i \in 1..n : txs[i].hash # EmptyHash
      /\ AllHashed(txs) => n = Len(txs)
  BY SavablePrefix
<1>. HIDE DEF n
<1> DEFINE W == V \cup {ByHash(b), ByHeight(b), Tip(b)}
           s == t \o v
           e == IF AllHashed(txs) THEN <<Tip(b)>> ELSE <<>>
           w == s \o e
<1>3. v \in Seq(W)
  BY <1>1
<1>4. t \in Seq(W) /\ Len(t) = 2 /\ t[1] = ByHash(b) /\ t[2] = ByHeight(b)
  BY DEF save_block
<1>5. /\ e \in Seq(W)
      /\ Len(e) = IF AllHashed(txs) THEN 1 ELSE 0
      /\ AllHashed(txs) => e[1] = Tip(b)
  <2>1. Tip(b) \in W
    OBVIOUS
  <2>. HIDE DEF W
  <2>2. CASE AllHashed(txs)
    BY <2>1, <2>2
  <2>3. CASE ~AllHashed(txs)
    BY <2>3
  <2>. QED
    BY <2>2, <2>3
<1>6. w = save_block(b) \o save_block_transactions(txs)
            \o (IF AllHashed(txs) THEN <<Tip(b)>> ELSE <<>>)
  BY <1>1
<1>. HIDE DEF W, t, e
<1>7. /\ s \in Seq(W) /\ Len(s) = Len(t) + Len(v)
      /\ \A i \in 1..(Len(t) + Len(v)) : s[i] = IF i <= Len(t) THEN t[i] ELSE v[i - Len(t)]
  BY <1>3, <1>4, ConcatProperties
<1>. HIDE DEF s
<1>8. /\ w \in Seq(W) /\ Len(w) = Len(s) + Len(e)
      /\ \A i \in 1..(Len(s) + Len(e)) : w[i] = IF i <= Len(s) THEN s[i] ELSE e[i - Len(s)]
  <2>1. e \in Seq(W) /\ s \in Seq(W)
    BY <1>5, <1>7
  <2>. QED
    BY <2>1, ConcatProperties
<1>. HIDE DEF w
<1>9. Len(s) = 2 * n + 2 /\ \A i \in 1..(2 * n + 2) : w[i] = s[i]
  BY <1>1, <1>2, <1>4, <1>5, <1>7, <1>8
<1>10. Len(w) = IF AllHashed(txs) THEN 2 * n + 3 ELSE 2 * n + 2
  BY <1>2, <1>5, <1>8, <1>9
<1>11. w[1] = ByHash(b) /\ w[2] = ByHeight(b)
  BY <1>1, <1>2, <1>4, <1>7, <1>9
<1>12. ASSUME NEW i \in 1..n
       PROVE  /\ w[2 * i + 1] = Record(hash_key(txs[i].hash), txs[i])
              /\ w[2 * i + 2] = Record(sender_key(txs[i]), txs[i].hash)
  <2>1. /\ 2 * i + 1 \in 1..(2 * n + 2) /\ 2 * i + 1 - 2 = 2 * i - 1 /\ ~(2 * i + 1 <= 2)
        /\ 2 * i + 2 \in 1..(2 * n + 2) /\ 2 * i + 2 - 2 = 2 * i /\ ~(2 * i + 2 <= 2)
    BY <1>2
  <2>2. s[2 * i + 1] = v[2 * i - 1] /\ s[2 * i + 2] = v[2 * i]
    BY <2>1, <1>1, <1>2, <1>4, <1>7
  <2>. QED
    BY <2>1, <2>2, <1>1, <1>9
<1>13. AllHashed(txs) => w[2 * n + 3] = Tip(b)
  <2>1. 2 * n + 3 - (2 * n + 2) = 1 /\ ~(2 * n + 3 <= 2 * n + 2)
    BY <1>2
  <2>. QED
    BY <2>1, <1>2, <1>5, <1>8, <1>9
<1>. QED
  BY <1>2, <1>6, <1>8, <1>10, <1>11, <1>12, <1>13

-----------------------------------------------------------------------------
\* The steps that change no tree a reader of blocks and transactions sees.
LEMMA StoresUnchanged ==
    ASSUME Trees, UNCHANGED <<blocks_by_height, transactions, chain_tip>>,
           \A h : get_block_by_height(h)' = get_block_by_height(h),
           BlocksUnderHash', RootOfAccounts'
    PROVE  Trees'
<1>1. TransactionsUnderHash' /\ OneTip'
  BY DEF Trees, TransactionsUnderHash, OneTip
<1>2. \A h : get_transaction(h)' = get_transaction(h)
  BY DEF get_transaction
<1>3. OnChain' = OnChain
  BY DEF OnChain
<1>4. verify_genesis_integrity' = verify_genesis_integrity
  BY DEF verify_genesis_integrity
<1>5. HeightIndexResolves'
  BY DEF Trees, HeightIndexResolves
<1>6. SenderIndexResolves'
  BY <1>2 DEF Trees, SenderIndexResolves
<1>7. TipHeadsChain'
  BY <1>4 DEF Trees, TipHeadsChain
<1>8. OnChainFound' /\ OnChainHashed'
  BY <1>2, <1>3 DEF Trees, OnChainFound, OnChainHashed
<1>. QED
  BY <1>1, <1>5, <1>6, <1>7, <1>8 DEF Trees

\* The steps in which no tree changes.
LEMMA TreesUnchanged ==
    ASSUME Sequence, Trees, UNCHANGED trees, mined' \in Nat, mined <= mined'
    PROVE  Trees'
<1>0. /\ UNCHANGED accounts /\ UNCHANGED blocks_by_hash /\ UNCHANGED blocks_by_height
      /\ UNCHANGED transactions /\ UNCHANGED state_root /\ UNCHANGED chain_tip
  BY DEF trees
<1>1. BlocksUnderHash'
  BY <1>0, StoreBoundsAssumption DEF Sequence, Trees, BlocksUnderHash
<1>2. RootOfAccounts'
  BY <1>0 DEF Trees, RootOfAccounts
<1>3. \A h : get_block_by_height(h)' = get_block_by_height(h)
  BY <1>0 DEF get_block_by_height
<1>. QED
  BY <1>0, <1>1, <1>2, <1>3, StoresUnchanged

\* With nothing left to write there is nothing to plan.
LEMMA NothingPlanned ==
    ASSUME DOMAIN todo' = {}
    PROVE  Plan'
  BY DEF Plan, GenesisWrites, ByHashFresh, OfNextBlock, HeightAfterBlock, TipLast,
         RootAfterCredits, HashRecords, IndexAfterRecord, BodyBeforeTip

\* A call that ends, or is stopped, leaves the trees as they are and nothing to
\* write.
LEMMA CallEnds ==
    ASSUME StoreInv, todo' = <<>>, UNCHANGED trees, mined' = mined
    PROVE  StoreInv'
<1>1. todo' = <<>> /\ UNCHANGED trees /\ mined' = mined
  OBVIOUS
<1>2. DOMAIN todo' = {} /\ todo' \in Seq(Range(todo'))
  BY <1>1
<1>3. Sequence'
  BY <1>1, <1>2 DEF StoreInv, Sequence, trees
<1>4. mined' \in Nat /\ mined <= mined'
  BY <1>1, StoreBoundsAssumption DEF StoreInv, Sequence
<1>. QED
  BY <1>1, <1>2, <1>3, <1>4, NothingPlanned, TreesUnchanged DEF StoreInv

\* initialize_chain plans the genesis writes.
LEMMA InitializeStep ==
    ASSUME StoreInv, initialize_chain
    PROVE  StoreInv'
<1> DEFINE h == mined + 1
<1>0. PICK b : b = produce_genesis_block(h)
  OBVIOUS
<1>1. /\ todo = <<>> /\ chain_tip = {} /\ mined < MaxHash /\ mined' = h
      /\ todo' = initialize_writes(b) /\ UNCHANGED trees /\ chain_tip' = {}
  BY <1>0 DEF initialize_chain, trees
<1>2. mined \in Nat /\ h \in 1..MaxHash /\ MaxHash \in Nat
  BY <1>1, StoreBoundsAssumption DEF StoreInv, Sequence
<1>3. /\ b.hash = h /\ b.index = 0 /\ b.previous_hash = 0 /\ b.body = <<>>
      /\ b.is_epoch_block /\ b.producer = GENESIS_MINER
  BY <1>0 DEF produce_genesis_block
<1>4. PICK w, n, W : IsGenesisCall(w, n, b, W)
  BY GenesisCall
<1>5. /\ todo' = w
      /\ w \in Seq(W)
      /\ n \in Nat \ {0}
      /\ Len(w) = n + 4
      /\ \A i \in 1..n : w[i].op = "credit" /\ w[i].to \in Address
      /\ w[n + 1] = ByHash(b)
      /\ w[n + 2] = ByHeight(b)
      /\ w[n + 3] = Root
      /\ w[n + 4] = Tip(b)
  BY <1>1, <1>4 DEF IsGenesisCall
<1>6. w \in Seq(Range(w)) /\ DOMAIN w = 1..(n + 4)
  BY <1>5, SeqOfRange
<1>7. /\ w[n + 1].op = "by_hash" /\ w[n + 2].op = "by_height" /\ w[n + 3].op = "state_root"
      /\ w[n + 4].op = "chain_tip" /\ w[n + 1].block = b /\ w[n + 2].block = b /\ w[n + 4].block = b
  BY <1>5 DEF ByHash, ByHeight, Root, Tip
<1>8. \A i \in 1..(n + 4) : i \in 1..n \/ i = n + 1 \/ i = n + 2 \/ i = n + 3 \/ i = n + 4
  BY <1>5
<1>9. /\ \A i \in 1..(n + 4) : w[i].op = "credit" => i \in 1..n
      /\ \A i \in 1..(n + 4) : w[i].op = "by_hash" => i = n + 1
      /\ \A i \in 1..(n + 4) : w[i].op = "by_height" => i = n + 2
      /\ \A i \in 1..(n + 4) : w[i].op = "state_root" => i = n + 3
      /\ \A i \in 1..(n + 4) : w[i].op = "chain_tip" => i = n + 4
      /\ \A i \in 1..(n + 4) : w[i].op # "transactions"
  BY <1>5, <1>7, <1>8
<1>10. Sequence'
  BY <1>1, <1>2, <1>5, <1>6 DEF StoreInv, Sequence, trees
<1>11. Trees'
  <2>1. Sequence /\ Trees /\ mined' \in Nat /\ mined <= mined'
    BY <1>1, <1>2 DEF StoreInv
  <2>. QED
    BY <1>1, <2>1, TreesUnchanged
<1>12. GenesisWrites'
  BY <1>1, <1>5, <1>6, <1>9 DEF GenesisWrites
<1>13. ByHashFresh'
  <2>1. mined' \notin DOMAIN blocks_by_hash'
    BY <1>1, <1>2 DEF StoreInv, Trees, BlocksUnderHash, trees
  <2>. QED
    BY <2>1, <1>5, <1>6, <1>9 DEF ByHashFresh
<1>14. NextBlock(b)'
  BY <1>1, <1>2, <1>3 DEF NextBlock
<1>15. OfNextBlock'
  <2>1. \A i \in DOMAIN todo' : todo'[i].op \in BlockOps => todo'[i].block = b
    BY <1>5, <1>6, <1>7, <1>9 DEF BlockOps
  <2>. QED
    BY <2>1, <1>14 DEF OfNextBlock, NextBlock
<1>16. HeightAfterBlock'
  <2>1. n + 2 # 1 /\ n + 2 - 1 = n + 1
    BY <1>5
  <2>. QED
    BY <2>1, <1>5, <1>6, <1>7, <1>9 DEF HeightAfterBlock
<1>17. TipLast'
  <2>1. n + 2 \in 1..(n + 4 - 1)
    BY <1>5
  <2>. QED
    BY <2>1, <1>5, <1>6, <1>7, <1>9 DEF TipLast
<1>18. RootAfterCredits'
  <2>1. n + 3 \in 1..(n + 4 - 1) /\ \A k \in 1..n : k < n + 3
    BY <1>5
  <2>. QED
    BY <2>1, <1>5, <1>6, <1>7, <1>9 DEF RootAfterCredits
<1>19. HashRecords' /\ IndexAfterRecord'
  BY <1>5, <1>6, <1>9 DEF HashRecords, IndexAfterRecord
<1>20. BodyBeforeTip'
  <2>1. Range(b.body) = {}
    BY <1>3 DEF Range
  <2>. QED
    BY <2>1, <1>5, <1>6, <1>7, <1>9 DEF BodyBeforeTip
<1>. QED
  BY <1>10, <1>11, <1>12, <1>13, <1>15, <1>16, <1>17, <1>18, <1>19, <1>20 DEF StoreInv, Plan

\* The transactions of a body: a sequence, and those with a hash have that of
\* their fields.
LEMMA TransactionsHashed ==
    ASSUME NEW body \in Bodies
    PROVE  \E txs : /\ txs = Transactions(body)
                    /\ txs \in Seq(Range(txs))
                    /\ \A i \in DOMAIN txs : txs[i].hash # EmptyHash => Hashed(txs[i])
<1> DEFINE nonce(i) == Cardinality({tx \in OnChain : tx.sender = body[i].sender})
                         + Cardinality({j \in 1..(i - 1) : body[j].sender = body[i].sender})
           tx(i) == [sender |-> body[i].sender, nonce |-> nonce(i), fee |-> body[i].fee,
                     hash |-> IF body[i].hashed THEN <<body[i].sender, nonce(i), body[i].fee>>
                              ELSE EmptyHash]
           txs == Transactions(body)
<1>1. body \in Seq([sender : Address, fee : U64, hashed : BOOLEAN])
  BY AllocationsAssumption
<1>2. Len(body) \in Nat /\ DOMAIN body = 1..Len(body)
  BY <1>1
<1>3. txs = [i \in DOMAIN body |-> tx(i)]
  BY DEF Transactions
<1>. HIDE DEF nonce
<1>4. \A i \in DOMAIN body : tx(i).hash # EmptyHash => Hashed(tx(i))
  BY DEF Hashed
<1>. HIDE DEF tx, txs
<1>5. txs \in Seq({tx(i) : i \in 1..Len(body)})
  BY <1>2, <1>3
<1>6. \A i \in DOMAIN txs : txs[i].hash # EmptyHash => Hashed(txs[i])
  BY <1>3, <1>4
<1>. QED
  BY <1>5, <1>6, SeqOfRange DEF txs

\* w is the call of an accepted block b with transactions txs: the block, its
\* height, the first n transactions in pairs, and, when they are all, the tip.
IsBlockCall(w, n, b, txs) ==
    /\ txs \in Seq(Range(txs)) /\ DOMAIN txs = 1..Len(txs) /\ Len(txs) \in Nat
    /\ n \in Nat /\ n <= Len(txs)
    /\ \A i \in DOMAIN txs : txs[i].hash # EmptyHash => Hashed(txs[i])
    /\ w \in Seq(Range(w)) /\ DOMAIN w = 1..Len(w)
    /\ Len(w) = 2 * n + 2 \/ Len(w) = 2 * n + 3
    /\ Len(w) = 2 * n + 3 => AllHashed(txs)
    /\ AllHashed(txs) => Len(w) = 2 * n + 3
    /\ w[1] = ByHash(b)
    /\ w[2] = ByHeight(b)
    /\ \A i \in 1..n : /\ txs[i].hash # EmptyHash
                       /\ w[2 * i + 1] = Record(hash_key(txs[i].hash), txs[i])
                       /\ w[2 * i + 2] = Record(sender_key(txs[i]), txs[i].hash)
    /\ AllHashed(txs) => n = Len(txs) /\ w[2 * n + 3] = Tip(b)

\* The step accepts b, with the transactions of body, on top of tip.
Accepts(tip, body, txs, b, w, n) ==
    /\ tip \in chain_tip /\ body \in Bodies
    /\ txs = Transactions(body)
    /\ b = [index |-> tip.index + 1, hash |-> mined + 1, previous_hash |-> tip.hash,
           is_epoch_block |-> FALSE, producer |-> Miner, body |-> txs]
    /\ IsBlockCall(w, n, b, txs)
    /\ mined < MaxHash /\ mined' = mined + 1 /\ UNCHANGED trees
    /\ todo' = w

\* So does every step of AcceptBlock.
LEMMA AcceptPlan ==
    ASSUME AcceptBlock
    PROVE  \E tip, body, txs, b, w, n : Accepts(tip, body, txs, b, w, n)
<1>1. PICK tip \in chain_tip, body \in Bodies :
        LET txs == Transactions(body)
            b == [index |-> tip.index + 1, hash |-> mined + 1, previous_hash |-> tip.hash,
                  is_epoch_block |-> FALSE, producer |-> Miner, body |-> txs]
        IN
        /\ todo = <<>>
        /\ mined < MaxHash
        /\ mined' = mined + 1
        /\ todo' = save_block(b) \o save_block_transactions(txs)
                     \o (IF AllHashed(txs) THEN <<Tip(b)>> ELSE <<>>)
        /\ UNCHANGED <<trees, crashes>>
  BY DEF AcceptBlock
<1>2. PICK txs : /\ txs = Transactions(body)
                 /\ txs \in Seq(Range(txs))
                 /\ \A i \in DOMAIN txs : txs[i].hash # EmptyHash => Hashed(txs[i])
  BY TransactionsHashed
<1>3. PICK b : b = [index |-> tip.index + 1, hash |-> mined + 1, previous_hash |-> tip.hash,
                    is_epoch_block |-> FALSE, producer |-> Miner, body |-> txs]
  OBVIOUS
<1>4. /\ mined < MaxHash /\ mined' = mined + 1 /\ UNCHANGED trees
      /\ todo' = save_block(b) \o save_block_transactions(txs)
                   \o (IF AllHashed(txs) THEN <<Tip(b)>> ELSE <<>>)
  BY <1>1, <1>2, <1>3
<1>5. PICK W, w : \E n \in 0..Len(txs) :
              /\ w = save_block(b) \o save_block_transactions(txs)
                       \o (IF AllHashed(txs) THEN <<Tip(b)>> ELSE <<>>)
              /\ w \in Seq(W)
              /\ Len(w) = IF AllHashed(txs) THEN 2 * n + 3 ELSE 2 * n + 2
              /\ w[1] = ByHash(b)
              /\ w[2] = ByHeight(b)
              /\ \A i \in 1..n : /\ txs[i].hash # EmptyHash
                                 /\ w[2 * i + 1] = Record(hash_key(txs[i].hash), txs[i])
                                 /\ w[2 * i + 2] = Record(sender_key(txs[i]), txs[i].hash)
              /\ AllHashed(txs) => n = Len(txs) /\ w[2 * n + 3] = Tip(b)
  <2>1. txs \in Seq(Range(txs))
    BY <1>2
  <2>. QED
    BY <2>1, BlockCall, Zenon
<1>6. PICK n \in 0..Len(txs) :
              /\ w \in Seq(W)
              /\ Len(w) = IF AllHashed(txs) THEN 2 * n + 3 ELSE 2 * n + 2
              /\ w[1] = ByHash(b)
              /\ w[2] = ByHeight(b)
              /\ \A i \in 1..n : /\ txs[i].hash # EmptyHash
                                 /\ w[2 * i + 1] = Record(hash_key(txs[i].hash), txs[i])
                                 /\ w[2 * i + 2] = Record(sender_key(txs[i]), txs[i].hash)
              /\ AllHashed(txs) => n = Len(txs) /\ w[2 * n + 3] = Tip(b)
  BY <1>5
<1>7. todo' = w
  BY <1>4, <1>5
<1>8. DOMAIN txs = 1..Len(txs) /\ Len(txs) \in Nat /\ n \in Nat /\ n <= Len(txs)
  <2>1. DOMAIN txs = 1..Len(txs) /\ Len(txs) \in Nat
    BY <1>2
  <2>. QED
    BY <2>1, <1>6
<1>8a. /\ Len(w) = 2 * n + 2 \/ Len(w) = 2 * n + 3
       /\ Len(w) = 2 * n + 3 => AllHashed(txs)
       /\ AllHashed(txs) => Len(w) = 2 * n + 3
  <2>1. Len(w) = IF AllHashed(txs) THEN 2 * n + 3 ELSE 2 * n + 2
    BY <1>6
  <2>2. 2 * n + 3 # 2 * n + 2
    BY <1>8
  <2>. QED
    BY <2>1, <2>2
<1>9. w \in Seq(Range(w)) /\ DOMAIN w = 1..Len(w)
  BY <1>6, SeqOfRange
<1>10. IsBlockCall(w, n, b, txs)
  BY <1>2, <1>6, <1>8, <1>8a, <1>9 DEF IsBlockCall
<1>11. Accepts(tip, body, txs, b, w, n)
  BY <1>2, <1>3, <1>4, <1>7, <1>10 DEF Accepts
<1>. QED
  BY <1>11

\* What each write of the call is.
LEMMA BlockWrites ==
    ASSUME NEW w, NEW n, NEW b, NEW txs, IsBlockCall(w, n, b, txs)
    PROVE  /\ w[1].op = "by_hash" /\ w[1].block = b /\ w[2].op = "by_height" /\ w[2].block = b
           /\ 1 \in 1..Len(w) /\ 2 \in 1..Len(w)
           /\ \A i \in 1..n :
                /\ w[2 * i + 1].op = "transactions" /\ w[2 * i + 1].value = txs[i]
                /\ w[2 * i + 1].key = hash_key(txs[i].hash) /\ w[2 * i + 1].key[1] = "hash"
                /\ w[2 * i + 2].op = "transactions" /\ w[2 * i + 2].value = txs[i].hash
                /\ w[2 * i + 2].key = sender_key(txs[i]) /\ w[2 * i + 2].key[1] = "sender"
                /\ Hashed(txs[i])
           /\ \A i \in 1..Len(w) :
                /\ w[i].op \notin {"credit", "state_root"}
                /\ w[i].op = "by_hash" => i = 1
                /\ w[i].op = "by_height" => i = 2
                /\ w[i].op = "chain_tip" => AllHashed(txs) /\ i = Len(w) /\ i = 2 * n + 3
                /\ w[i].op \in BlockOps => w[i].block = b
                /\ w[i].op = "transactions" => \/ \E j \in 1..n : i = 2 * j + 1
                                               \/ \E j \in 1..n : i = 2 * j + 2
<1>2. \A i \in DOMAIN txs : txs[i].hash # EmptyHash => Hashed(txs[i])
  BY DEF IsBlockCall
<1>6. /\ w[1] = ByHash(b) /\ w[2] = ByHeight(b)
      /\ \A i \in 1..n : /\ txs[i].hash # EmptyHash
                         /\ w[2 * i + 1] = Record(hash_key(txs[i].hash), txs[i])
                         /\ w[2 * i + 2] = Record(sender_key(txs[i]), txs[i].hash)
      /\ AllHashed(txs) => n = Len(txs) /\ w[2 * n + 3] = Tip(b)
  BY DEF IsBlockCall
<1>8. DOMAIN txs = 1..Len(txs) /\ Len(txs) \in Nat /\ n \in Nat /\ n <= Len(txs)
  BY DEF IsBlockCall
<1>8a. /\ Len(w) = 2 * n + 2 \/ Len(w) = 2 * n + 3
       /\ Len(w) = 2 * n + 3 => AllHashed(txs)
       /\ AllHashed(txs) => Len(w) = 2 * n + 3
  BY DEF IsBlockCall
<1>15. /\ w[1].op = "by_hash" /\ w[1].block = b /\ w[2].op = "by_height" /\ w[2].block = b
       /\ 1 \in 1..Len(w) /\ 2 \in 1..Len(w)
  <2>1. 1 \in 1..Len(w) /\ 2 \in 1..Len(w)
    BY <1>8, <1>8a
  <2>2. w[1] = ByHash(b) /\ w[2] = ByHeight(b)
    BY <1>6
  <2>. QED
    BY <2>1, <2>2 DEF ByHash, ByHeight
<1>16. ASSUME NEW i \in 1..n
       PROVE  /\ w[2 * i + 1].op = "transactions" /\ w[2 * i + 1].value = txs[i]
              /\ w[2 * i + 1].key = hash_key(txs[i].hash) /\ w[2 * i + 1].key[1] = "hash"
              /\ w[2 * i + 2].op = "transactions" /\ w[2 * i + 2].value = txs[i].hash
              /\ w[2 * i + 2].key = sender_key(txs[i]) /\ w[2 * i + 2].key[1] = "sender"
              /\ Hashed(txs[i])
  <2>1. /\ w[2 * i + 1] = Record(hash_key(txs[i].hash), txs[i])
        /\ w[2 * i + 2] = Record(sender_key(txs[i]), txs[i].hash)
    BY <1>6
  <2>2. Hashed(txs[i])
    <3>1. i \in DOMAIN txs
      BY <1>8
    <3>2. txs[i].hash # EmptyHash
      BY <1>6
    <3>. QED
      BY <1>2, <3>1, <3>2
  <2>3. hash_key(txs[i].hash)[1] = "hash" /\ sender_key(txs[i])[1] = "sender"
    BY DEF hash_key, sender_key
  <2>. QED
    BY <2>1, <2>2, <2>3 DEF Record
<1>17. AllHashed(txs) => w[2 * n + 3].op = "chain_tip" /\ w[2 * n + 3].block = b
  BY <1>6 DEF Tip
<1>18. ASSUME NEW i \in 1..Len(w)
       PROVE  \/ i = 1
              \/ i = 2
              \/ \E j \in 1..n : i = 2 * j + 1
              \/ \E j \in 1..n : i = 2 * j + 2
              \/ AllHashed(txs) /\ i = Len(w) /\ i = 2 * n + 3
  <2>1. i = 1 \/ i = 2 \/ i = 2 * n + 3 \/ i \in 3..(2 * n + 2)
    BY <1>8, <1>8a
  <2>2. i = 2 * n + 3 => AllHashed(txs) /\ i = Len(w)
    BY <1>8, <1>8a
  <2>3. CASE i \in 3..(2 * n + 2)
    <3> DEFINE j == (i - 1) \div 2
    <3>1. j \in 1..n /\ (i = 2 * j + 1 \/ i = 2 * j + 2)
      BY <2>3, <1>8
    <3>. QED
      BY <3>1
  <2>. QED
    BY <2>1, <2>2, <2>3
<1>19. ASSUME NEW i \in 1..Len(w)
       PROVE  /\ w[i].op \notin {"credit", "state_root"}
              /\ w[i].op = "by_hash" => i = 1
              /\ w[i].op = "by_height" => i = 2
              /\ w[i].op = "chain_tip" => AllHashed(txs) /\ i = Len(w) /\ i = 2 * n + 3
              /\ w[i].op \in BlockOps => w[i].block = b
  BY <1>15, <1>16, <1>17, <1>18 DEF BlockOps
<1>20. ASSUME NEW i \in 1..Len(w), w[i].op = "transactions"
       PROVE  \/ \E j \in 1..n : i = 2 * j + 1
              \/ \E j \in 1..n : i = 2 * j + 2
  BY <1>15, <1>17, <1>18, <1>20
<1>. QED
  BY <1>15, <1>16, <1>19, <1>20

\* An accepted block plans its writes.
LEMMA AcceptStep ==
    ASSUME StoreInv, AcceptBlock
    PROVE  StoreInv'
<1>1. PICK tip, body, txs, b, w, n : Accepts(tip, body, txs, b, w, n)
  BY AcceptPlan
<1>3. b = [index |-> tip.index + 1, hash |-> mined + 1, previous_hash |-> tip.hash,
           is_epoch_block |-> FALSE, producer |-> Miner, body |-> txs]
  BY <1>1 DEF Accepts
<1>4. mined < MaxHash /\ mined' = mined + 1 /\ UNCHANGED trees /\ tip \in chain_tip
  BY <1>1 DEF Accepts
<1>5. IsBlockCall(w, n, b, txs)
  BY <1>1 DEF Accepts
<1>7. todo' = w
  BY <1>1 DEF Accepts
<1>8. DOMAIN txs = 1..Len(txs) /\ Len(txs) \in Nat /\ n \in Nat /\ n <= Len(txs)
  BY <1>5 DEF IsBlockCall
<1>9. w \in Seq(Range(w)) /\ DOMAIN w = 1..Len(w)
  BY <1>5 DEF IsBlockCall
<1>10. b.hash = mined + 1 /\ b.index = tip.index + 1 /\ b.previous_hash = tip.hash /\ b.body = txs
  BY <1>3
<1>11. mined \in Nat /\ mined + 1 \in 1..MaxHash /\ mined' \in Nat /\ mined <= mined'
  BY <1>4, StoreBoundsAssumption DEF StoreInv, Sequence
<1>12. chain_tip' = {tip} /\ chain_tip = {tip}
  BY <1>4 DEF StoreInv, Trees, OneTip, trees
<1>13. Sequence'
  <2>1. mined' \in 0..MaxHash
    BY <1>4, <1>11, StoreBoundsAssumption
  <2>2. todo' \in Seq(Range(todo'))
    BY <1>7, <1>9, Zenon
  <2>. QED
    BY <2>1, <2>2, <1>4 DEF StoreInv, Sequence, trees
<1>14. Trees'
  BY <1>4, <1>11, TreesUnchanged DEF StoreInv
<1>15. /\ w[1].op = "by_hash" /\ w[1].block = b /\ w[2].op = "by_height" /\ w[2].block = b
       /\ 1 \in 1..Len(w) /\ 2 \in 1..Len(w)
  BY <1>5, BlockWrites
<1>16. ASSUME NEW i \in 1..n
       PROVE  /\ w[2 * i + 1].op = "transactions" /\ w[2 * i + 1].value = txs[i]
              /\ w[2 * i + 1].key = hash_key(txs[i].hash) /\ w[2 * i + 1].key[1] = "hash"
              /\ w[2 * i + 2].op = "transactions" /\ w[2 * i + 2].value = txs[i].hash
              /\ w[2 * i + 2].key = sender_key(txs[i]) /\ w[2 * i + 2].key[1] = "sender"
              /\ Hashed(txs[i])
  BY <1>5, BlockWrites
<1>17. AllHashed(txs) => n = Len(txs)
  BY <1>5 DEF IsBlockCall
<1>19. ASSUME NEW i \in 1..Len(w)
       PROVE  /\ w[i].op \notin {"credit", "state_root"}
              /\ w[i].op = "by_hash" => i = 1
              /\ w[i].op = "by_height" => i = 2
              /\ w[i].op = "chain_tip" => AllHashed(txs) /\ i = Len(w) /\ i = 2 * n + 3
              /\ w[i].op \in BlockOps => w[i].block = b
  BY <1>5, BlockWrites
<1>20. GenesisWrites'
  BY <1>7, <1>9, <1>19 DEF GenesisWrites
<1>21. ByHashFresh'
  <2>1. mined' \notin DOMAIN blocks_by_hash'
    BY <1>4, <1>11 DEF StoreInv, Trees, BlocksUnderHash, trees
  <2>. QED
    BY <2>1, <1>7, <1>9, <1>19 DEF ByHashFresh
<1>22. OfNextBlock'
  <2>1. NextBlock(b)'
    BY <1>4, <1>10, <1>11, <1>12 DEF NextBlock
  <2>. QED
    BY <2>1, <1>7, <1>9, <1>19 DEF OfNextBlock, NextBlock
<1>23. HeightAfterBlock'
  <2>1. \A i \in 1..Len(w) : w[i].op = "by_height" =>
             i # 1 /\ w[i - 1].op = "by_hash" /\ w[i - 1].block = w[i].block
    BY <1>15, <1>19
  <2>. QED
    BY <2>1, <1>7, <1>9 DEF HeightAfterBlock
<1>24. TipLast'
  <2>1. 2 \in 1..(2 * n + 3 - 1)
    BY <1>8
  <2>2. \A i \in 1..Len(w) : w[i].op = "chain_tip" =>
             i = Len(w) /\ 2 \in 1..(i - 1) /\ w[2].op = "by_height" /\ w[2].block = w[i].block
    BY <2>1, <1>15, <1>19 DEF BlockOps
  <2>. QED
    BY <2>2, <1>7, <1>9 DEF TipLast
<1>25. RootAfterCredits'
  BY <1>12 DEF RootAfterCredits
<1>26. ASSUME NEW i \in 1..Len(w), w[i].op = "transactions"
       PROVE  \/ \E j \in 1..n : i = 2 * j + 1
              \/ \E j \in 1..n : i = 2 * j + 2
  BY <1>5, <1>26, BlockWrites
<1>27. HashRecords'
  <2>1. ASSUME NEW i \in 1..Len(w), w[i].op = "transactions"
        PROVE  \/ w[i].key[1] = "sender"
               \/ w[i].key = hash_key(w[i].value.hash) /\ Hashed(w[i].value)
    <3>1. ASSUME NEW j \in 1..n, i = 2 * j + 1
          PROVE  w[i].key = hash_key(w[i].value.hash) /\ Hashed(w[i].value)
      <4>1. /\ w[2 * j + 1].value = txs[j] /\ w[2 * j + 1].key = hash_key(txs[j].hash)
            /\ Hashed(txs[j])
        BY <1>16
      <4>. QED
        BY <3>1, <4>1
    <3>2. ASSUME NEW j \in 1..n, i = 2 * j + 2
          PROVE  w[i].key[1] = "sender"
      BY <3>2, <1>16, Zenon
    <3>. QED
      BY <3>1, <3>2, <2>1, <1>26
  <2>. QED
    BY <2>1, <1>7, <1>9 DEF HashRecords
<1>28. IndexAfterRecord'
  <2>1. ASSUME NEW i \in 1..Len(w), w[i].op = "transactions", w[i].key[1] = "sender"
        PROVE  /\ i # 1
               /\ w[i - 1].op = "transactions"
               /\ w[i - 1].key = hash_key(w[i].value)
               /\ sender_key(w[i - 1].value) = w[i].key
    <3>1. PICK j \in 1..n : i = 2 * j + 2
      <4>1. ASSUME NEW j \in 1..n, i = 2 * j + 1
            PROVE  FALSE
        BY <4>1, <2>1, <1>16
      <4>. QED
        BY <4>1, <2>1, <1>26
    <3>2. i - 1 = 2 * j + 1 /\ i # 1
      BY <3>1
    <3>3. /\ w[2 * j + 1].op = "transactions" /\ w[2 * j + 1].value = txs[j]
          /\ w[2 * j + 1].key = hash_key(txs[j].hash)
          /\ w[2 * j + 2].value = txs[j].hash /\ w[2 * j + 2].key = sender_key(txs[j])
      BY <1>16
    <3>. QED
      BY <3>1, <3>2, <3>3
  <2>. QED
    BY <2>1, <1>7, <1>9 DEF IndexAfterRecord
<1>29. BodyBeforeTip'
  <2>1. ASSUME NEW i \in 1..Len(w), w[i].op = "chain_tip", NEW tx \in Range(w[i].block.body)
        PROVE  /\ Hashed(tx)
               /\ \E j \in 1..(i - 1) :
                    /\ w[j].op = "transactions"
                    /\ w[j].key = hash_key(tx.hash)
                    /\ w[j].value = tx
    <3>1. AllHashed(txs) /\ i = 2 * n + 3 /\ w[i].block = b /\ n = Len(txs)
      BY <2>1, <1>17, <1>19 DEF BlockOps
    <3>2. PICK x \in 1..n : tx = txs[x]
      BY <3>1, <1>8, <1>10 DEF Range
    <3>3. 2 * x + 1 \in 1..(i - 1)
      BY <3>1, <1>8
    <3>. QED
      BY <3>2, <3>3, <1>16
  <2>. QED
    BY <2>1, <1>7, <1>9 DEF BodyBeforeTip
<1>. QED
  BY <1>13, <1>14, <1>20, <1>21, <1>22, <1>23, <1>24, <1>25, <1>27, <1>28, <1>29 DEF StoreInv, Plan

-----------------------------------------------------------------------------
\* The first of the writes is taken off the list.
Shift ==
    /\ Len(todo) \in Nat \ {0}
    /\ DOMAIN todo = 1..Len(todo)
    /\ Len(todo') = Len(todo) - 1
    /\ DOMAIN todo' = 1..(Len(todo) - 1)
    /\ \A i \in DOMAIN todo' : i + 1 \in DOMAIN todo /\ todo'[i] = todo[i + 1]
    /\ \A j \in DOMAIN todo : j # 1 => j - 1 \in DOMAIN todo' /\ todo'[j - 1] = todo[j]

\* The head of the list.
LEMMA FirstWrite ==
    ASSUME Sequence, todo # <<>>
    PROVE  Head(todo) = todo[1] /\ 1 \in DOMAIN todo
<1>1. todo \in Seq(Range(todo))
  BY DEF Sequence
<1>2. PICK W : todo \in Seq(W)
  BY <1>1
<1>. QED
  BY <1>2

\* Every write takes the head off the list.
LEMMA TailShift ==
    ASSUME Sequence, todo # <<>>, todo' = Tail(todo)
    PROVE  Shift /\ Head(todo) = todo[1] /\ todo' \in Seq(Range(todo'))
<1> DEFINE W == Range(todo)
<1>1. todo \in Seq(W)
  BY DEF Sequence
<1>. HIDE DEF W
<1>2. Len(todo) \in Nat \ {0} /\ DOMAIN todo = 1..Len(todo) /\ Head(todo) = todo[1]
  BY <1>1
<1>3. /\ todo' \in Seq(W) /\ Len(todo') = Len(todo) - 1
      /\ \A i \in 1..Len(todo') : todo'[i] = todo[i + 1]
  BY <1>1, HeadTailProperties
<1>4. DOMAIN todo' = 1..(Len(todo) - 1)
  BY <1>3
<1>5. todo' \in Seq(Range(todo'))
  BY <1>3, SeqOfRange
<1>6. \A i \in DOMAIN todo' : i + 1 \in DOMAIN todo /\ todo'[i] = todo[i + 1]
  BY <1>2, <1>3, <1>4
<1>7. \A j \in DOMAIN todo : j # 1 => j - 1 \in DOMAIN todo' /\ todo'[j - 1] = todo[j]
  <2>. SUFFICES ASSUME NEW j \in DOMAIN todo, j # 1
                PROVE  j - 1 \in DOMAIN todo' /\ todo'[j - 1] = todo[j]
    OBVIOUS
  <2>1. j - 1 \in DOMAIN todo' /\ (j - 1) + 1 = j
    BY <1>2, <1>4
  <2>. QED
    BY <2>1, <1>6
<1>. QED
  BY <1>2, <1>3, <1>4, <1>5, <1>6, <1>7 DEF Shift

\* What the plan says of single writes is kept, as long as the tip is.
LEMMA KeepSingles ==
    ASSUME Plan, Shift, mined' = mined, chain_tip' = chain_tip
    PROVE  GenesisWrites' /\ OfNextBlock' /\ HashRecords'
<1>1. GenesisWrites'
  BY DEF Shift, Plan, GenesisWrites
<1>2. OfNextBlock'
  BY DEF Shift, Plan, OfNextBlock, NextBlock
<1>3. HashRecords'
  BY DEF Shift, Plan, HashRecords
<1>. QED
  BY <1>1, <1>2, <1>3

\* A write other than a block's leaves the blocks to store.
LEMMA KeepFresh ==
    ASSUME Plan, Shift, mined' = mined, UNCHANGED blocks_by_hash
    PROVE  ByHashFresh'
<1>. SUFFICES ASSUME NEW i \in DOMAIN todo', todo'[i].op = "by_hash"
              PROVE  /\ mined' \notin DOMAIN blocks_by_hash'
                     /\ \A j \in DOMAIN todo' : todo'[j].op = "by_hash" => j = i
  BY DEF ByHashFresh
<1>1. i + 1 \in DOMAIN todo /\ todo[i + 1].op = "by_hash" /\ i \in Int
  BY DEF Shift
<1>2. \A j \in DOMAIN todo : todo[j].op = "by_hash" => j = i + 1
  BY <1>1 DEF Plan, ByHashFresh
<1>3. ASSUME NEW j \in DOMAIN todo', todo'[j].op = "by_hash"
      PROVE  j = i
  <2>1. j + 1 \in DOMAIN todo /\ todo[j + 1].op = "by_hash" /\ j \in Int
    BY <1>3 DEF Shift
  <2>2. j + 1 = i + 1
    BY <1>2, <2>1
  <2>. QED
    BY <1>1, <2>1, <2>2
<1>. QED
  BY <1>1, <1>3 DEF Plan, ByHashFresh

\* A height to index is still right after its block.
LEMMA KeepHeight ==
    ASSUME Plan, Shift, todo[1].op # "by_hash"
    PROVE  HeightAfterBlock'
<1>. SUFFICES ASSUME NEW i \in DOMAIN todo', todo'[i].op = "by_height"
              PROVE  i # 1 /\ todo'[i - 1].op = "by_hash" /\ todo'[i - 1].block = todo'[i].block
  BY DEF HeightAfterBlock
<1>1. i + 1 \in DOMAIN todo /\ todo'[i] = todo[i + 1] /\ i + 1 # 1 /\ (i + 1) - 1 = i /\ i \in DOMAIN todo
  BY DEF Shift
<1>2. todo[i].op = "by_hash" /\ todo[i].block = todo[i + 1].block
  BY <1>1 DEF Plan, HeightAfterBlock
<1>3. i # 1
  BY <1>2
<1>. QED
  BY <1>1, <1>2, <1>3 DEF Shift

\* An index entry is still right after its transaction.
LEMMA KeepIndex ==
    ASSUME Plan, Shift, todo[1].op # "transactions"
    PROVE  IndexAfterRecord'
<1>. SUFFICES ASSUME NEW i \in DOMAIN todo', todo'[i].op = "transactions",
                     todo'[i].key[1] = "sender"
              PROVE  /\ i # 1
                     /\ todo'[i - 1].op = "transactions"
                     /\ todo'[i - 1].key = hash_key(todo'[i].value)
                     /\ sender_key(todo'[i - 1].value) = todo'[i].key
  BY DEF IndexAfterRecord
<1>1. i + 1 \in DOMAIN todo /\ todo'[i] = todo[i + 1] /\ i + 1 # 1 /\ (i + 1) - 1 = i /\ i \in DOMAIN todo
  BY DEF Shift
<1>2. /\ todo[i].op = "transactions"
      /\ todo[i].key = hash_key(todo[i + 1].value)
      /\ sender_key(todo[i].value) = todo[i + 1].key
  BY <1>1 DEF Plan, IndexAfterRecord
<1>3. i # 1
  BY <1>2
<1>. QED
  BY <1>1, <1>2, <1>3 DEF Shift

\* The tip is still last, and after the height.
LEMMA KeepTip ==
    ASSUME Plan, Shift, todo[1].op # "by_height", UNCHANGED <<blocks_by_hash, blocks_by_height>>
    PROVE  TipLast'
<1>. SUFFICES ASSUME NEW i \in DOMAIN todo', todo'[i].op = "chain_tip"
              PROVE  /\ i = Len(todo')
                     /\ \/ Indexed(todo[i + 1].block)
                        \/ \E j \in 1..(i - 1) :
                             todo'[j].op = "by_height" /\ todo'[j].block = todo'[i].block
  BY DEF TipLast, Indexed, Stored, Shift
<1>1. i + 1 \in DOMAIN todo /\ todo'[i] = todo[i + 1] /\ (i + 1) - 1 = i /\ i \in Int
  BY DEF Shift
<1>2. /\ i + 1 = Len(todo)
      /\ \/ Indexed(todo[i + 1].block)
         \/ \E j \in 1..i : todo[j].op = "by_height" /\ todo[j].block = todo[i + 1].block
  BY <1>1 DEF Plan, TipLast
<1>3. ASSUME NEW j \in 1..i, todo[j].op = "by_height", todo[j].block = todo[i + 1].block
      PROVE  \E k \in 1..(i - 1) : todo'[k].op = "by_height" /\ todo'[k].block = todo'[i].block
  <2>1. j # 1 /\ j \in DOMAIN todo /\ j - 1 \in 1..(i - 1)
    BY <1>1, <1>2, <1>3 DEF Shift
  <2>2. todo'[j - 1] = todo[j]
    BY <2>1 DEF Shift
  <2>. QED
    BY <2>1, <2>2, <1>1, <1>3
<1>4. i = Len(todo')
  BY <1>1, <1>2 DEF Shift
<1>. QED
  BY <1>2, <1>3, <1>4

\* The root is still to be saved after the credits, or saved already.
LEMMA KeepRoot ==
    ASSUME Plan, Shift, chain_tip' = chain_tip, todo[1].op # "state_root",
           \/ todo[1].op = "credit" /\ state_root' = state_root
           \/ UNCHANGED <<accounts, state_root>>
    PROVE  RootAfterCredits'
<1>. SUFFICES ASSUME NEW i \in DOMAIN todo', todo'[i].op = "chain_tip", chain_tip' = {}
              PROVE  \/ /\ state_root' = accounts'
                        /\ \A k \in DOMAIN todo' : todo'[k].op # "credit"
                     \/ \E j \in 1..(i - 1) :
                          /\ todo'[j].op = "state_root"
                          /\ \A k \in DOMAIN todo' : todo'[k].op = "credit" => k < j
  BY DEF RootAfterCredits
<1>1. i + 1 \in DOMAIN todo /\ todo'[i] = todo[i + 1] /\ (i + 1) - 1 = i /\ i \in Int
  BY DEF Shift
<1>2. \/ /\ state_root = accounts
         /\ \A k \in DOMAIN todo : todo[k].op # "credit"
      \/ \E j \in 1..i :
           /\ todo[j].op = "state_root"
           /\ \A k \in DOMAIN todo : todo[k].op = "credit" => k < j
  BY <1>1 DEF Plan, RootAfterCredits
<1>3. CASE state_root = accounts /\ \A k \in DOMAIN todo : todo[k].op # "credit"
  <2>1. 1 \in DOMAIN todo
    BY DEF Shift
  <2>2. UNCHANGED <<accounts, state_root>>
    BY <2>1, <1>3
  <2>3. \A k \in DOMAIN todo' : todo'[k].op # "credit"
    BY <1>3 DEF Shift
  <2>. QED
    BY <1>3, <2>2, <2>3
<1>4. ASSUME NEW j \in 1..i, todo[j].op = "state_root",
             \A k \in DOMAIN todo : todo[k].op = "credit" => k < j
      PROVE  \E l \in 1..(i - 1) :
                /\ todo'[l].op = "state_root"
                /\ \A k \in DOMAIN todo' : todo'[k].op = "credit" => k < l
  <2>1. j # 1 /\ j \in DOMAIN todo /\ j - 1 \in 1..(i - 1)
    BY <1>1, <1>4 DEF Shift
  <2>2. todo'[j - 1] = todo[j]
    BY <2>1 DEF Shift
  <2>3. ASSUME NEW k \in DOMAIN todo', todo'[k].op = "credit"
        PROVE  k < j - 1
    <3>1. k + 1 \in DOMAIN todo /\ todo[k + 1].op = "credit" /\ k \in Int
      BY <2>3 DEF Shift
    <3>2. k + 1 < j
      BY <1>4, <3>1
    <3>. QED
      BY <3>1, <3>2, <2>1
  <2>. QED
    BY <2>1, <2>2, <2>3, <1>4
<1>. QED
  BY <1>2, <1>3, <1>4

\* The transactions of the block are still written before the tip.
LEMMA KeepBody ==
    ASSUME Plan, Shift, todo[1].op # "transactions", transactions' = transactions
    PROVE  BodyBeforeTip'
<1>. SUFFICES ASSUME NEW i \in DOMAIN todo', todo'[i].op = "chain_tip",
                     NEW tx \in Range(todo'[i].block.body)
              PROVE  /\ Hashed(tx)
                     /\ \/ get_transaction(tx.hash) = {tx}
                        \/ \E j \in 1..(i - 1) :
                             /\ todo'[j].op = "transactions"
                             /\ todo'[j].key = hash_key(tx.hash)
                             /\ todo'[j].value = tx
  BY DEF BodyBeforeTip, get_transaction
<1>1. i + 1 \in DOMAIN todo /\ todo'[i] = todo[i + 1] /\ (i + 1) - 1 = i /\ i \in Int
  BY DEF Shift
<1>2. /\ Hashed(tx)
      /\ \/ get_transaction(tx.hash) = {tx}
         \/ \E j \in 1..i :
              /\ todo[j].op = "transactions"
              /\ todo[j].key = hash_key(tx.hash)
              /\ todo[j].value = tx
  BY <1>1 DEF Plan, BodyBeforeTip
<1>3. ASSUME NEW j \in 1..i, todo[j].op = "transactions", todo[j].key = hash_key(tx.hash),
             todo[j].value = tx
      PROVE  \E k \in 1..(i - 1) : /\ todo'[k].op = "transactions"
                                   /\ todo'[k].key = hash_key(tx.hash)
                                   /\ todo'[k].value = tx
  <2>1. j # 1 /\ j \in DOMAIN todo /\ j - 1 \in 1..(i - 1)
    BY <1>1, <1>3 DEF Shift
  <2>2. todo'[j - 1] = todo[j]
    BY <2>1 DEF Shift
  <2>. QED
    BY <2>1, <2>2, <1>3
<1>. QED
  BY <1>2, <1>3

\* credit_account leaves the tree of accounts well formed.
LEMMA CreditTyped ==
    ASSUME NEW f, IsAccountMap(f), NEW a \in Address, NEW n
    PROVE  IsAccountMap(credit_account(f, a, n).accts)
<1> DEFINE acc == get_or_create_account(f, a)
           g == save_account(f, a, Credited(acc, n))
<1>1. acc \in Account
  <2>1. NewAccount \in Account
    BY WidthAssumption DEF NewAccount, Account, U64, Tier
  <2>. QED
    BY <2>1 DEF get_or_create_account, IsAccountMap
<1>. HIDE DEF acc
<1>2. Credited(acc, n) \in Account
  BY <1>1 DEF Credited, Account
<1>3. IsAccountMap(g)
  BY <1>2 DEF IsAccountMap, save_account
<1>4. credit_account(f, a, n).accts \in {f, g}
  BY DEF credit_account, Ok, Err, acc
<1>. QED
  BY <1>3, <1>4

-----------------------------------------------------------------------------
\* The write of a credit.
LEMMA WriteCredit ==
    ASSUME StoreInv, Shift, todo' \in Seq(Range(todo')), todo[1].op = "credit",
           accounts' = credit_account(accounts, todo[1].to, todo[1].amount).accts,
           UNCHANGED <<blocks_by_hash, blocks_by_height, transactions, state_root, chain_tip>>,
           mined' = mined
    PROVE  StoreInv'
<1>0. Plan /\ Trees /\ Sequence /\ 1 \in DOMAIN todo
  BY DEF StoreInv, Shift
<1>1. chain_tip = {} /\ todo[1].to \in Address
  BY <1>0 DEF Plan, GenesisWrites
<1>2. Sequence'
  BY <1>0, <1>1, CreditTyped DEF Sequence
<1>3. Plan'
  BY <1>0, KeepSingles, KeepFresh, KeepHeight, KeepIndex, KeepTip, KeepRoot, KeepBody DEF Plan
<1>4. Trees'
  <2>1. BlocksUnderHash' /\ RootOfAccounts'
    BY <1>0, <1>1 DEF Trees, BlocksUnderHash, RootOfAccounts
  <2>2. \A h : get_block_by_height(h)' = get_block_by_height(h)
    BY DEF get_block_by_height
  <2>. QED
    BY <1>0, <2>1, <2>2, StoresUnchanged
<1>. QED
  BY <1>2, <1>3, <1>4 DEF StoreInv

\* The write of the state root.
LEMMA WriteRoot ==
    ASSUME StoreInv, Shift, todo' \in Seq(Range(todo')), todo[1].op = "state_root",
           state_root' = accounts,
           UNCHANGED <<accounts, blocks_by_hash, blocks_by_height, transactions, chain_tip>>,
           mined' = mined
    PROVE  StoreInv'
<1>0. Plan /\ Trees /\ Sequence /\ 1 \in DOMAIN todo
  BY DEF StoreInv, Shift
<1>1. chain_tip = {}
  BY <1>0 DEF Plan, GenesisWrites
<1>2. Sequence'
  BY <1>0 DEF Sequence
<1>3. RootAfterCredits'
  <2>. SUFFICES ASSUME NEW i \in DOMAIN todo', todo'[i].op = "chain_tip"
                PROVE  \/ \A k \in DOMAIN todo' : todo'[k].op # "credit"
                       \/ \E j \in 1..(i - 1) :
                            /\ todo'[j].op = "state_root"
                            /\ \A k \in DOMAIN todo' : todo'[k].op = "credit" => k < j
    BY DEF RootAfterCredits
  <2>1. i + 1 \in DOMAIN todo /\ todo'[i] = todo[i + 1] /\ (i + 1) - 1 = i /\ i \in Int
    BY DEF Shift
  <2>2. \/ \A k \in DOMAIN todo : todo[k].op # "credit"
        \/ \E j \in 1..i :
             /\ todo[j].op = "state_root"
             /\ \A k \in DOMAIN todo : todo[k].op = "credit" => k < j
    BY <1>0, <1>1, <2>1 DEF Plan, RootAfterCredits
  <2>3. CASE \A k \in DOMAIN todo : todo[k].op # "credit"
    BY <2>3 DEF Shift
  <2>4. ASSUME NEW j \in 1..i, todo[j].op = "state_root",
               \A k \in DOMAIN todo : todo[k].op = "credit" => k < j
        PROVE  \/ \A k \in DOMAIN todo' : todo'[k].op # "credit"
               \/ \E l \in 1..(i - 1) :
                    /\ todo'[l].op = "state_root"
                    /\ \A k \in DOMAIN todo' : todo'[k].op = "credit" => k < l
    <3>0. ASSUME NEW k \in DOMAIN todo', todo'[k].op = "credit"
          PROVE  k < j - 1 /\ k > 0
      <4>1. k + 1 \in DOMAIN todo /\ todo[k + 1].op = "credit" /\ k \in Int /\ k > 0
        BY <3>0 DEF Shift
      <4>2. k + 1 < j
        BY <2>4, <4>1
      <4>. QED
        BY <4>1, <4>2
    <3>1. CASE j = 1
      BY <3>0, <3>1 DEF Shift
    <3>2. CASE j # 1
      <4>1. j \in DOMAIN todo /\ j - 1 \in 1..(i - 1)
        BY <2>1, <3>2 DEF Shift
      <4>2. todo'[j - 1] = todo[j]
        BY <4>1, <3>2 DEF Shift
      <4>. QED
        BY <2>4, <3>0, <4>1, <4>2
    <3>. QED
      BY <3>1, <3>2
  <2>. QED
    BY <2>2, <2>3, <2>4
<1>4. Plan'
  BY <1>0, <1>3, KeepSingles, KeepFresh, KeepHeight, KeepIndex, KeepTip, KeepBody DEF Plan
<1>5. Trees'
  <2>1. BlocksUnderHash' /\ RootOfAccounts'
    BY <1>0, <1>1 DEF Trees, BlocksUnderHash, RootOfAccounts
  <2>2. \A h : get_block_by_height(h)' = get_block_by_height(h)
    BY DEF get_block_by_height
  <2>. QED
    BY <1>0, <2>1, <2>2, StoresUnchanged
<1>. QED
  BY <1>2, <1>4, <1>5 DEF StoreInv

-----------------------------------------------------------------------------
\* get_block_by_height: what the height index leads to, when it is stored.
LEMMA AtHeight ==
    ASSUME NEW f, NEW g, NEW h
    PROVE  {f[x] : x \in {g[k] : k \in DOMAIN g \cap {h}} \cap DOMAIN f}
             = IF h \in DOMAIN g /\ g[h] \in DOMAIN f THEN {f[g[h]]} ELSE {}
<1>1. CASE h \in DOMAIN g /\ g[h] \in DOMAIN f
  BY <1>1
<1>2. CASE ~(h \in DOMAIN g /\ g[h] \in DOMAIN f)
  BY <1>2
<1>. QED
  BY <1>1, <1>2

\* A block stored under its hash, which was not in use, is at no height yet.
LEMMA ByHashKeepsHeights ==
    ASSUME StoreInv, 1 \in DOMAIN todo, todo[1].op = "by_hash",
           blocks_by_hash' = Put(blocks_by_hash, todo[1].block.hash, todo[1].block),
           UNCHANGED blocks_by_height
    PROVE  \A h : get_block_by_height(h)' = get_block_by_height(h)
<1> DEFINE f == blocks_by_hash
           g == blocks_by_height
           b == todo[1].block
<1>1. Plan /\ Trees
  BY DEF StoreInv
<1>2. b.hash = mined /\ mined \notin DOMAIN f
  BY <1>1 DEF Plan, OfNextBlock, BlockOps, NextBlock, ByHashFresh
<1>3. f' = Put(f, mined, b)
  BY <1>2
<1>4. DOMAIN f' = DOMAIN f \cup {mined} /\ \A k \in DOMAIN f : f'[k] = f[k]
  BY <1>2, <1>3 DEF Put
<1>. SUFFICES ASSUME NEW h
              PROVE  get_block_by_height(h)' = get_block_by_height(h)
  OBVIOUS
<1>5. /\ get_block_by_height(h)
           = IF h \in DOMAIN g /\ g[h] \in DOMAIN f THEN {f[g[h]]} ELSE {}
      /\ get_block_by_height(h)'
           = IF h \in DOMAIN g' /\ g'[h] \in DOMAIN f' THEN {f'[g'[h]]} ELSE {}
  BY AtHeight DEF get_block_by_height
<1>6. CASE h \in DOMAIN g
  <2>1. g[h] \in DOMAIN f
    BY <1>1, <1>5, <1>6 DEF Trees, HeightIndexResolves
  <2>. QED
    BY <1>4, <1>5, <1>6, <2>1
<1>7. CASE h \notin DOMAIN g
  BY <1>5, <1>7
<1>. QED
  BY <1>6, <1>7

\* The write of a block under its hash.
LEMMA WriteByHash ==
    ASSUME StoreInv, Shift, todo' \in Seq(Range(todo')), todo[1].op = "by_hash",
           blocks_by_hash' = Put(blocks_by_hash, todo[1].block.hash, todo[1].block),
           UNCHANGED <<accounts, blocks_by_height, transactions, state_root, chain_tip>>,
           mined' = mined
    PROVE  StoreInv'
<1>0. Plan /\ Trees /\ Sequence /\ 1 \in DOMAIN todo
  BY DEF StoreInv, Shift
<1>1. PICK b : b = todo[1].block
  OBVIOUS
<1>2. NextBlock(b)
  BY <1>0, <1>1 DEF Plan, OfNextBlock, BlockOps
<1>3. /\ mined \notin DOMAIN blocks_by_hash
      /\ \A j \in DOMAIN todo : todo[j].op = "by_hash" => j = 1
  BY <1>0 DEF Plan, ByHashFresh
<1>4. /\ DOMAIN blocks_by_hash' = DOMAIN blocks_by_hash \cup {mined}
      /\ blocks_by_hash'[mined] = b
      /\ \A k \in DOMAIN blocks_by_hash : blocks_by_hash'[k] = blocks_by_hash[k]
  <2>1. blocks_by_hash' = Put(blocks_by_hash, mined, b)
    BY <1>1, <1>2 DEF NextBlock
  <2>. QED
    BY <2>1, <1>3 DEF Put
<1>5. Sequence'
  BY <1>0 DEF Sequence
<1>6. \A i \in DOMAIN todo' : todo'[i].op # "by_hash"
  <2>. SUFFICES ASSUME NEW i \in DOMAIN todo', todo'[i].op = "by_hash"
                PROVE  FALSE
    OBVIOUS
  <2>1. i + 1 \in DOMAIN todo /\ todo[i + 1].op = "by_hash" /\ i + 1 # 1
    BY DEF Shift
  <2>. QED
    BY <2>1, <1>3
<1>7. ByHashFresh'
  BY <1>6 DEF ByHashFresh
<1>8. HeightAfterBlock'
  <2>1. Stored(b)'
    BY <1>2, <1>4 DEF Stored, NextBlock
  <2>2. ASSUME NEW i \in DOMAIN todo', todo'[i].op = "by_height"
        PROVE  IF i = 1 THEN todo'[i].block = b
               ELSE todo'[i - 1].op = "by_hash" /\ todo'[i - 1].block = todo'[i].block
    <3>1. i + 1 \in DOMAIN todo /\ todo'[i] = todo[i + 1] /\ i + 1 # 1 /\ (i + 1) - 1 = i /\ i \in DOMAIN todo
      BY DEF Shift
    <3>2. todo[i].op = "by_hash" /\ todo[i].block = todo[i + 1].block
      BY <1>0, <2>2, <3>1 DEF Plan, HeightAfterBlock
    <3>. QED
      BY <1>1, <3>1, <3>2 DEF Shift
  <2>. QED
    BY <2>1, <2>2 DEF HeightAfterBlock, Stored
<1>9. TipLast'
  <2>1. ASSUME NEW i \in DOMAIN todo', todo'[i].op = "chain_tip"
        PROVE  /\ i = Len(todo')
               /\ \E j \in 1..(i - 1) : todo'[j].op = "by_height" /\ todo'[j].block = todo'[i].block
    <3>1. i + 1 \in DOMAIN todo /\ todo'[i] = todo[i + 1] /\ (i + 1) - 1 = i /\ i \in Int
      BY DEF Shift
    <3>2. ~Indexed(todo[i + 1].block)
      <4>1. NextBlock(todo[i + 1].block)
        BY <1>0, <2>1, <3>1 DEF Plan, OfNextBlock, BlockOps
      <4>. QED
        BY <4>1, <1>3 DEF Indexed, Stored, NextBlock
    <3>3. /\ i + 1 = Len(todo)
          /\ \E j \in 1..i : todo[j].op = "by_height" /\ todo[j].block = todo[i + 1].block
      BY <1>0, <2>1, <3>1, <3>2 DEF Plan, TipLast
    <3>4. PICK j \in 1..i : todo[j].op = "by_height" /\ todo[j].block = todo[i + 1].block
      BY <3>3
    <3>5. j # 1 /\ j \in DOMAIN todo /\ j - 1 \in 1..(i - 1)
      BY <3>1, <3>3, <3>4 DEF Shift
    <3>6. todo'[j - 1] = todo[j] /\ i = Len(todo')
      BY <3>1, <3>3, <3>5 DEF Shift
    <3>. QED
      BY <3>1, <3>4, <3>5, <3>6
  <2>. QED
    BY <2>1 DEF TipLast
<1>10. Plan'
  BY <1>0, <1>7, <1>8, <1>9, KeepSingles, KeepIndex, KeepRoot, KeepBody DEF Plan
<1>11. \A h : get_block_by_height(h)' = get_block_by_height(h)
  BY <1>0, ByHashKeepsHeights
<1>12. Trees'
  <2>1. BlocksUnderHash'
    BY <1>0, <1>2, <1>4 DEF Trees, BlocksUnderHash, NextBlock
  <2>2. RootOfAccounts'
    BY <1>0 DEF Trees, RootOfAccounts
  <2>. QED
    BY <1>0, <1>11, <2>1, <2>2, StoresUnchanged
<1>. QED
  BY <1>5, <1>10, <1>12 DEF StoreInv

\* The entry of the height index changes what is at the height of the new
\* block, above the tip.
LEMMA AtNewHeight ==
    ASSUME StoreInv, 1 \in DOMAIN todo, todo[1].op = "by_height",
           blocks_by_height' = Put(blocks_by_height, todo[1].block.index, todo[1].block.hash),
           UNCHANGED blocks_by_hash
    PROVE  /\ \A h : /\ h # todo[1].block.index => get_block_by_height(h)' = get_block_by_height(h)
                     /\ h = todo[1].block.index => get_block_by_height(h)' = {todo[1].block}
           /\ \A tip \in chain_tip : tip.index \in Nat /\ todo[1].block.index \notin 0..tip.index
<1>1. Plan /\ Trees
  BY DEF StoreInv
<1>2. PICK b : b = todo[1].block
  OBVIOUS
<1>3. NextBlock(b) /\ Stored(b)
  BY <1>1, <1>2 DEF Plan, OfNextBlock, BlockOps, HeightAfterBlock
<1> DEFINE f == blocks_by_hash
           g == blocks_by_height
<1>4. g' = Put(g, b.index, b.hash)
  BY <1>2
<1>5. /\ DOMAIN g' = DOMAIN g \cup {b.index} /\ g'[b.index] = b.hash
      /\ \A k \in DOMAIN g : k # b.index => g'[k] = g[k]
  BY <1>4 DEF Put
<1>6. ASSUME NEW h
      PROVE  /\ h # b.index => get_block_by_height(h)' = get_block_by_height(h)
             /\ h = b.index => get_block_by_height(h)' = {b}
  <2>1. /\ get_block_by_height(h)
             = IF h \in DOMAIN g /\ g[h] \in DOMAIN f THEN {f[g[h]]} ELSE {}
        /\ get_block_by_height(h)'
             = IF h \in DOMAIN g' /\ g'[h] \in DOMAIN f' THEN {f'[g'[h]]} ELSE {}
    BY AtHeight DEF get_block_by_height
  <2>2. h # b.index => get_block_by_height(h)' = get_block_by_height(h)
    BY <1>5, <2>1
  <2>3. h = b.index => get_block_by_height(h)' = {b}
    BY <1>3, <1>5, <2>1 DEF Stored
  <2>. QED
    BY <2>2, <2>3
<1>7. \A tip \in chain_tip : tip.index \in Nat /\ b.index \notin 0..tip.index
  BY <1>1, <1>3 DEF Trees, OneTip, NextBlock
<1>. QED
  BY <1>2, <1>6, <1>7

\* The write of the height index: it changes what is at the height of the
\* new block, above the tip, and nothing below.
LEMMA WriteByHeight ==
    ASSUME StoreInv, Shift, todo' \in Seq(Range(todo')), todo[1].op = "by_height",
           blocks_by_height' = Put(blocks_by_height, todo[1].block.index, todo[1].block.hash),
           UNCHANGED <<accounts, blocks_by_hash, transactions, state_root, chain_tip>>,
           mined' = mined
    PROVE  StoreInv'
<1>0. Plan /\ Trees /\ Sequence /\ 1 \in DOMAIN todo
  BY DEF StoreInv, Shift
<1>1. PICK b : b = todo[1].block
  OBVIOUS
<1>2. NextBlock(b) /\ Stored(b)
  BY <1>0, <1>1 DEF Plan, OfNextBlock, BlockOps, HeightAfterBlock
<1>3. /\ DOMAIN blocks_by_height' = DOMAIN blocks_by_height \cup {b.index}
      /\ blocks_by_height'[b.index] = b.hash
      /\ \A k \in DOMAIN blocks_by_height :
           k # b.index => blocks_by_height'[k] = blocks_by_height[k]
  <2>1. blocks_by_height' = Put(blocks_by_height, b.index, b.hash)
    BY <1>1
  <2>. QED
    BY <2>1 DEF Put
<1>4. Sequence'
  BY <1>0 DEF Sequence
<1>5. TipLast'
  <2>1. Indexed(b)'
    BY <1>2, <1>3 DEF Indexed, Stored
  <2>2. ASSUME NEW i \in DOMAIN todo', todo'[i].op = "chain_tip"
        PROVE  /\ i = Len(todo')
               /\ \/ todo'[i].block = b
                  \/ \E j \in 1..(i - 1) : todo'[j].op = "by_height" /\ todo'[j].block = todo'[i].block
    <3>1. i + 1 \in DOMAIN todo /\ todo'[i] = todo[i + 1] /\ (i + 1) - 1 = i /\ i \in Int
      BY DEF Shift
    <3>2. /\ i + 1 = Len(todo)
          /\ \/ Indexed(todo[i + 1].block)
             \/ \E j \in 1..i : todo[j].op = "by_height" /\ todo[j].block = todo[i + 1].block
      BY <1>0, <2>2, <3>1 DEF Plan, TipLast
    <3>3. i = Len(todo')
      BY <3>1, <3>2 DEF Shift
    <3>4. CASE Indexed(todo[i + 1].block)
      <4>1. todo[i + 1].block.hash = mined
        BY <1>0, <2>2, <3>1 DEF Plan, OfNextBlock, BlockOps, NextBlock
      <4>2. todo[i + 1].block = b
        BY <4>1, <3>4, <1>2 DEF Indexed, Stored, NextBlock
      <4>. QED
        BY <3>1, <3>3, <4>2
    <3>5. ASSUME NEW j \in 1..i, todo[j].op = "by_height", todo[j].block = todo[i + 1].block
          PROVE  \/ todo'[i].block = b
                 \/ \E k \in 1..(i - 1) : todo'[k].op = "by_height" /\ todo'[k].block = todo'[i].block
      <4>1. CASE j = 1
        BY <1>1, <3>1, <3>5, <4>1
      <4>2. CASE j # 1
        <5>1. j \in DOMAIN todo /\ j - 1 \in 1..(i - 1)
          BY <3>1, <3>2, <4>2 DEF Shift
        <5>2. todo'[j - 1] = todo[j]
          BY <5>1, <4>2 DEF Shift
        <5>. QED
          BY <5>1, <5>2, <3>1, <3>5
      <4>. QED
        BY <4>1, <4>2
    <3>. QED
      BY <3>2, <3>3, <3>4, <3>5
  <2>. QED
    BY <2>1, <2>2 DEF TipLast, Indexed, Stored
<1>6. Plan'
  BY <1>0, <1>5, KeepSingles, KeepFresh, KeepHeight, KeepIndex, KeepRoot, KeepBody DEF Plan
<1>7. \A h : /\ h # b.index => get_block_by_height(h)' = get_block_by_height(h)
             /\ h = b.index => get_block_by_height(h)' = {b}
  BY <1>0, <1>1, AtNewHeight
<1>8. \A tip \in chain_tip : tip.index \in Nat /\ b.index \notin 0..tip.index
  BY <1>0, <1>1, AtNewHeight
<1>9. BlocksUnderHash' /\ TransactionsUnderHash' /\ OneTip' /\ RootOfAccounts'
  BY <1>0 DEF Trees, BlocksUnderHash, TransactionsUnderHash, OneTip, RootOfAccounts
<1>10. HeightIndexResolves'
  <2>. SUFFICES ASSUME NEW h \in DOMAIN blocks_by_height'
                PROVE  \E c \in get_block_by_height(h)' : c.index = h /\ c.hash = blocks_by_height'[h]
    BY DEF HeightIndexResolves
  <2>1. CASE h = b.index
    BY <2>1, <1>3, <1>7
  <2>2. CASE h # b.index
    BY <2>2, <1>0, <1>3, <1>7 DEF Trees, HeightIndexResolves
  <2>. QED
    BY <2>1, <2>2
<1>11. \A h : get_transaction(h)' = get_transaction(h)
  BY DEF get_transaction
<1>12. SenderIndexResolves'
  BY <1>0, <1>11 DEF Trees, SenderIndexResolves
<1>13. \A tip \in chain_tip : \A h \in 0..tip.index : get_block_by_height(h)' = get_block_by_height(h)
  BY <1>7, <1>8
<1>14. TipHeadsChain'
  <2>. SUFFICES ASSUME NEW tip \in chain_tip
                PROVE  /\ verify_genesis_integrity'
                       /\ get_block_by_height(tip.index)' = {tip}
                       /\ \A h \in 1..tip.index :
                            \E c \in get_block_by_height(h)', p \in get_block_by_height(h - 1)' :
                               c.previous_hash = p.hash
    BY DEF TipHeadsChain
  <2>1. /\ verify_genesis_integrity
        /\ get_block_by_height(tip.index) = {tip}
        /\ \A h \in 1..tip.index :
             \E c \in get_block_by_height(h), p \in get_block_by_height(h - 1) :
                c.previous_hash = p.hash
    BY <1>0 DEF Trees, TipHeadsChain
  <2>2. tip.index \in Nat
    BY <1>8
  <2>3. \A h \in 1..tip.index : h \in 0..tip.index /\ h - 1 \in 0..tip.index
    BY <2>2
  <2>4. 0 \in 0..tip.index /\ tip.index \in 0..tip.index
    BY <2>2
  <2>5. verify_genesis_integrity'
    BY <2>1, <2>4, <1>13 DEF verify_genesis_integrity
  <2>. QED
    BY <2>1, <2>3, <2>4, <2>5, <1>13
<1>15. OnChain' = OnChain
  BY <1>13 DEF OnChain
<1>16. OnChainFound' /\ OnChainHashed'
  BY <1>0, <1>11, <1>15 DEF Trees, OnChainFound, OnChainHashed
<1>. QED
  BY <1>4, <1>6, <1>9, <1>10, <1>12, <1>14, <1>16 DEF StoreInv, Trees

\* Transactions of one hash are one.
LEMMA HashIdentifies ==
    ASSUME NEW s, NEW u, Hashed(s), Hashed(u), s.hash = u.hash
    PROVE  s = u
<1>1. /\ s.hash = <<s.sender, s.nonce, s.fee>>
      /\ u.hash = <<u.sender, u.nonce, u.fee>>
  BY DEF Hashed
<1>2. \A a, b, c, d, e, f : <<a, b, c>> = <<d, e, f>> => a = d /\ b = e /\ c = f
  OBVIOUS
<1>3. <<s.sender, s.nonce, s.fee>> = <<u.sender, u.nonce, u.fee>>
  BY <1>1, Zenon
<1>4. s.sender = u.sender /\ s.nonce = u.nonce /\ s.fee = u.fee
  BY <1>2, <1>3, Zenon
<1>. QED
  BY <1>4 DEF Hashed

\* The write of a transaction or of an entry of the sender index: what could
\* be found is found still, and is the same.
LEMMA WriteTransaction ==
    ASSUME StoreInv, Shift, todo' \in Seq(Range(todo')), todo[1].op = "transactions",
           transactions' = Put(transactions, todo[1].key, todo[1].value),
           UNCHANGED <<accounts, blocks_by_hash, blocks_by_height, state_root, chain_tip>>,
           mined' = mined
    PROVE  StoreInv'
<1>0. Plan /\ Trees /\ Sequence /\ 1 \in DOMAIN todo
  BY DEF StoreInv, Shift
<1>1. PICK key, value : key = todo[1].key /\ value = todo[1].value
  OBVIOUS
<1>2. \/ key[1] = "sender"
      \/ key = hash_key(value.hash) /\ Hashed(value)
  BY <1>0, <1>1 DEF Plan, HashRecords
<1>3. key[1] = "sender" => \E tx \in get_transaction(value) : sender_key(tx) = key
  BY <1>0, <1>1 DEF Plan, IndexAfterRecord
<1>4. /\ DOMAIN transactions' = DOMAIN transactions \cup {key}
      /\ transactions'[key] = value
      /\ \A k \in DOMAIN transactions : k # key => transactions'[k] = transactions[k]
  <2>1. transactions' = Put(transactions, key, value)
    BY <1>1
  <2>. QED
    BY <2>1 DEF Put
<1>5. ASSUME NEW h
      PROVE  /\ get_transaction(h) = IF hash_key(h) \in DOMAIN transactions
                                     THEN {transactions[hash_key(h)]} ELSE {}
             /\ get_transaction(h)' = IF hash_key(h) \in DOMAIN transactions'
                                      THEN {transactions'[hash_key(h)]} ELSE {}
  <2>1. ASSUME NEW f, NEW k
        PROVE  {f[x] : x \in DOMAIN f \cap {k}} = IF k \in DOMAIN f THEN {f[k]} ELSE {}
    <3>1. CASE k \in DOMAIN f
      BY <3>1
    <3>2. CASE k \notin DOMAIN f
      BY <3>2
    <3>. QED
      BY <3>1, <3>2
  <2>. QED
    BY <2>1 DEF get_transaction
<1>6. \A h : hash_key(h)[1] = "hash"
  BY DEF hash_key
<1>7. \A g, h : hash_key(g) = hash_key(h) => g = h
  BY DEF hash_key
\* What is found is found still.
<1>8. ASSUME NEW h, get_transaction(h) # {}
      PROVE  get_transaction(h)' = get_transaction(h)
  <2>1. hash_key(h) \in DOMAIN transactions
    BY <1>5, <1>8
  <2>2. CASE hash_key(h) # key
    BY <2>1, <2>2, <1>4, <1>5
  <2>3. CASE hash_key(h) = key
    <3>1. key = hash_key(value.hash) /\ Hashed(value)
      BY <2>3, <1>2, <1>6
    <3>2. key = hash_key(transactions[key].hash) /\ Hashed(transactions[key])
      BY <2>1, <2>3, <1>0, <1>6 DEF Trees, TransactionsUnderHash
    <3>3. transactions[key].hash = value.hash
      BY <3>1, <3>2, <1>7
    <3>4. transactions[key] = value
      BY <3>1, <3>2, <3>3, HashIdentifies
    <3>. QED
      BY <2>1, <2>3, <3>4, <1>4, <1>5
  <2>. QED
    BY <2>2, <2>3
<1>9. ASSUME NEW h, hash_key(h) = key
      PROVE  get_transaction(h)' = {value}
  BY <1>4, <1>5, <1>9
<1>10. Sequence'
  BY <1>0 DEF Sequence
<1>11. IndexAfterRecord'
  <2>1. ASSUME NEW i \in DOMAIN todo', todo'[i].op = "transactions", todo'[i].key[1] = "sender"
        PROVE  IF i = 1
               THEN hash_key(todo'[i].value) = key /\ sender_key(value) = todo'[i].key
               ELSE /\ todo'[i - 1].op = "transactions"
                    /\ todo'[i - 1].key = hash_key(todo'[i].value)
                    /\ sender_key(todo'[i - 1].value) = todo'[i].key
    <3>1. i + 1 \in DOMAIN todo /\ todo'[i] = todo[i + 1] /\ i + 1 # 1 /\ (i + 1) - 1 = i /\ i \in DOMAIN todo
      BY DEF Shift
    <3>2. /\ todo[i].op = "transactions"
          /\ todo[i].key = hash_key(todo[i + 1].value)
          /\ sender_key(todo[i].value) = todo[i + 1].key
      BY <1>0, <2>1, <3>1 DEF Plan, IndexAfterRecord
    <3>. QED
      BY <1>1, <3>1, <3>2 DEF Shift
  <2>2. \A h : hash_key(h) = key =>
               {transactions'[k] : k \in DOMAIN transactions' \cap {hash_key(h)}} = {value}
    BY <1>9 DEF get_transaction
  <2>. QED
    BY <2>1, <2>2 DEF IndexAfterRecord, get_transaction
<1>12. BodyBeforeTip'
  <2>1. ASSUME NEW i \in DOMAIN todo', todo'[i].op = "chain_tip",
               NEW tx \in Range(todo'[i].block.body)
        PROVE  /\ Hashed(tx)
               /\ \/ get_transaction(tx.hash)' = {tx}
                  \/ \E j \in 1..(i - 1) :
                       /\ todo'[j].op = "transactions"
                       /\ todo'[j].key = hash_key(tx.hash)
                       /\ todo'[j].value = tx
    <3>1. i + 1 \in DOMAIN todo /\ todo'[i] = todo[i + 1] /\ (i + 1) - 1 = i /\ i \in Int
      BY DEF Shift
    <3>2. /\ Hashed(tx)
          /\ \/ get_transaction(tx.hash) = {tx}
             \/ \E j \in 1..i :
                  /\ todo[j].op = "transactions"
                  /\ todo[j].key = hash_key(tx.hash)
                  /\ todo[j].value = tx
      BY <1>0, <2>1, <3>1 DEF Plan, BodyBeforeTip
    <3>3. CASE get_transaction(tx.hash) = {tx}
      BY <3>2, <3>3, <1>8
    <3>4. ASSUME NEW j \in 1..i, todo[j].op = "transactions", todo[j].key = hash_key(tx.hash),
                 todo[j].value = tx
          PROVE  \/ get_transaction(tx.hash)' = {tx}
                 \/ \E k \in 1..(i - 1) : /\ todo'[k].op = "transactions"
                                          /\ todo'[k].key = hash_key(tx.hash)
                                          /\ todo'[k].value = tx
      <4>1. CASE j = 1
        BY <4>1, <3>4, <1>1, <1>9
      <4>2. CASE j # 1
        <5>1. j \in DOMAIN todo /\ j - 1 \in 1..(i - 1)
          BY <3>1, <4>2 DEF Shift
        <5>2. todo'[j - 1] = todo[j]
          BY <5>1, <4>2 DEF Shift
        <5>. QED
          BY <5>1, <5>2, <3>4
      <4>. QED
        BY <4>1, <4>2
    <3>. QED
      BY <3>2, <3>3, <3>4
  <2>. QED
    BY <2>1 DEF BodyBeforeTip, get_transaction
<1>13. Plan'
  BY <1>0, <1>11, <1>12, KeepSingles, KeepFresh, KeepHeight, KeepTip, KeepRoot DEF Plan
<1>14. BlocksUnderHash' /\ OneTip' /\ RootOfAccounts'
  BY <1>0 DEF Trees, BlocksUnderHash, OneTip, RootOfAccounts
<1>15. TransactionsUnderHash'
  BY <1>0, <1>2, <1>4 DEF Trees, TransactionsUnderHash
<1>16. \A h : get_block_by_height(h)' = get_block_by_height(h)
  BY DEF get_block_by_height
<1>17. HeightIndexResolves'
  BY <1>0, <1>16 DEF Trees, HeightIndexResolves
<1>18. verify_genesis_integrity' = verify_genesis_integrity /\ OnChain' = OnChain
  BY <1>16 DEF verify_genesis_integrity, OnChain
<1>19. TipHeadsChain'
  BY <1>0, <1>16, <1>18 DEF Trees, TipHeadsChain
<1>20. OnChainFound' /\ OnChainHashed'
  BY <1>0, <1>8, <1>18 DEF Trees, OnChainFound, OnChainHashed
<1>21. SenderIndexResolves'
  <2>1. ASSUME NEW k \in DOMAIN transactions', k[1] = "sender"
        PROVE  \E v : /\ transactions'[k] = v
                      /\ \E tx \in get_transaction(v)' : sender_key(tx) = k
    <3>1. CASE k = key
      <4>1. \E tx \in get_transaction(value) : sender_key(tx) = k
        BY <2>1, <3>1, <1>3
      <4>2. get_transaction(value)' = get_transaction(value)
        BY <4>1, <1>8
      <4>. QED
        BY <3>1, <4>1, <4>2, <1>4
    <3>2. CASE k # key
      <4>1. PICK v : v = transactions[k]
        OBVIOUS
      <4>2. k \in DOMAIN transactions /\ transactions'[k] = v
        BY <2>1, <3>2, <4>1, <1>4
      <4>3. \E tx \in get_transaction(v) : sender_key(tx) = k
        BY <2>1, <4>1, <4>2, <1>0 DEF Trees, SenderIndexResolves
      <4>4. get_transaction(v)' = get_transaction(v)
        BY <4>3, <1>8
      <4>. QED
        BY <4>2, <4>3, <4>4
    <3>. QED
      BY <3>1, <3>2
  <2>. QED
    BY <2>1 DEF SenderIndexResolves, get_transaction
<1>. QED
  BY <1>10, <1>13, <1>14, <1>15, <1>17, <1>19, <1>20, <1>21 DEF StoreInv, Trees

\* What is known when the tip is the next write: it is the last one, its
\* block is indexed on top of the tip, its transactions can be found and the
\* root is that of the accounts.
LEMMA TipReady ==
    ASSUME StoreInv, Shift, todo[1].op = "chain_tip"
    PROVE  /\ DOMAIN todo' = {}
           /\ NextBlock(todo[1].block)
           /\ Indexed(todo[1].block)
           /\ \A tx \in Range(todo[1].block.body) : Hashed(tx) /\ get_transaction(tx.hash) = {tx}
           /\ state_root = accounts
<1>0. Plan /\ Trees /\ 1 \in DOMAIN todo /\ 1..(1 - 1) = {}
  BY DEF StoreInv, Shift
<1>1. 1 = Len(todo) /\ Indexed(todo[1].block)
  BY <1>0 DEF Plan, TipLast
<1>2. DOMAIN todo' = {}
  <2>1. DOMAIN todo' = 1..(Len(todo) - 1) /\ 1..(1 - 1) = {}
    BY DEF Shift
  <2>. QED
    BY <1>1, <2>1
<1>3. NextBlock(todo[1].block)
  BY <1>0 DEF Plan, OfNextBlock, BlockOps
<1>4. \A tx \in Range(todo[1].block.body) : Hashed(tx) /\ get_transaction(tx.hash) = {tx}
  BY <1>0 DEF Plan, BodyBeforeTip
<1>5. state_root = accounts
  BY <1>0 DEF Plan, RootAfterCredits, Trees, RootOfAccounts
<1>. QED
  BY <1>1, <1>2, <1>3, <1>4, <1>5

\* The write of the tip.
LEMMA WriteTip ==
    ASSUME StoreInv, Shift, todo' \in Seq(Range(todo')), todo[1].op = "chain_tip",
           chain_tip' = {todo[1].block},
           UNCHANGED <<accounts, blocks_by_hash, blocks_by_height, transactions, state_root>>,
           mined' = mined
    PROVE  StoreInv'
<1>0. Trees /\ Sequence
  BY DEF StoreInv
<1>1. PICK b : b = todo[1].block
  OBVIOUS
<1>2. /\ DOMAIN todo' = {} /\ NextBlock(b) /\ Indexed(b) /\ state_root = accounts
      /\ \A tx \in Range(b.body) : Hashed(tx) /\ get_transaction(tx.hash) = {tx}
  BY <1>1, TipReady
<1>3. Sequence' /\ Plan'
  BY <1>0, <1>2, NothingPlanned DEF Sequence
<1>4. \A h : get_block_by_height(h)' = get_block_by_height(h)
  BY DEF get_block_by_height
<1>5. \A h : get_transaction(h)' = get_transaction(h)
  BY DEF get_transaction
<1>6. get_block_by_height(b.index) = {b}
  <2>1. get_block_by_height(b.index)
          = IF b.index \in DOMAIN blocks_by_height /\ blocks_by_height[b.index] \in DOMAIN blocks_by_hash
            THEN {blocks_by_hash[blocks_by_height[b.index]]} ELSE {}
    BY AtHeight DEF get_block_by_height
  <2>. QED
    BY <2>1, <1>2 DEF Indexed, Stored
<1>7. \/ chain_tip = {} /\ b.index = 0 /\ b.previous_hash = 0 /\ b.is_epoch_block /\ b.producer = GENESIS_MINER
      \/ \E tip \in chain_tip : /\ chain_tip = {tip} /\ tip.index \in Nat
                                /\ b.index = tip.index + 1 /\ b.previous_hash = tip.hash
  BY <1>0, <1>2 DEF Trees, OneTip, NextBlock
<1>8. BlocksUnderHash' /\ TransactionsUnderHash' /\ RootOfAccounts'
  BY <1>0, <1>2 DEF Trees, BlocksUnderHash, TransactionsUnderHash, RootOfAccounts
<1>9. OneTip' /\ b.index \in Nat
  BY <1>1, <1>7 DEF OneTip
<1>10. HeightIndexResolves' /\ SenderIndexResolves'
  BY <1>0, <1>4, <1>5 DEF Trees, HeightIndexResolves, SenderIndexResolves
<1>11. /\ verify_genesis_integrity
       /\ \A h \in 1..b.index :
            \E c \in get_block_by_height(h), p \in get_block_by_height(h - 1) :
               c.previous_hash = p.hash
  <2>1. CASE chain_tip = {} /\ b.index = 0 /\ b.previous_hash = 0 /\ b.is_epoch_block /\ b.producer = GENESIS_MINER
    BY <2>1, <1>6 DEF verify_genesis_integrity
  <2>2. ASSUME NEW tip \in chain_tip, tip.index \in Nat,
               b.index = tip.index + 1, b.previous_hash = tip.hash
        PROVE  /\ verify_genesis_integrity
               /\ \A h \in 1..b.index :
                    \E c \in get_block_by_height(h), p \in get_block_by_height(h - 1) :
                       c.previous_hash = p.hash
    <3>1. /\ verify_genesis_integrity
          /\ get_block_by_height(tip.index) = {tip}
          /\ \A h \in 1..tip.index :
               \E c \in get_block_by_height(h), p \in get_block_by_height(h - 1) :
                  c.previous_hash = p.hash
      BY <1>0 DEF Trees, TipHeadsChain
    <3>2. b.index - 1 = tip.index /\ \A h \in 1..b.index : h = b.index \/ h \in 1..tip.index
      BY <2>2
    <3>. QED
      BY <2>2, <3>1, <3>2, <1>6
  <2>. QED
    BY <2>1, <2>2, <1>7
<1>12. TipHeadsChain'
  <2>1. verify_genesis_integrity'
    BY <1>4, <1>11 DEF verify_genesis_integrity
  <2>. QED
    BY <2>1, <1>1, <1>4, <1>6, <1>11 DEF TipHeadsChain
<1>13. ASSUME NEW tx \in OnChain'
       PROVE  Hashed(tx) /\ get_transaction(tx.hash) = {tx}
  <2>1. PICK h \in 0..b.index : \E c \in get_block_by_height(h) : tx \in Range(c.body)
    BY <1>1, <1>4 DEF OnChain
  <2>2. CASE h = b.index
    BY <2>1, <2>2, <1>2, <1>6
  <2>3. CASE h # b.index
    <3>1. PICK tip \in chain_tip : tip.index \in Nat /\ b.index = tip.index + 1
      BY <2>1, <2>3, <1>7, <1>9
    <3>2. h \in 0..tip.index
      BY <2>1, <2>3, <3>1
    <3>3. tx \in OnChain
      BY <2>1, <3>1, <3>2 DEF OnChain
    <3>. QED
      BY <3>3, <1>0 DEF Trees, OnChainFound, OnChainHashed
  <2>. QED
    BY <2>2, <2>3
<1>14. OnChainFound' /\ OnChainHashed'
  BY <1>5, <1>13 DEF OnChainFound, OnChainHashed
<1>. QED
  BY <1>3, <1>8, <1>9, <1>10, <1>12, <1>14 DEF StoreInv, Trees

\* Every write keeps the invariant.
LEMMA WriteStep ==
    ASSUME StoreInv, Write
    PROVE  StoreInv'
<1> DEFINE w == todo[1]
           credit == credit_account(accounts, w.to, w.amount)
<1>0. Head(todo) = w /\ mined' = mined /\ todo # <<>>
  BY FirstWrite DEF Write, StoreInv
<1>1. ASSUME todo' = Tail(todo)
      PROVE  Shift /\ todo' \in Seq(Range(todo'))
  BY <1>0, <1>1, TailShift DEF StoreInv
<1>2. CASE /\ w.op = "credit"
           /\ accounts' = credit.accts
           /\ todo' = IF credit.ok THEN Tail(todo) ELSE <<>>
           /\ UNCHANGED <<blocks_by_hash, blocks_by_height, transactions, state_root, chain_tip>>
  <2>1. CASE credit.ok
    BY <1>0, <1>1, <1>2, <2>1, WriteCredit
  <2>2. CASE ~credit.ok
    <3>1. credit.accts = accounts
      BY <2>2 DEF credit_account, Ok, Err
    <3>. QED
      BY <1>0, <1>2, <2>2, <3>1, CallEnds DEF trees
  <2>. QED
    BY <2>1, <2>2
<1>3. CASE /\ w.op = "by_hash" /\ todo' = Tail(todo)
           /\ blocks_by_hash' = Put(blocks_by_hash, w.block.hash, w.block)
           /\ UNCHANGED <<accounts, blocks_by_height, transactions, state_root, chain_tip>>
  BY <1>0, <1>1, <1>3, WriteByHash
<1>4. CASE /\ w.op = "by_height" /\ todo' = Tail(todo)
           /\ blocks_by_height' = Put(blocks_by_height, w.block.index, w.block.hash)
           /\ UNCHANGED <<accounts, blocks_by_hash, transactions, state_root, chain_tip>>
  BY <1>0, <1>1, <1>4, WriteByHeight
<1>5. CASE /\ w.op = "transactions" /\ todo' = Tail(todo)
           /\ transactions' = Put(transactions, w.key, w.value)
           /\ UNCHANGED <<accounts, blocks_by_hash, blocks_by_height, state_root, chain_tip>>
  BY <1>0, <1>1, <1>5, WriteTransaction
<1>6. CASE /\ w.op = "state_root" /\ todo' = Tail(todo)
           /\ state_root' = accounts
           /\ UNCHANGED <<accounts, blocks_by_hash, blocks_by_height, transactions, chain_tip>>
  BY <1>0, <1>1, <1>6, WriteRoot
<1>7. CASE /\ w.op = "chain_tip" /\ todo' = Tail(todo)
           /\ chain_tip' = {w.block}
           /\ UNCHANGED <<accounts, blocks_by_hash, blocks_by_height, transactions, state_root>>
  BY <1>0, <1>1, <1>7, WriteTip
<1>. QED
  BY <1>0, <1>2, <1>3, <1>4, <1>5, <1>6, <1>7 DEF Write

-----------------------------------------------------------------------------
\* StoreInv holds of the empty database and every step keeps it.
THEOREM ChainStoreInvariant == Spec => []StoreInv
<1>1. Init => StoreInv
  <2>. SUFFICES ASSUME Init
                PROVE  StoreInv
    OBVIOUS
  <2>1. todo = <<>> /\ DOMAIN todo = {} /\ todo \in Seq(Range(todo)) /\ mined = 0 /\ chain_tip = {}
    BY DEF Init
  <2>2. /\ DOMAIN accounts = {} /\ DOMAIN state_root = {} /\ DOMAIN blocks_by_hash = {}
        /\ DOMAIN blocks_by_height = {} /\ DOMAIN transactions = {}
        /\ accounts = EmptyTree /\ state_root = EmptyTree
    BY DEF Init, EmptyTree
  <2>3. IsAccountMap(EmptyTree)
    BY DEF IsAccountMap, EmptyTree
  <2>4. Sequence
    BY <2>1, <2>2, <2>3, StoreBoundsAssumption DEF Sequence
  <2>5. Plan
    BY <2>1 DEF Plan, GenesisWrites, ByHashFresh, OfNextBlock, HeightAfterBlock, TipLast,
                RootAfterCredits, HashRecords, IndexAfterRecord, BodyBeforeTip
  <2>6. OnChain = {}
    BY <2>1 DEF OnChain
  <2>7. Trees
    BY <2>1, <2>2, <2>6
       DEF Trees, BlocksUnderHash, TransactionsUnderHash, OneTip, HeightIndexResolves,
           SenderIndexResolves, TipHeadsChain, RootOfAccounts, OnChainFound, OnChainHashed
  <2>. QED
    BY <2>4, <2>5, <2>7 DEF StoreInv
<1>2. StoreInv /\ [Next]_vars => StoreInv'
  <2>. SUFFICES ASSUME StoreInv, [Next]_vars
                PROVE  StoreInv'
    OBVIOUS
  <2>1. CASE UNCHANGED vars
    <3>1. UNCHANGED <<trees, todo, mined>>
      BY <2>1 DEF vars
    <3>2. Sequence'
      BY <3>1 DEF StoreInv, Sequence, trees
    <3>3. Plan'
      <4>1. /\ UNCHANGED accounts /\ UNCHANGED blocks_by_hash /\ UNCHANGED blocks_by_height
            /\ UNCHANGED transactions /\ UNCHANGED state_root /\ UNCHANGED chain_tip
            /\ UNCHANGED todo /\ UNCHANGED mined
        BY <3>1 DEF trees
      <4>2. GenesisWrites' /\ HashRecords' /\ RootAfterCredits'
        BY <4>1 DEF StoreInv, Plan, GenesisWrites, HashRecords, RootAfterCredits
      <4>3. ByHashFresh' /\ OfNextBlock'
        BY <4>1 DEF StoreInv, Plan, ByHashFresh, OfNextBlock, NextBlock
      <4>4. HeightAfterBlock' /\ TipLast'
        BY <4>1 DEF StoreInv, Plan, HeightAfterBlock, TipLast, Indexed, Stored
      <4>5. IndexAfterRecord' /\ BodyBeforeTip'
        BY <4>1 DEF StoreInv, Plan, IndexAfterRecord, BodyBeforeTip, get_transaction
      <4>. QED
        BY <4>2, <4>3, <4>4, <4>5 DEF Plan
    <3>4. Trees'
      <4>1. mined' \in Nat /\ mined <= mined'
        BY <3>1, StoreBoundsAssumption DEF StoreInv, Sequence
      <4>. QED
        BY <3>1, <4>1, TreesUnchanged DEF StoreInv
    <3>. QED
      BY <3>2, <3>3, <3>4 DEF StoreInv
  <2>. QED
    BY <2>1, InitializeStep, AcceptStep, WriteStep, CallEnds DEF Next, Crash
<1>. QED
  BY <1>1, <1>2, PTL DEF Spec

\* Every entry of an index leads to what it names, whatever was left half
\* saved by a call that was stopped: save_block and save_transaction write the
\* entry after what it leads to.
THEOREM ChainStoreIndexesResolve == Spec => []IndexesResolve
<1>1. StoreInv => IndexesResolve
  <2>. SUFFICES ASSUME StoreInv
                PROVE  IndexesResolve
    OBVIOUS
  <2>1. Cardinality(chain_tip) <= 1
    <3>1. CASE chain_tip = {}
      BY <3>1, FS_EmptySet
    <3>2. CASE chain_tip # {}
      <4>1. PICK tip : chain_tip = {tip}
        BY <3>2 DEF StoreInv, Trees, OneTip
      <4>. QED
        BY <4>1, FS_Singleton
    <3>. QED
      BY <3>1, <3>2
  <2>2. TypeOK
    BY <2>1, StoreBoundsAssumption DEF TypeOK, StoreInv, Sequence, Trees, BlocksUnderHash
  <2>. QED
    BY <2>2 DEF IndexesResolve, StoreInv, Trees
<1>. QED
  BY <1>1, ChainStoreInvariant, PTL

\* The tip a node resumes from is a stored block, over a hash-linked chain
\* down to a genesis block, however often the node was stopped.
THEOREM ChainStoreTipHeadsChain == Spec => []TipHeadsChain
<1>1. StoreInv => TipHeadsChain
  BY DEF StoreInv, Trees
<1>. QED
  BY <1>1, ChainStoreInvariant, PTL

\* A transaction of a block at or below the tip is found under its hash.
THEOREM ChainStoreOnChainFound == Spec => []OnChainFound
<1>1. StoreInv => OnChainFound
  BY DEF StoreInv, Trees
<1>. QED
  BY <1>1, ChainStoreInvariant, PTL

\* With a tip, the saved state root is that of the accounts.
THEOREM ChainStoreRootOfAccounts == Spec => []RootOfAccounts
<1>1. StoreInv => RootOfAccounts
  BY DEF StoreInv, Trees
<1>. QED
  BY <1>1, ChainStoreInvariant, PTL

\* With a tip the accounts are not credited again, and the tip stays or moves
\* to a block on top of it: initialize_chain never runs over a chain.
THEOREM ChainStoreTipAdvances == Spec => TipAdvances
<1> DEFINE Step ==
      \A tip \in chain_tip :
          /\ accounts' = accounts
          /\ \E new \in chain_tip' :
               new = tip \/ (new.index = tip.index + 1 /\ new.previous_hash = tip.hash)
<1>1. StoreInv /\ [Next]_vars => [Step]_vars
  <2>. SUFFICES ASSUME StoreInv, Next, NEW tip \in chain_tip
                PROVE  /\ accounts' = accounts
                       /\ \E new \in chain_tip' :
                            new = tip \/ (new.index = tip.index + 1 /\ new.previous_hash = tip.hash)
    OBVIOUS
  <2>1. CASE initialize_chain \/ AcceptBlock \/ Crash
    BY <2>1 DEF initialize_chain, AcceptBlock, Crash, trees
  <2>2. CASE Write
    <3>1. Head(todo) = todo[1] /\ 1 \in DOMAIN todo
      BY <2>2, FirstWrite DEF Write, StoreInv
    <3>2. todo[1].op # "credit"
      BY <3>1 DEF StoreInv, Plan, GenesisWrites
    <3>3. CASE todo[1].op # "chain_tip"
      BY <2>2, <3>1, <3>2, <3>3 DEF Write
    <3>4. CASE todo[1].op = "chain_tip"
      <4>1. chain_tip' = {todo[1].block} /\ accounts' = accounts
        BY <2>2, <3>1, <3>4 DEF Write
      <4>2. Shift
        BY <2>2, <3>1, <3>4, TailShift DEF Write, StoreInv
      <4>3. NextBlock(todo[1].block)
        BY <3>1, <3>4, <4>2, TipReady
      <4>. QED
        BY <4>1, <4>3 DEF NextBlock
    <3>. QED
      BY <3>3, <3>4
  <2>. QED
    BY <2>1, <2>2 DEF Next
<1>. QED
  BY <1>1, ChainStoreInvariant, PTL DEF Spec, TipAdvances

-----------------------------------------------------------------------------
(***************************************************************************)
(* The coins of the genesis.  Each call of initialize_chain makes the      *)
(* credits Given in their order; a call that is stopped has made the first *)
(* few of them, and the next one starts over.                              *)
(***************************************************************************)
\* What the first d credits of a call add up to.
GivenAmounts == [j \in DOMAIN Given |-> Given[j].amount]
Paid(d) == SumFunctionOnSet(GivenAmounts, {j \in DOMAIN Given : j <= d})

\* The running call is initialize_chain and has made d of its writes: what is
\* left starts with the credits it has not made and ends with the tip.
GenesisPlace(d) ==
    /\ d \in 0..(Len(Given) + 3)
    /\ Len(todo) = Len(Given) + 4 - d
    /\ \A i \in DOMAIN todo :
         /\ IF d + i <= Len(Given) THEN todo[i] = Credit(Given[d + i])
            ELSE todo[i].op # "credit"
         /\ d + i = Len(Given) + 4 => todo[i].op = "chain_tip"

\* Without a tip, every call that was stopped has paid out at most the whole
\* supply and the running call exactly its first d credits; with one, the call
\* that saved it has paid out all of it.
SupplyInv ==
    /\ crashes \in 0..MaxCrashes
    /\ (chain_tip = {} /\ todo = <<>>) => TotalBalance(accounts) <= crashes * GenesisSupply
    /\ (chain_tip = {} /\ todo # <<>>) =>
         \E d : /\ GenesisPlace(d)
                /\ Paid(d) <= TotalBalance(accounts)
                /\ TotalBalance(accounts) <= crashes * GenesisSupply + Paid(d)
    /\ chain_tip # {} => /\ GenesisSupply <= TotalBalance(accounts)
                         /\ TotalBalance(accounts) <= (1 + crashes) * GenesisSupply

\* The credits add up to the supply, one after the other.
LEMMA PaidInOrder ==
    /\ GenesisSupply \in Nat
    /\ Paid(0) = 0
    /\ \A d \in Nat : Paid(d) \in Nat /\ Paid(d) <= GenesisSupply
    /\ \A d \in Nat : Len(Given) <= d => Paid(d) = GenesisSupply
    /\ \A d \in Nat : d + 1 <= Len(Given) => Paid(d + 1) = Paid(d) + Given[d + 1].amount
<1> DEFINE n == Len(Given)
           m == Len(Allocations)
           A == [i \in DOMAIN Allocations |-> Allocations[i].amount]
<1>1. /\ m \in Nat /\ n = m + 1 /\ DOMAIN Given = 1..n /\ DOMAIN Allocations = 1..m
      /\ DOMAIN GivenAmounts = 1..n
      /\ \A i \in 1..n : GivenAmounts[i] \in Nat /\ GivenAmounts[i] = Given[i].amount
      /\ \A i \in 1..m : A[i] = GivenAmounts[i]
      /\ GivenAmounts[n] = GENESIS_BLOCK_REWARD
  BY GivenCredits DEF GivenAmounts
<1>2. DOMAIN A = 1..m
  BY <1>1
<1>. HIDE DEF n, m, A
<1>3. IsFiniteSet(1..n) /\ IsFiniteSet(1..m)
  <2>1. n \in Int /\ m \in Int
    BY <1>1
  <2>. QED
    BY <2>1, FS_Interval
<1>4. SumFunctionOnSet(GivenAmounts, 1..n) = GenesisSupply /\ GenesisSupply \in Nat
  <2>1. GenesisSupply = SumFunctionOnSet(A, 1..m) + GENESIS_BLOCK_REWARD
    BY <1>2 DEF GenesisSupply, SumFunction, SumFunctionOnSet, A
  <2>2. SumFunctionOnSet(A, 1..m) = SumFunctionOnSet(GivenAmounts, 1..m)
    <3>1. \A x \in 1..m : A[x] = GivenAmounts[x]
      BY <1>1
    <3>. QED
      BY <1>3, <3>1, SumSame
  <2>3. (1..n) \ {n} = 1..m /\ n \in 1..n
    BY <1>1
  <2>4. SumFunctionOnSet(GivenAmounts, 1..n) = GivenAmounts[n] + SumFunctionOnSet(GivenAmounts, (1..n) \ {n})
    <3>1. \A x \in 1..n : GivenAmounts[x] \in Int
      BY <1>1
    <3>. QED
      <4>1. \A a \in 1..n : SumFunctionOnSet(GivenAmounts, 1..n)
                               = GivenAmounts[a] + SumFunctionOnSet(GivenAmounts, (1..n) \ {a})
        BY <1>3, <3>1, SumRemove
      <4>. QED
        BY <2>3, <4>1
  <2>5. SumFunctionOnSet(GivenAmounts, 1..n) \in Nat /\ SumFunctionOnSet(GivenAmounts, 1..m) \in Int
    BY <1>1, <1>3, SumNat, SumRemove
  <2>6. GENESIS_BLOCK_REWARD \in Nat
    BY AllocationsAssumption DEF U64
  <2>. QED
    <3>1. PICK x, y, z : /\ x = SumFunctionOnSet(GivenAmounts, 1..n)
                         /\ y = SumFunctionOnSet(GivenAmounts, 1..m)
                         /\ z = GENESIS_BLOCK_REWARD
      OBVIOUS
    <3>2. x = z + y /\ GenesisSupply = y + z /\ x \in Nat /\ y \in Int /\ z \in Nat
      BY <1>1, <2>1, <2>2, <2>3, <2>4, <2>5, <2>6, <3>1
    <3>3. x = GenesisSupply
      BY <3>2
    <3>. QED
      BY <3>1, <3>2, <3>3
<1>5. \A d \in Nat : {j \in DOMAIN Given : j <= d} \in SUBSET (1..n)
  BY <1>1
<1>6. \A d \in Nat : Paid(d) \in Nat /\ Paid(d) <= GenesisSupply
  BY <1>1, <1>3, <1>4, <1>5, SumSubset DEF Paid
<1>7. Paid(0) = 0
  <2>1. {j \in DOMAIN Given : j <= 0} = {}
    BY <1>1
  <2>. QED
    BY <2>1, SumEmpty DEF Paid
<1>8. ASSUME NEW d \in Nat, Len(Given) <= d
      PROVE  Paid(d) = GenesisSupply
  <2>1. {j \in DOMAIN Given : j <= d} = 1..n
    BY <1>1, <1>8 DEF n
  <2>. QED
    BY <1>4, <2>1 DEF Paid
<1>9. ASSUME NEW d \in Nat, d + 1 <= Len(Given)
      PROVE  Paid(d + 1) = Paid(d) + Given[d + 1].amount
  <2> DEFINE T == {j \in DOMAIN Given : j <= d + 1}
  <2>1. d + 1 \in T /\ T \ {d + 1} = {j \in DOMAIN Given : j <= d} /\ T \subseteq 1..n
    BY <1>1, <1>9 DEF n
  <2>2. IsFiniteSet(T)
    BY <1>3, <2>1, FS_Subset
  <2>3. d + 1 \in 1..n
    BY <2>1
  <2>. HIDE DEF T
  <2>4. SumFunctionOnSet(GivenAmounts, T)
          = GivenAmounts[d + 1] + SumFunctionOnSet(GivenAmounts, T \ {d + 1})
    <3>1. \A x \in T : GivenAmounts[x] \in Int
      BY <1>1, <2>1
    <3>. QED
      <4>1. \A a \in T : SumFunctionOnSet(GivenAmounts, T)
                             = GivenAmounts[a] + SumFunctionOnSet(GivenAmounts, T \ {a})
        BY <2>2, <3>1, SumRemove
      <4>. QED
        BY <2>1, <4>1
  <2>5. Paid(d + 1) = GivenAmounts[d + 1] + Paid(d)
    BY <2>1, <2>4 DEF Paid, T
  <2>6. GivenAmounts[d + 1] = Given[d + 1].amount /\ GivenAmounts[d + 1] \in Nat /\ Paid(d) \in Nat
    BY <1>1, <1>6, <2>3
  <2>. QED
    BY <2>5, <2>6
<1>. QED
  BY <1>4, <1>6, <1>7, <1>8, <1>9

\* One supply more for every stop.
LEMMA SupplyTimes ==
    ASSUME NEW s \in Nat, NEW c \in Nat
    PROVE  /\ c * s \in Nat
           /\ (c + 1) * s = c * s + s
           /\ (1 + c) * s = c * s + s
           /\ \A m \in Nat : c <= m => (1 + c) * s <= (1 + m) * s
<1>1. ASSUME NEW m \in Nat, c <= m
      PROVE  (1 + c) * s <= (1 + m) * s
  <2>1. PICK e \in Nat : e = m - c
    BY <1>1
  <2>2. (1 + m) * s = (1 + c) * s + e * s
    <3>1. 1 + m = 1 + c + e
      BY <2>1
    <3>. QED
      BY <3>1
  <2>3. e * s \in Nat /\ (1 + c) * s \in Nat
    OBVIOUS
  <2>. QED
    BY <2>2, <2>3
<1>. QED
  BY <1>1

\* What every call may at most have added fits in a balance.
SupplyFits == (1 + MaxCrashes) * GenesisSupply <= MaxU64

\* The bounds as plain numbers: one call more than the stops so far still fits.
LEMMA SupplyRoom ==
    ASSUME SupplyFits, crashes \in 0..MaxCrashes
    PROVE  /\ crashes \in Nat /\ GenesisSupply \in Nat /\ crashes * GenesisSupply \in Nat
           /\ (1 + crashes) * GenesisSupply = crashes * GenesisSupply + GenesisSupply
           /\ (crashes + 1) * GenesisSupply = crashes * GenesisSupply + GenesisSupply
           /\ crashes * GenesisSupply + GenesisSupply <= MaxU64
<1>1. PICK s, c, m : s = GenesisSupply /\ c = crashes /\ m = MaxCrashes
  OBVIOUS
<1>2. s \in Nat /\ c \in Nat /\ m \in Nat /\ c <= m
  BY <1>1, PaidInOrder, StoreBoundsAssumption
<1>3. /\ c * s \in Nat /\ (c + 1) * s = c * s + s /\ (1 + c) * s = c * s + s
      /\ (1 + c) * s <= (1 + m) * s
  BY <1>2, SupplyTimes
<1>4. PICK x, y : x = (1 + c) * s /\ y = (1 + m) * s
  OBVIOUS
<1>5. y <= MaxU64 /\ x <= y /\ x \in Nat /\ y \in Nat
  BY <1>1, <1>2, <1>3, <1>4 DEF SupplyFits
<1>6. MaxU64 \in Nat
  BY WidthAssumption
<1>7. x <= MaxU64
  BY <1>5, <1>6
<1>. QED
  BY <1>1, <1>2, <1>3, <1>4, <1>7

\* The balances add up to a number.
LEMMA AccountsAddUp ==
    ASSUME StoreInv
    PROVE  IsAccountMap(accounts) /\ TotalBalance(accounts) \in Nat
<1>1. IsAccountMap(accounts) /\ GENESIS_MINER \in Address
  BY AllocationsAssumption DEF StoreInv, Sequence
<1>. QED
  BY <1>1, HoldingBound

\* initialize_chain is at its first write.
LEMMA SupplyInitialize ==
    ASSUME StoreInv, SupplyInv, SupplyFits, initialize_chain
    PROVE  SupplyInv'
<1> DEFINE b == produce_genesis_block(mined')
<1>1. /\ chain_tip = {} /\ todo = <<>> /\ todo' = initialize_writes(b)
      /\ chain_tip' = chain_tip /\ accounts' = accounts /\ crashes' = crashes
  BY DEF initialize_chain, trees
<1>. HIDE DEF b
<1>2. PICK w, n, W : IsGenesisCall(w, n, b, W)
  BY GenesisCall
<1>3. /\ todo' = w /\ w \in Seq(W) /\ n = Len(Given) /\ n \in Nat \ {0} /\ Len(w) = n + 4
      /\ \A i \in 1..n : w[i] = Credit(Given[i])
      /\ w[n + 1].op = "by_hash" /\ w[n + 2].op = "by_height" /\ w[n + 3].op = "state_root"
      /\ w[n + 4].op = "chain_tip"
  BY <1>1, <1>2 DEF IsGenesisCall, ByHash, ByHeight, Root, Tip
<1>4. todo' # <<>> /\ DOMAIN w = 1..(n + 4)
  BY <1>3
<1>5. \A i \in 1..(n + 4) : i \in 1..n \/ i = n + 1 \/ i = n + 2 \/ i = n + 3 \/ i = n + 4
  BY <1>3
<1>6. \A i \in 1..(n + 4) : /\ 0 + i = i /\ (i \in 1..n <=> i <= n)
                            /\ (i = n + 4 => w[i].op = "chain_tip")
  BY <1>3
<1>7. \A i \in 1..(n + 4) : i \notin 1..n => w[i].op # "credit"
  BY <1>3, <1>5
<1>8. GenesisPlace(0)'
  <2>1. 0 \in 0..(n + 3) /\ Len(w) = n + 4 - 0
    BY <1>3
  <2>. QED
    BY <1>3, <1>4, <1>6, <1>7, <2>1 DEF GenesisPlace
<1>9. /\ TotalBalance(accounts) <= crashes * GenesisSupply
      /\ crashes \in 0..MaxCrashes
  BY <1>1 DEF SupplyInv
<1>10. TotalBalance(accounts) \in Nat
  BY AccountsAddUp
<1>11. Paid(0) <= TotalBalance(accounts) /\ TotalBalance(accounts) <= crashes * GenesisSupply + Paid(0)
  <2>1. PICK t, x, p : t = TotalBalance(accounts) /\ x = crashes * GenesisSupply /\ p = Paid(0)
    OBVIOUS
  <2>2. t \in Nat /\ x \in Nat /\ p = 0 /\ t <= x
    BY <1>9, <1>10, <2>1, PaidInOrder, SupplyRoom
  <2>3. p <= t /\ t <= x + p
    BY <2>2
  <2>. QED
    BY <2>1, <2>3
<1>. QED
  BY <1>1, <1>4, <1>8, <1>9, <1>11 DEF SupplyInv

\* A stopped call has added at most one supply.
LEMMA SupplyCrash ==
    ASSUME StoreInv, SupplyInv, SupplyFits, Crash
    PROVE  SupplyInv'
<1>1. /\ crashes < MaxCrashes /\ crashes' = crashes + 1 /\ todo # <<>> /\ todo' = <<>>
      /\ chain_tip' = chain_tip /\ accounts' = accounts /\ crashes \in 0..MaxCrashes
  BY DEF Crash, trees, SupplyInv
<1>2. PICK t, x, s : t = TotalBalance(accounts) /\ x = crashes * GenesisSupply /\ s = GenesisSupply
  OBVIOUS
<1>3. /\ t \in Nat /\ x \in Nat /\ s \in Nat
      /\ (1 + crashes) * s = x + s /\ (crashes + 1) * s = x + s
  BY <1>1, <1>2, SupplyRoom, AccountsAddUp
<1>4. crashes' \in 0..MaxCrashes /\ crashes' = crashes + 1 /\ crashes' \in Nat
  BY <1>1, StoreBoundsAssumption
<1>5. crashes' * s = x + s
  BY <1>3, <1>4
<1>6. (1 + crashes') * s = x + s + s
  <2>1. (1 + crashes') * s = crashes' * s + s
    BY <1>3, <1>4, SupplyTimes
  <2>. QED
    BY <1>5, <2>1
<1>7. CASE chain_tip = {}
  <2>1. PICK d : GenesisPlace(d) /\ t <= x + Paid(d)
    BY <1>1, <1>2, <1>7 DEF SupplyInv
  <2>2. d \in Nat
    BY <2>1, GivenCredits DEF GenesisPlace
  <2>3. Paid(d) \in Nat /\ Paid(d) <= s
    BY <1>2, <2>2, PaidInOrder
  <2>4. t <= x + s
    BY <1>3, <2>1, <2>3
  <2>. QED
    BY <1>1, <1>2, <1>4, <1>5, <1>7, <2>4 DEF SupplyInv
<1>8. CASE chain_tip # {}
  <2>1. s <= t /\ t <= x + s
    BY <1>2, <1>3, <1>8 DEF SupplyInv
  <2>2. t <= x + s + s
    BY <1>3, <2>1
  <2>. QED
    BY <1>1, <1>2, <1>4, <1>6, <1>8, <2>1, <2>2 DEF SupplyInv
<1>. QED
  BY <1>7, <1>8

\* The next write of a genesis call is its credit number d + 1, or no credit.
LEMMA NextPlace ==
    ASSUME Shift, NEW d, GenesisPlace(d)
    PROVE  /\ d \in Nat
           /\ d + 1 <= Len(Given) => todo[1] = Credit(Given[d + 1])
           /\ ~(d + 1 <= Len(Given)) => todo[1].op # "credit" /\ Len(Given) <= d
           /\ d + 1 # Len(Given) + 4 => GenesisPlace(d + 1)' /\ DOMAIN todo' # {}
           /\ d + 1 = Len(Given) + 4 => todo[1].op = "chain_tip"
<1>1. /\ d \in 0..(Len(Given) + 3) /\ Len(todo) = Len(Given) + 4 - d /\ Len(Given) \in Nat
      /\ \A i \in DOMAIN todo :
           /\ d + i <= Len(Given) => todo[i] = Credit(Given[d + i])
           /\ ~(d + i <= Len(Given)) => todo[i].op # "credit"
           /\ d + i = Len(Given) + 4 => todo[i].op = "chain_tip"
  BY GivenCredits DEF GenesisPlace
<1>2. /\ 1 \in DOMAIN todo /\ Len(todo') = Len(todo) - 1 /\ DOMAIN todo' = 1..(Len(todo) - 1)
      /\ \A i \in DOMAIN todo' : i + 1 \in DOMAIN todo /\ todo'[i] = todo[i + 1]
  BY DEF Shift
<1>3. ASSUME d + 1 # Len(Given) + 4
      PROVE  GenesisPlace(d + 1)' /\ DOMAIN todo' # {}
  <2>1. d + 1 \in 0..(Len(Given) + 3) /\ Len(todo') = Len(Given) + 4 - (d + 1) /\ 1 \in DOMAIN todo'
    BY <1>1, <1>2, <1>3
  <2>2. ASSUME NEW i \in DOMAIN todo'
        PROVE  /\ IF d + 1 + i <= Len(Given) THEN todo'[i] = Credit(Given[d + 1 + i])
                  ELSE todo'[i].op # "credit"
               /\ d + 1 + i = Len(Given) + 4 => todo'[i].op = "chain_tip"
    <3>1. i + 1 \in DOMAIN todo /\ todo'[i] = todo[i + 1]
      BY <1>2
    <3>2. d + (i + 1) = d + 1 + i
      BY <1>1, <1>2
    <3>. QED
      BY <1>1, <3>1, <3>2
  <2>3. GenesisPlace(d + 1)'
    BY <2>1, <2>2 DEF GenesisPlace, Given
  <2>. QED
    BY <2>1, <2>3
<1>4. d \in Nat /\ (~(d + 1 <= Len(Given)) => Len(Given) <= d)
  BY <1>1
<1>. QED
  BY <1>1, <1>2, <1>3, <1>4

\* A write of the genesis call: a credit adds its amount, the tip comes when
\* all of them are paid, and the other writes touch no account.
LEMMA SupplyWriteGenesis ==
    ASSUME StoreInv, SupplyInv, SupplyFits, Write, chain_tip = {}
    PROVE  SupplyInv'
<1> DEFINE w == todo[1]
           credit == credit_account(accounts, w.to, w.amount)
<1>1. /\ Head(todo) = w /\ 1 \in DOMAIN todo /\ todo # <<>> /\ Sequence
      /\ crashes' = crashes /\ crashes \in 0..MaxCrashes
  BY FirstWrite DEF Write, StoreInv, SupplyInv
<1>2. PICK d : /\ GenesisPlace(d)
               /\ Paid(d) <= TotalBalance(accounts)
               /\ TotalBalance(accounts) <= crashes * GenesisSupply + Paid(d)
  BY <1>1 DEF SupplyInv
<1>3. PICK t, x, s, p : /\ t = TotalBalance(accounts) /\ x = crashes * GenesisSupply
                        /\ s = GenesisSupply /\ p = Paid(d)
  OBVIOUS
<1>4. d \in Nat
  BY <1>2, GivenCredits DEF GenesisPlace
<1>5. /\ t \in Nat /\ x \in Nat /\ s \in Nat /\ p \in Nat /\ p <= s /\ p <= t /\ t <= x + p
      /\ x + s <= MaxU64 /\ MaxU64 \in Nat /\ (1 + crashes) * s = x + s
  BY <1>1, <1>2, <1>3, <1>4, AccountsAddUp, PaidInOrder, SupplyRoom, WidthAssumption
<1>6. ASSUME todo' = Tail(todo)
      PROVE  /\ Shift
             /\ d + 1 <= Len(Given) => w = Credit(Given[d + 1])
             /\ ~(d + 1 <= Len(Given)) => w.op # "credit" /\ Len(Given) <= d
             /\ d + 1 # Len(Given) + 4 => GenesisPlace(d + 1)' /\ DOMAIN todo' # {}
             /\ d + 1 = Len(Given) + 4 => w.op = "chain_tip"
  <2>1. Shift
    BY <1>1, <1>6, TailShift
  <2>. QED
    BY <1>2, <2>1, NextPlace
<1>7. d + 1 <= Len(Given) => w = Credit(Given[d + 1])
  BY <1>1, <1>2, <1>4 DEF GenesisPlace
<1>8. ~(d + 1 <= Len(Given)) => w.op # "credit"
  BY <1>1, <1>2, <1>4 DEF GenesisPlace
<1>9. CASE /\ w.op = "credit"
           /\ accounts' = credit.accts
           /\ todo' = IF credit.ok THEN Tail(todo) ELSE <<>>
           /\ chain_tip' = chain_tip
  <2>1. d + 1 <= Len(Given) /\ w.to = Given[d + 1].to /\ w.amount = Given[d + 1].amount
    BY <1>7, <1>8, <1>9 DEF Credit
  <2>2. w.to \in Address /\ w.amount \in Nat /\ Len(Given) \in Nat
    BY <1>4, <2>1, GivenCredits
  <2>3. Paid(d + 1) = p + w.amount /\ Paid(d + 1) <= s
    <3>1. Paid(d + 1) = Paid(d) + Given[d + 1].amount
      BY <1>4, <2>1, PaidInOrder
    <3>2. d + 1 \in Nat
      BY <1>4
    <3>3. Paid(d + 1) <= GenesisSupply
      BY <3>2, PaidInOrder
    <3>. QED
      BY <1>3, <2>1, <3>1, <3>3
  <2>4. t + w.amount <= MaxU64
    BY <1>5, <2>2, <2>3
  <2>5. credit.ok /\ TotalBalance(credit.accts) = t + w.amount
    <3>1. IsAccountMap(accounts) /\ TotalBalance(accounts) + w.amount <= MaxU64
      BY <1>3, <2>4, AccountsAddUp
    <3>. HIDE DEF w
    <3>. QED
      BY <1>3, <2>2, <3>1, CreditTotals
  <2>6. todo' = Tail(todo) /\ TotalBalance(accounts)' = t + w.amount
    BY <1>9, <2>5
  <2>7. GenesisPlace(d + 1)' /\ todo' # <<>>
    <3>1. d + 1 # Len(Given) + 4
      BY <2>1, <2>2, <1>4
    <3>2. GenesisPlace(d + 1)' /\ DOMAIN todo' # {}
      BY <1>6, <2>6, <3>1
    <3>. QED
      BY <3>2
  <2>8. Paid(d + 1) <= t + w.amount /\ t + w.amount <= x + Paid(d + 1)
    BY <1>5, <2>2, <2>3
  <2>. QED
    BY <1>1, <1>3, <1>9, <2>6, <2>7, <2>8 DEF SupplyInv
<1>10. CASE /\ w.op # "credit" /\ w.op # "chain_tip" /\ todo' = Tail(todo)
            /\ accounts' = accounts /\ chain_tip' = chain_tip
  <2>1. ~(d + 1 <= Len(Given))
    BY <1>7, <1>10 DEF Credit
  <2>2. GenesisPlace(d + 1)' /\ todo' # <<>> /\ Len(Given) <= d
    <3>1. GenesisPlace(d + 1)' /\ DOMAIN todo' # {} /\ Len(Given) <= d
      BY <1>6, <1>10, <2>1
    <3>. QED
      BY <3>1
  <2>3. Paid(d + 1) = p
    <3>1. d + 1 \in Nat /\ Len(Given) <= d + 1
      BY <1>4, <2>2, GivenCredits
    <3>. QED
      BY <1>3, <1>4, <2>2, <3>1, PaidInOrder
  <2>. QED
    BY <1>1, <1>3, <1>5, <1>10, <2>2, <2>3 DEF SupplyInv
<1>11. CASE w.op = "chain_tip" /\ accounts' = accounts /\ chain_tip' = {w.block}
  <2>1. ~(d + 1 <= Len(Given))
    BY <1>7, <1>11 DEF Credit
  <2>2. p = s
    <3>1. Len(Given) <= d
      BY <1>4, <2>1, GivenCredits
    <3>. QED
      BY <1>3, <1>4, <3>1, PaidInOrder
  <2>3. s <= t /\ t <= x + s
    BY <1>5, <2>2
  <2>. QED
    BY <1>1, <1>3, <1>5, <1>11, <2>3 DEF SupplyInv
<1>. QED
  BY <1>1, <1>9, <1>10, <1>11 DEF Write

\* SupplyInv holds of the empty database and every step keeps it.
THEOREM ChainStoreSupplyInvariant ==
    ASSUME SupplyFits
    PROVE  Spec => []SupplyInv
<1>1. Init => SupplyInv
  <2>. SUFFICES ASSUME Init
                PROVE  SupplyInv
    OBVIOUS
  <2>1. /\ accounts = EmptyTree /\ chain_tip = {} /\ todo = <<>> /\ crashes = 0
        /\ DOMAIN EmptyTree = {} /\ crashes \in 0..MaxCrashes
    BY StoreBoundsAssumption DEF Init, EmptyTree
  <2>2. TotalBalance(accounts) = 0
    BY <2>1, SumEmpty DEF TotalBalance, SumFunction
  <2>3. crashes * GenesisSupply = 0
    BY <2>1, PaidInOrder
  <2>. QED
    BY <2>1, <2>2, <2>3 DEF SupplyInv
<1>2. StoreInv /\ SupplyInv /\ [Next]_vars => SupplyInv'
  <2>. SUFFICES ASSUME StoreInv, SupplyInv, [Next]_vars
                PROVE  SupplyInv'
    OBVIOUS
  <2>1. CASE UNCHANGED vars
    BY <2>1 DEF vars, trees, SupplyInv, GenesisPlace
  <2>2. CASE AcceptBlock
    <3>1. chain_tip # {} /\ chain_tip' = chain_tip /\ accounts' = accounts /\ crashes' = crashes
      BY <2>2 DEF AcceptBlock, trees
    <3>. QED
      BY <3>1 DEF SupplyInv
  <2>3. CASE Write
    <3>1. CASE chain_tip = {}
      BY <2>3, <3>1, SupplyWriteGenesis
    <3>2. CASE chain_tip # {}
      <4>1. Head(todo) = todo[1] /\ 1 \in DOMAIN todo /\ crashes' = crashes
        BY <2>3, FirstWrite DEF Write, StoreInv
      <4>2. todo[1].op # "credit"
        BY <3>2, <4>1 DEF StoreInv, Plan, GenesisWrites
      <4>3. accounts' = accounts /\ chain_tip' # {}
        BY <2>3, <3>2, <4>1, <4>2 DEF Write
      <4>. QED
        BY <3>2, <4>1, <4>3 DEF SupplyInv
    <3>. QED
      BY <3>1, <3>2
  <2>. QED
    BY <2>1, <2>2, <2>3, SupplyInitialize, SupplyCrash DEF Next
<1>. QED
  BY <1>1, <1>2, ChainStoreInvariant, PTL DEF Spec

\* A node with a tip has committed to its accounts, and they hold the genesis
\* supply once for certain and at most once more for every stop: what
\* initialize_chain credited before it was stopped is not taken back.  The
\* supply, once for each call, has to fit in a u64: a credit that overflows
\* would end the call before the root.
THEOREM ChainStoreRootCommitsAccounts ==
    ASSUME SupplyFits
    PROVE  Spec => []RootCommitsAccounts
<1>1. StoreInv /\ SupplyInv => RootCommitsAccounts
  BY DEF StoreInv, Trees, RootOfAccounts, SupplyInv, RootCommitsAccounts
<1>. QED
  BY <1>1, ChainStoreInvariant, ChainStoreSupplyInvariant, PTL

-----------------------------------------------------------------------------
(***************************************************************************)
(* The history of an address.                                              *)
(***************************************************************************)
\* The transactions of one sender.
Own(txs, a) == {tx \in txs : tx.sender = a}

\* The transactions of a sender are numbered from zero to below n.
NumberedTo(own, n) ==
    /\ \A tx \in own : tx.nonce \in 0..(n - 1)
    /\ \A m \in 0..(n - 1) : \E tx \in own : tx.nonce = m
    /\ \A s, u \in own : s.nonce = u.nonce => s = u

\* So are those of every sender.
Numbered(txs) == \A a \in Address : \E n \in Nat : NumberedTo(Own(txs, a), n)

\* The sender index has tx.
IndexHas(tx) ==
    sender_key(tx) \in DOMAIN transactions /\ transactions[sender_key(tx)] = tx.hash

\* Write number i of the running call is one of the sender index.
IndexWrite(i) == todo[i].op = "transactions" /\ todo[i].key[1] = "sender"

\* The keys of the sender index end in a nonce.
IndexNumbers == \A k \in DOMAIN transactions : k[1] = "sender" => k[3] \in Nat

\* What is on the chain is in the index, under its sender and nonce.
ChainIndexed == \A tx \in OnChain : IndexHas(tx)

\* The running call writes no entry of the index that the chain has.
NewKeys ==
    \A i \in DOMAIN todo : IndexWrite(i) =>
        /\ todo[i].key[3] \in Nat
        /\ \A tx \in OnChain : sender_key(tx) # todo[i].key

\* The tip is saved when the transactions of its block, which continue the
\* numbers of the chain, are in the index; no write of the call puts another
\* hash where they are.
IndexBeforeTip ==
    \A i \in DOMAIN todo : todo[i].op = "chain_tip" =>
        LET new == Range(todo[i].block.body) IN
        /\ IsFiniteSet(new)
        /\ Numbered(OnChain \cup new)
        /\ \A tx \in new :
             /\ \/ IndexHas(tx)
                \/ \E j \in 1..(i - 1) : IndexWrite(j) /\ todo[j].key = sender_key(tx)
             /\ \A j \in DOMAIN todo :
                  IndexWrite(j) /\ todo[j].key = sender_key(tx) => todo[j].value = tx.hash

\* The inductive invariant.
HistoryInv ==
    /\ IsFiniteSet(DOMAIN transactions) /\ IsFiniteSet(OnChain)
    /\ Numbered(OnChain) /\ IndexNumbers /\ ChainIndexed /\ NewKeys /\ IndexBeforeTip

\* A write other than the tip leaves the chain as it is.
LEMMA ChainKept ==
    ASSUME StoreInv, Write, todo[1].op # "chain_tip"
    PROVE  OnChain' = OnChain
<1>1. Head(todo) = todo[1] /\ 1 \in DOMAIN todo
  BY FirstWrite DEF Write, StoreInv
<1>2. CASE todo[1].op = "by_hash"
  <2>1. \A h : get_block_by_height(h)' = get_block_by_height(h)
    BY <1>1, <1>2, ByHashKeepsHeights DEF Write
  <2>2. chain_tip' = chain_tip
    BY <1>1, <1>2 DEF Write
  <2>. QED
    BY <2>1, <2>2 DEF OnChain
<1>3. CASE todo[1].op = "by_height"
  <2>1. blocks_by_height' = Put(blocks_by_height, todo[1].block.index, todo[1].block.hash)
    BY <1>1, <1>3 DEF Write
  <2>2. blocks_by_hash' = blocks_by_hash /\ chain_tip' = chain_tip
    BY <1>1, <1>3 DEF Write
  <2>3. PICK b : b = todo[1].block
    OBVIOUS
  <2>4. /\ \A h : h # b.index => get_block_by_height(h)' = get_block_by_height(h)
        /\ \A tip \in chain_tip : b.index \notin 0..tip.index
    BY <1>1, <1>3, <2>1, <2>2, <2>3, AtNewHeight
  <2>5. \A tip \in chain_tip : \A h \in 0..tip.index : get_block_by_height(h)' = get_block_by_height(h)
    BY <2>4
  <2>. QED
    BY <2>2, <2>5 DEF OnChain
<1>4. CASE todo[1].op \notin {"by_hash", "by_height"}
  <2>1. UNCHANGED <<blocks_by_hash, blocks_by_height, chain_tip>>
    BY <1>1, <1>4 DEF Write
  <2>2. \A h : get_block_by_height(h)' = get_block_by_height(h)
    BY <2>1 DEF get_block_by_height
  <2>. QED
    BY <2>1, <2>2 DEF OnChain
<1>. QED
  BY <1>2, <1>3, <1>4

\* The tip adds the transactions of its block to the chain.
LEMMA ChainGrows ==
    ASSUME StoreInv, Shift, todo[1].op = "chain_tip", chain_tip' = {todo[1].block},
           UNCHANGED <<blocks_by_hash, blocks_by_height>>
    PROVE  OnChain' = OnChain \cup Range(todo[1].block.body)
<1>1. PICK b : b = todo[1].block
  OBVIOUS
<1>2. NextBlock(b) /\ Indexed(b)
  BY <1>1, TipReady
<1>3. \A h : get_block_by_height(h)' = get_block_by_height(h)
  BY DEF get_block_by_height
<1>4. get_block_by_height(b.index) = {b}
  <2>1. get_block_by_height(b.index)
          = IF b.index \in DOMAIN blocks_by_height /\ blocks_by_height[b.index] \in DOMAIN blocks_by_hash
            THEN {blocks_by_hash[blocks_by_height[b.index]]} ELSE {}
    BY AtHeight DEF get_block_by_height
  <2>. QED
    BY <2>1, <1>2 DEF Indexed, Stored
<1>5. \/ chain_tip = {} /\ b.index = 0
      \/ \E tip \in chain_tip : chain_tip = {tip} /\ tip.index \in Nat /\ b.index = tip.index + 1
  BY <1>2 DEF StoreInv, Trees, OneTip, NextBlock
<1>6. b.index \in 0..b.index
  BY <1>5
<1>7. \A tx : tx \in OnChain' <=> \E h \in 0..b.index : \E c \in get_block_by_height(h) : tx \in Range(c.body)
  BY <1>1, <1>3 DEF OnChain
<1>8. \A tx : tx \in OnChain <=>
         \E tip \in chain_tip : \E h \in 0..tip.index : \E c \in get_block_by_height(h) : tx \in Range(c.body)
  BY DEF OnChain
<1>9. CASE chain_tip = {} /\ b.index = 0
  <2>1. \A h \in 0..b.index : h = b.index
    BY <1>9
  <2>. QED
    BY <1>1, <1>4, <1>6, <1>7, <1>8, <1>9, <2>1
<1>10. ASSUME NEW tip, chain_tip = {tip}, tip.index \in Nat, b.index = tip.index + 1
       PROVE  OnChain' = OnChain \cup Range(b.body)
  <2>1. \A h : h \in 0..b.index <=> (h = b.index \/ h \in 0..tip.index)
    BY <1>10
  <2>2. \A tx : tx \in OnChain <=> \E h \in 0..tip.index : \E c \in get_block_by_height(h) : tx \in Range(c.body)
    BY <1>8, <1>10
  <2>3. \A tx : tx \in OnChain' <=> (tx \in OnChain \/ \E c \in get_block_by_height(b.index) : tx \in Range(c.body))
    BY <1>7, <2>1, <2>2
  <2>. QED
    BY <1>4, <2>3
<1>. QED
  BY <1>1, <1>5, <1>9, <1>10

\* A write that is none of a transaction and not the tip.
LEMMA HistoryOtherWrite ==
    ASSUME StoreInv, HistoryInv, Shift, Write, todo[1].op \notin {"transactions", "chain_tip"}
    PROVE  HistoryInv'
<1>1. OnChain' = OnChain
  BY ChainKept
<1>2. transactions' = transactions
  <2>1. Head(todo) = todo[1]
    BY FirstWrite DEF Write, StoreInv
  <2>. QED
    BY <2>1 DEF Write
<1>3. Numbered(OnChain)' /\ IndexNumbers' /\ ChainIndexed'
  BY <1>1, <1>2 DEF HistoryInv, Numbered, IndexNumbers, ChainIndexed, IndexHas
<1>4. NewKeys'
  BY <1>1 DEF HistoryInv, NewKeys, Shift, IndexWrite
<1>5. IndexBeforeTip'
  <2>. SUFFICES ASSUME NEW i \in DOMAIN todo', todo'[i].op = "chain_tip"
                PROVE  LET txs == Range(todo'[i].block.body) IN
                       /\ IsFiniteSet(txs)
                       /\ Numbered(OnChain \cup txs)
                       /\ \A tx \in txs :
                            /\ \/ IndexHas(tx)
                               \/ \E j \in 1..(i - 1) : IndexWrite(j)' /\ todo'[j].key = sender_key(tx)
                            /\ \A j \in DOMAIN todo' :
                                 IndexWrite(j)' /\ todo'[j].key = sender_key(tx) => todo'[j].value = tx.hash
    BY <1>1, <1>2 DEF IndexBeforeTip, IndexHas
  <2>1. i + 1 \in DOMAIN todo /\ todo'[i] = todo[i + 1] /\ (i + 1) - 1 = i /\ i \in Nat
    BY DEF Shift
  <2>2. PICK txs : txs = Range(todo'[i].block.body)
    OBVIOUS
  <2>3. /\ IsFiniteSet(txs)
        /\ Numbered(OnChain \cup txs)
        /\ \A tx \in txs :
             /\ \/ IndexHas(tx)
                \/ \E j \in 1..i : IndexWrite(j) /\ todo[j].key = sender_key(tx)
             /\ \A j \in DOMAIN todo :
                  IndexWrite(j) /\ todo[j].key = sender_key(tx) => todo[j].value = tx.hash
    BY <2>1, <2>2 DEF HistoryInv, IndexBeforeTip
  <2>4. ASSUME NEW j \in 1..i, IndexWrite(j)
        PROVE  j - 1 \in 1..(i - 1) /\ IndexWrite(j - 1)' /\ todo'[j - 1].key = todo[j].key
    <3>1. j # 1
      BY <2>4 DEF IndexWrite
    <3>2. j \in DOMAIN todo /\ j - 1 \in 1..(i - 1)
      BY <2>1, <3>1 DEF Shift
    <3>. QED
      BY <2>4, <3>1, <3>2 DEF IndexWrite, Shift
  <2>5. ASSUME NEW j \in DOMAIN todo', IndexWrite(j)'
        PROVE  j + 1 \in DOMAIN todo /\ IndexWrite(j + 1) /\ todo'[j] = todo[j + 1]
    BY <2>5 DEF IndexWrite, Shift
  <2>. QED
    BY <2>2, <2>3, <2>4, <2>5
<1>. QED
  BY <1>1, <1>2, <1>3, <1>4, <1>5 DEF HistoryInv

\* The tip: its transactions have been put in the index, and are now on the
\* chain.
LEMMA HistoryTip ==
    ASSUME StoreInv, HistoryInv, Shift, todo[1].op = "chain_tip", chain_tip' = {todo[1].block},
           UNCHANGED <<blocks_by_hash, blocks_by_height, transactions>>
    PROVE  HistoryInv'
<1>1. PICK txs : txs = Range(todo[1].block.body)
  OBVIOUS
<1>2. OnChain' = OnChain \cup txs /\ DOMAIN todo' = {}
  BY <1>1, ChainGrows, TipReady
<1>3. 1 \in DOMAIN todo /\ 1..(1 - 1) = {}
  BY DEF Shift
<1>4. IsFiniteSet(txs) /\ Numbered(OnChain \cup txs) /\ \A tx \in txs : IndexHas(tx)
  BY <1>1, <1>3 DEF HistoryInv, IndexBeforeTip
<1>5. IsFiniteSet(OnChain')
  BY <1>2, <1>4, FS_Union DEF HistoryInv
<1>6. Numbered(OnChain)'
  BY <1>2, <1>4 DEF Numbered
<1>7. ChainIndexed' /\ IndexNumbers'
  BY <1>2, <1>4 DEF HistoryInv, ChainIndexed, IndexHas, IndexNumbers
<1>8. NewKeys' /\ IndexBeforeTip'
  BY <1>2 DEF NewKeys, IndexBeforeTip
<1>. QED
  BY <1>5, <1>6, <1>7, <1>8 DEF HistoryInv

\* A key of a transaction is none of the sender index.
LEMMA KeysApart == \A h, tx : hash_key(h)[1] = "hash" /\ sender_key(tx)[1] = "sender"
  BY DEF hash_key, sender_key

\* A record of a transaction: it replaces no entry of the chain, and none of
\* the new block by another hash.
LEMMA HistoryRecord ==
    ASSUME StoreInv, HistoryInv, Shift, Write, todo[1].op = "transactions"
    PROVE  HistoryInv'
<1>1. Head(todo) = todo[1] /\ 1 \in DOMAIN todo
  BY FirstWrite DEF Write, StoreInv
<1>2. OnChain' = OnChain
  BY ChainKept
<1>3. PICK key, value : key = todo[1].key /\ value = todo[1].value
  OBVIOUS
<1>4. transactions' = Put(transactions, key, value)
  BY <1>1, <1>3 DEF Write
<1>5. /\ DOMAIN transactions' = DOMAIN transactions \cup {key}
      /\ transactions'[key] = value
      /\ \A k \in DOMAIN transactions : k # key => transactions'[k] = transactions[k]
  BY <1>4 DEF Put
<1>6. key[1] = "sender" => /\ IndexWrite(1) /\ key[3] \in Nat
                           /\ \A tx \in OnChain : sender_key(tx) # key
  BY <1>1, <1>3 DEF HistoryInv, NewKeys, IndexWrite
<1>7. IsFiniteSet(DOMAIN transactions')
  BY <1>5, FS_AddElement DEF HistoryInv
<1>8. IndexNumbers'
  BY <1>5, <1>6 DEF HistoryInv, IndexNumbers
<1>9. \A tx \in OnChain : sender_key(tx) # key
  BY <1>6, KeysApart
<1>10. ChainIndexed'
  BY <1>2, <1>5, <1>9 DEF HistoryInv, ChainIndexed, IndexHas
<1>11. Numbered(OnChain)'
  BY <1>2 DEF HistoryInv, Numbered
<1>12. NewKeys'
  BY <1>2 DEF HistoryInv, NewKeys, Shift, IndexWrite
<1>13. IndexBeforeTip'
  <2>. SUFFICES ASSUME NEW i \in DOMAIN todo', todo'[i].op = "chain_tip"
                PROVE  LET txs == Range(todo'[i].block.body) IN
                       /\ IsFiniteSet(txs)
                       /\ Numbered(OnChain \cup txs)
                       /\ \A tx \in txs :
                            /\ \/ IndexHas(tx)'
                               \/ \E j \in 1..(i - 1) : IndexWrite(j)' /\ todo'[j].key = sender_key(tx)
                            /\ \A j \in DOMAIN todo' :
                                 IndexWrite(j)' /\ todo'[j].key = sender_key(tx) => todo'[j].value = tx.hash
    BY <1>2 DEF IndexBeforeTip, IndexHas
  <2>1. i + 1 \in DOMAIN todo /\ todo'[i] = todo[i + 1] /\ (i + 1) - 1 = i /\ i \in Nat
    BY DEF Shift
  <2>2. PICK txs : txs = Range(todo'[i].block.body)
    OBVIOUS
  <2>3. /\ IsFiniteSet(txs)
        /\ Numbered(OnChain \cup txs)
        /\ \A tx \in txs :
             /\ \/ IndexHas(tx)
                \/ \E j \in 1..i : IndexWrite(j) /\ todo[j].key = sender_key(tx)
             /\ \A j \in DOMAIN todo :
                  IndexWrite(j) /\ todo[j].key = sender_key(tx) => todo[j].value = tx.hash
    BY <2>1, <2>2 DEF HistoryInv, IndexBeforeTip
  <2>4. ASSUME NEW j \in 1..i, IndexWrite(j), j # 1
        PROVE  j - 1 \in 1..(i - 1) /\ IndexWrite(j - 1)' /\ todo'[j - 1].key = todo[j].key
    <3>1. j \in DOMAIN todo /\ j - 1 \in 1..(i - 1)
      BY <2>1, <2>4 DEF Shift
    <3>. QED
      BY <2>4, <3>1 DEF IndexWrite, Shift
  <2>5. ASSUME NEW j \in DOMAIN todo', IndexWrite(j)'
        PROVE  j + 1 \in DOMAIN todo /\ IndexWrite(j + 1) /\ todo'[j] = todo[j + 1]
    BY <2>5 DEF IndexWrite, Shift
  <2>6. ASSUME NEW tx \in txs, sender_key(tx) = key
        PROVE  IndexHas(tx)'
    <3>1. IndexWrite(1) /\ todo[1].key = sender_key(tx)
      BY <1>3, <1>6, <2>6, KeysApart
    <3>2. value = tx.hash
      BY <1>1, <1>3, <2>3, <3>1
    <3>. QED
      BY <1>5, <2>6, <3>2 DEF IndexHas
  <2>7. ASSUME NEW tx \in txs, sender_key(tx) # key, IndexHas(tx)
        PROVE  IndexHas(tx)'
    BY <1>5, <2>7 DEF IndexHas
  <2>8. ASSUME NEW tx \in txs, sender_key(tx) # key
        PROVE  \/ IndexHas(tx)'
               \/ \E j \in 1..(i - 1) : IndexWrite(j)' /\ todo'[j].key = sender_key(tx)
    <3>1. CASE IndexHas(tx)
      BY <2>7, <2>8, <3>1
    <3>2. ASSUME NEW j \in 1..i, IndexWrite(j), todo[j].key = sender_key(tx)
          PROVE  \E k \in 1..(i - 1) : IndexWrite(k)' /\ todo'[k].key = sender_key(tx)
      <4>1. j # 1
        BY <1>3, <2>8, <3>2
      <4>. QED
        BY <2>4, <3>2, <4>1
    <3>. QED
      BY <2>3, <3>1, <3>2
  <2>. QED
    BY <2>2, <2>3, <2>5, <2>6, <2>8
<1>. QED
  BY <1>2, <1>7, <1>8, <1>10, <1>11, <1>12, <1>13 DEF HistoryInv

\* A call that ends leaves the index as it is.
LEMMA HistoryCallEnds ==
    ASSUME HistoryInv, todo' = <<>>, UNCHANGED trees
    PROVE  HistoryInv'
<1>1. DOMAIN todo' = {}
  OBVIOUS
<1>2. \A h : get_block_by_height(h)' = get_block_by_height(h)
  BY DEF get_block_by_height, trees
<1>3. OnChain' = OnChain /\ transactions' = transactions
  BY <1>2 DEF OnChain, trees
<1>4. NewKeys' /\ IndexBeforeTip'
  BY <1>1 DEF NewKeys, IndexBeforeTip
<1>. QED
  BY <1>3, <1>4 DEF HistoryInv, Numbered, IndexNumbers, ChainIndexed, IndexHas

\* Every write keeps the index.
LEMMA HistoryWrite ==
    ASSUME StoreInv, HistoryInv, Write
    PROVE  HistoryInv'
<1>1. Head(todo) = todo[1] /\ 1 \in DOMAIN todo /\ todo # <<>> /\ Sequence
  BY FirstWrite DEF Write, StoreInv
<1>2. CASE todo' = Tail(todo)
  <2>1. Shift
    BY <1>1, <1>2, TailShift
  <2>2. CASE todo[1].op = "chain_tip"
    <3>1. /\ chain_tip' = {todo[1].block}
          /\ UNCHANGED <<blocks_by_hash, blocks_by_height, transactions>>
      BY <1>1, <2>2 DEF Write
    <3>. QED
      BY <2>1, <2>2, <3>1, HistoryTip
  <2>. QED
    BY <2>1, <2>2, HistoryRecord, HistoryOtherWrite
<1>3. CASE todo' # Tail(todo)
  <2>1. /\ todo[1].op = "credit" /\ todo' = <<>>
        /\ accounts' = credit_account(accounts, todo[1].to, todo[1].amount).accts
        /\ ~credit_account(accounts, todo[1].to, todo[1].amount).ok
        /\ UNCHANGED <<blocks_by_hash, blocks_by_height, transactions, state_root, chain_tip>>
    BY <1>1, <1>3 DEF Write
  <2>2. accounts' = accounts
    BY <2>1 DEF credit_account, Ok, Err
  <2>. QED
    BY <2>1, <2>2, HistoryCallEnds DEF trees
<1>. QED
  BY <1>2, <1>3

\* The genesis block has no transactions, and there is no chain yet.
LEMMA HistoryInitialize ==
    ASSUME StoreInv, HistoryInv, initialize_chain
    PROVE  HistoryInv'
<1> DEFINE b == produce_genesis_block(mined')
<1>1. chain_tip = {} /\ todo' = initialize_writes(b) /\ UNCHANGED trees
  BY DEF initialize_chain
<1>2. b.body = <<>>
  BY DEF produce_genesis_block
<1>. HIDE DEF b
<1>3. PICK w, n, W : IsGenesisCall(w, n, b, W)
  BY GenesisCall
<1>4. /\ todo' = w /\ w \in Seq(W) /\ n \in Nat \ {0} /\ Len(w) = n + 4
      /\ \A i \in 1..n : w[i].op = "credit"
      /\ w[n + 1].op = "by_hash" /\ w[n + 2].op = "by_height" /\ w[n + 3].op = "state_root"
      /\ w[n + 4].op = "chain_tip" /\ w[n + 4].block = b
  BY <1>1, <1>3 DEF IsGenesisCall, ByHash, ByHeight, Root, Tip
<1>5. DOMAIN w = 1..(n + 4)
  BY <1>4
<1>6. \A i \in 1..(n + 4) : i \in 1..n \/ i = n + 1 \/ i = n + 2 \/ i = n + 3 \/ i = n + 4
  BY <1>4
<1>7. \A i \in 1..(n + 4) : /\ w[i].op # "transactions"
                            /\ w[i].op = "chain_tip" => w[i].block = b
  BY <1>4, <1>6
<1>8. \A h : get_block_by_height(h)' = get_block_by_height(h)
  BY <1>1 DEF get_block_by_height, trees
<1>9. OnChain' = OnChain /\ transactions' = transactions
  BY <1>1, <1>8 DEF OnChain, trees
<1>10. NewKeys'
  BY <1>4, <1>5, <1>7 DEF NewKeys, IndexWrite
<1>11. IndexBeforeTip'
  <2>1. Range(b.body) = {} /\ IsFiniteSet({}) /\ OnChain' \cup {} = OnChain
    BY <1>2, <1>9, FS_EmptySet DEF Range
  <2>2. Numbered(OnChain)
    BY DEF HistoryInv
  <2>3. \A i \in DOMAIN todo' : todo'[i].op = "chain_tip" => Range(todo'[i].block.body) = {}
    BY <1>4, <1>5, <1>7, <2>1
  <2>. QED
    BY <2>1, <2>2, <2>3 DEF IndexBeforeTip, Numbered
<1>. QED
  BY <1>9, <1>10, <1>11 DEF HistoryInv, Numbered, IndexNumbers, ChainIndexed, IndexHas

\* The number of members of F up to k.
CountUpTo(F, k) == Cardinality({j \in F : j <= k})

\* The counts number a finite set of naturals from one on.
LEMMA CountsNumber ==
    ASSUME NEW F, F \subseteq Nat, IsFiniteSet(F)
    PROVE  /\ Cardinality(F) \in Nat
           /\ \A k \in F : CountUpTo(F, k) \in 1..Cardinality(F)
           /\ \A j, k \in F : CountUpTo(F, j) = CountUpTo(F, k) => j = k
           /\ \A i \in 1..Cardinality(F) : \E k \in F : CountUpTo(F, k) = i
<1> DEFINE n == Cardinality(F)
           T == 1..n
           R == [k \in F |-> CountUpTo(F, k)]
<1>1. n \in Nat
  BY FS_CardinalityType
<1>2. ASSUME NEW k \in F
      PROVE  /\ CountUpTo(F, k) \in T
             /\ IsFiniteSet({j \in F : j <= k})
  <2> DEFINE B == {j \in F : j <= k}
  <2>1. B \subseteq F /\ k \in B
    OBVIOUS
  <2>2. IsFiniteSet(B) /\ Cardinality(B) <= n
    BY <2>1, FS_Subset
  <2>3. Cardinality(B) \in Nat /\ Cardinality(B) # 0
    BY <2>1, <2>2, FS_CardinalityType, FS_EmptySet
  <2>4. CountUpTo(F, k) = Cardinality(B)
    BY DEF CountUpTo
  <2>. HIDE DEF n, B
  <2>5. Cardinality(B) \in 1..n
    BY <1>1, <2>2, <2>3
  <2>. QED
    BY <2>2, <2>4, <2>5 DEF B
<1>3. ASSUME NEW j \in F, NEW k \in F, j < k
      PROVE  CountUpTo(F, j) # CountUpTo(F, k)
  <2> DEFINE A == {i \in F : i <= j}
             B == {i \in F : i <= k}
  <2>0. j \in Nat /\ k \in Nat /\ \A i \in F : i \in Nat
    OBVIOUS
  <2>1. A \subseteq B /\ k \in B /\ k \notin A
    <3>1. \A i \in F : i <= j => i <= k
      BY <1>3, <2>0
    <3>2. k <= k /\ ~(k <= j)
      BY <1>3, <2>0
    <3>. QED
      BY <3>1, <3>2
  <2>2. IsFiniteSet(B)
    BY <1>2
  <2>. HIDE DEF A, B
  <2>3. A # B
    BY <2>1
  <2>4. Cardinality(A) # Cardinality(B)
    BY <2>1, <2>2, <2>3, FS_Subset
  <2>. QED
    BY <2>4 DEF CountUpTo, A, B
<1>4. \A j, k \in F : CountUpTo(F, j) = CountUpTo(F, k) => j = k
  <2>. SUFFICES ASSUME NEW j \in F, NEW k \in F, CountUpTo(F, j) = CountUpTo(F, k), j # k
                PROVE  FALSE
    OBVIOUS
  <2>1. j < k \/ k < j
    OBVIOUS
  <2>. QED
    BY <1>3, <2>1
<1>5. R \in Injection(F, T)
  <2>1. R \in [F -> T]
    BY <1>2
  <2>2. \A j, k \in F : R[j] = R[k] => j = k
    BY <1>4
  <2>. HIDE DEF T, R
  <2>. QED
    BY <2>1, <2>2 DEF Injection, IsInjective
<1>6. IsFiniteSet(T) /\ Cardinality(T) = n
  <2>. HIDE DEF n
  <2>. QED
    BY <1>1, FS_Interval
<1>7. R \in Surjection(F, T)
  <2>. HIDE DEF T, R
  <2>. QED
    BY <1>5, <1>6, FS_Injection
<1>8. \A i \in T : \E k \in F : CountUpTo(F, k) = i
  <2>1. \A i \in T : \E k \in F : R[k] = i
    <3>. HIDE DEF T, R
    <3>. QED
      BY <1>7 DEF Surjection
  <2>. QED
    BY <2>1
<1>. QED
  BY <1>1, <1>2, <1>4, <1>8

\* Transactions numbered to below n are n.
LEMMA NumberedCount ==
    ASSUME NEW own, NEW n \in Nat, IsFiniteSet(own), NumberedTo(own, n)
    PROVE  Cardinality(own) = n
<1> DEFINE T == 0..(n - 1)
           R == [tx \in own |-> tx.nonce]
<1>1. /\ \A tx \in own : R[tx] \in T
      /\ \A m \in T : \E tx \in own : R[tx] = m
      /\ \A s, u \in own : R[s] = R[u] => s = u
  BY DEF NumberedTo
<1>2. R \in [own -> T]
  BY <1>1
<1>3. IsFiniteSet(T) /\ Cardinality(T) = n
  <2>1. 0 \in Int /\ n - 1 \in Int
    OBVIOUS
  <2>. QED
    BY <2>1, FS_Interval
<1>. HIDE DEF T, R
<1>4. R \in Bijection(own, T)
  BY <1>1, <1>2 DEF Bijection, Injection, IsInjective, Surjection
<1>5. ExistsBijection(own, T)
  BY <1>4 DEF ExistsBijection
<1>6. Cardinality(T) = Cardinality(own)
  BY <1>5, FS_Bijection
<1>. QED
  BY <1>3, <1>6

\* The transactions of a body take the next nonces of their senders: after
\* those on the chain, by the positions P of the sender's payments.
LEMMA TransactionNonces ==
    ASSUME NEW body \in Bodies, NEW txs, txs = Transactions(body)
    PROVE  /\ Len(body) \in Nat /\ DOMAIN txs = 1..Len(body)
           /\ \A i \in 1..Len(body) :
                LET a == body[i].sender
                    P == {j \in 1..Len(body) : body[j].sender = a}
                IN  /\ a \in Address /\ txs[i].sender = a
                    /\ P \subseteq Nat /\ IsFiniteSet(P) /\ i \in P
                    /\ Cardinality(Own(OnChain, a)) \in Nat =>
                         txs[i].nonce = Cardinality(Own(OnChain, a)) + CountUpTo(P, i) - 1
<1>1. body \in Seq([sender : Address, fee : U64, hashed : BOOLEAN])
  BY AllocationsAssumption
<1>2. Len(body) \in Nat /\ DOMAIN body = 1..Len(body)
  BY <1>1
<1>3. \A i \in 1..Len(body) : body[i].sender \in Address
  <2>1. \A i \in 1..Len(body) : body[i] \in [sender : Address, fee : U64, hashed : BOOLEAN]
    BY <1>1, ElementOfSeq
  <2>. QED
    BY <2>1
<1>4. DOMAIN txs = 1..Len(body)
  BY <1>2 DEF Transactions
<1>5. ASSUME NEW i \in 1..Len(body)
      PROVE  LET a == body[i].sender
                 P == {j \in 1..Len(body) : body[j].sender = a}
             IN  /\ a \in Address /\ txs[i].sender = a
                 /\ P \subseteq Nat /\ IsFiniteSet(P) /\ i \in P
                 /\ Cardinality(Own(OnChain, a)) \in Nat =>
                      txs[i].nonce = Cardinality(Own(OnChain, a)) + CountUpTo(P, i) - 1
  <2> DEFINE a == body[i].sender
             P == {j \in 1..Len(body) : body[j].sender = a}
             L == {j \in 1..(i - 1) : body[j].sender = a}
  <2>1. txs[i].sender = a /\ txs[i].nonce = Cardinality(Own(OnChain, a)) + Cardinality(L)
    BY <1>2 DEF Transactions, Own
  <2>2. P \subseteq 1..Len(body) /\ P \subseteq Nat /\ i \in P
    BY <1>2
  <2>3. IsFiniteSet(1..Len(body)) /\ IsFiniteSet(P)
    <3>. HIDE DEF P
    <3>1. IsFiniteSet(1..Len(body))
      BY <1>2, FS_Interval
    <3>. QED
      BY <2>2, <3>1, FS_Subset
  <2>4. {j \in P : j <= i} = L \cup {i} /\ i \notin L /\ L \subseteq P
    BY <1>2
  <2>5. IsFiniteSet(L) /\ Cardinality(L) \in Nat
    BY <2>3, <2>4, FS_Subset, FS_CardinalityType
  <2>6. CountUpTo(P, i) = Cardinality(L) + 1
    BY <2>4, <2>5, FS_AddElement DEF CountUpTo
  <2>7. a \in Address
    BY <1>3
  <2>. HIDE DEF a, P, L
  <2>8. Cardinality(Own(OnChain, a)) \in Nat =>
          txs[i].nonce = Cardinality(Own(OnChain, a)) + CountUpTo(P, i) - 1
    BY <2>1, <2>5, <2>6
  <2>. QED
    BY <2>1, <2>2, <2>3, <2>7, <2>8 DEF a, P
<1>. QED
  BY <1>2, <1>4, <1>5

\* The transactions of a block continue the numbers of the chain: their keys
\* in the sender index are new and are different.
LEMMA BodyContinues ==
    ASSUME IsFiniteSet(OnChain), Numbered(OnChain),
           NEW body \in Bodies, NEW txs, txs = Transactions(body)
    PROVE  /\ IsFiniteSet(Range(txs))
           /\ Numbered(OnChain \cup Range(txs))
           /\ \A i \in DOMAIN txs :
                /\ txs[i].nonce \in Nat
                /\ \A tx \in OnChain : sender_key(tx) # sender_key(txs[i])
           /\ \A i, j \in DOMAIN txs : sender_key(txs[i]) = sender_key(txs[j]) => i = j
<1> DEFINE P(a) == {j \in 1..Len(body) : body[j].sender = a}
           c(a) == Cardinality(Own(OnChain, a))
<1>1. Len(body) \in Nat /\ DOMAIN txs = 1..Len(body)
  BY TransactionNonces
<1>2. ASSUME NEW a \in Address
      PROVE  c(a) \in Nat /\ NumberedTo(Own(OnChain, a), c(a))
  <2>1. PICK n \in Nat : NumberedTo(Own(OnChain, a), n)
    BY DEF Numbered
  <2>2. IsFiniteSet(Own(OnChain, a))
    <3>1. Own(OnChain, a) \subseteq OnChain
      BY DEF Own
    <3>. QED
      BY <3>1, FS_Subset
  <2>3. c(a) = n
    BY <2>1, <2>2, NumberedCount
  <2>. QED
    BY <2>1, <2>3
<1>3. ASSUME NEW i \in 1..Len(body)
      PROVE  /\ body[i].sender \in Address /\ txs[i].sender = body[i].sender
             /\ P(body[i].sender) \subseteq Nat /\ IsFiniteSet(P(body[i].sender))
             /\ i \in P(body[i].sender)
             /\ txs[i].nonce = c(body[i].sender) + CountUpTo(P(body[i].sender), i) - 1
  <2>1. LET a == body[i].sender
            R == {j \in 1..Len(body) : body[j].sender = a}
        IN  /\ a \in Address /\ txs[i].sender = a
            /\ R \subseteq Nat /\ IsFiniteSet(R) /\ i \in R
            /\ Cardinality(Own(OnChain, a)) \in Nat =>
                 txs[i].nonce = Cardinality(Own(OnChain, a)) + CountUpTo(R, i) - 1
    BY TransactionNonces
  <2>2. c(body[i].sender) \in Nat
    BY <1>2, <2>1
  <2>. QED
    BY <2>1, <2>2
<1>4. ASSUME NEW a \in Address
      PROVE  P(a) \subseteq Nat /\ IsFiniteSet(P(a))
  <2>1. P(a) \subseteq 1..Len(body)
    OBVIOUS
  <2>2. IsFiniteSet(1..Len(body)) /\ 1..Len(body) \subseteq Nat
    BY <1>1, FS_Interval
  <2>. HIDE DEF P
  <2>. QED
    BY <2>1, <2>2, FS_Subset
<1>5. ASSUME NEW a, NEW i
      PROVE  i \in P(a) <=> i \in 1..Len(body) /\ body[i].sender = a
  OBVIOUS
<1>. HIDE DEF P, c
<1>6. ASSUME NEW a \in Address
      PROVE  /\ Cardinality(P(a)) \in Nat
             /\ \A k \in P(a) : CountUpTo(P(a), k) \in 1..Cardinality(P(a))
             /\ \A j, k \in P(a) : CountUpTo(P(a), j) = CountUpTo(P(a), k) => j = k
             /\ \A i \in 1..Cardinality(P(a)) : \E k \in P(a) : CountUpTo(P(a), k) = i
  BY <1>4, CountsNumber
<1>7. ASSUME NEW a \in Address, NEW i \in P(a)
      PROVE  /\ txs[i].sender = a /\ i \in DOMAIN txs
             /\ txs[i].nonce = c(a) + CountUpTo(P(a), i) - 1
             /\ c(a) \in Nat /\ CountUpTo(P(a), i) \in Nat /\ CountUpTo(P(a), i) >= 1
             /\ CountUpTo(P(a), i) <= Cardinality(P(a))
  <2>1. i \in 1..Len(body) /\ body[i].sender = a
    BY <1>5
  <2>2. CountUpTo(P(a), i) \in 1..Cardinality(P(a)) /\ Cardinality(P(a)) \in Nat
    BY <1>6
  <2>3. txs[i].sender = a /\ txs[i].nonce = c(a) + CountUpTo(P(a), i) - 1
    BY <1>3, <2>1
  <2>4. c(a) \in Nat
    BY <1>2
  <2>. QED
    BY <1>1, <2>1, <2>2, <2>3, <2>4
<1>8. ASSUME NEW a \in Address, NEW i \in P(a), NEW j \in P(a), txs[i].nonce = txs[j].nonce
      PROVE  i = j
  <2>1. PICK x, y, z : x = CountUpTo(P(a), i) /\ y = CountUpTo(P(a), j) /\ z = c(a)
    OBVIOUS
  <2>2. x \in Nat /\ y \in Nat /\ z \in Nat /\ z + x - 1 = z + y - 1
    BY <1>7, <1>8, <2>1
  <2>3. x = y
    BY <2>2
  <2>. QED
    BY <1>6, <2>1, <2>3
<1>9. ASSUME NEW a \in Address, NEW i \in P(a)
      PROVE  /\ txs[i].nonce \in Nat /\ txs[i].nonce >= c(a)
             /\ txs[i].nonce \in 0..(c(a) + Cardinality(P(a)) - 1)
  <2>1. PICK x, z, m : x = CountUpTo(P(a), i) /\ z = c(a) /\ m = Cardinality(P(a))
    OBVIOUS
  <2>2. x \in Nat /\ z \in Nat /\ m \in Nat /\ x >= 1 /\ x <= m /\ txs[i].nonce = z + x - 1
    BY <1>6, <1>7, <2>1
  <2>3. z + x - 1 \in Nat /\ z + x - 1 >= z /\ z + x - 1 \in 0..(z + m - 1)
    BY <2>2
  <2>. QED
    BY <2>1, <2>2, <2>3
<1>10. ASSUME NEW i \in DOMAIN txs
       PROVE  txs[i].sender \in Address /\ i \in P(txs[i].sender)
  BY <1>1, <1>3
<1>11. \A s, u : sender_key(s) = sender_key(u) => s.sender = u.sender /\ s.nonce = u.nonce
  <2>1. \A x, y, v, z : <<"sender", x, y>> = <<"sender", v, z>> => x = v /\ y = z
    OBVIOUS
  <2>. QED
    BY <2>1 DEF sender_key
<1>12. \A i, j \in DOMAIN txs : sender_key(txs[i]) = sender_key(txs[j]) => i = j
  BY <1>8, <1>10, <1>11
<1>13. ASSUME NEW i \in DOMAIN txs
       PROVE  /\ txs[i].nonce \in Nat
              /\ \A tx \in OnChain : sender_key(tx) # sender_key(txs[i])
  <2>1. PICK a \in Address : a = txs[i].sender /\ i \in P(a)
    BY <1>10
  <2>2. txs[i].nonce \in Nat /\ txs[i].nonce >= c(a) /\ c(a) \in Nat
    BY <1>2, <1>9, <2>1
  <2>3. ASSUME NEW tx \in OnChain, sender_key(tx) = sender_key(txs[i])
        PROVE  FALSE
    <3>1. tx.sender = a /\ tx.nonce = txs[i].nonce
      BY <1>11, <2>1, <2>3
    <3>2. tx \in Own(OnChain, a)
      BY <3>1 DEF Own
    <3>3. tx.nonce \in 0..(c(a) - 1)
      BY <1>2, <3>2 DEF NumberedTo
    <3>. QED
      BY <2>2, <3>1, <3>3
  <2>. QED
    BY <2>2, <2>3
<1>14. IsFiniteSet(Range(txs))
  <2>1. IsFiniteSet(DOMAIN txs)
    BY <1>1, FS_Interval
  <2>2. txs = [x \in DOMAIN txs |-> txs[x]]
    BY DEF Transactions
  <2>3. txs \in Surjection(DOMAIN txs, Range(txs))
    BY <2>2 DEF Surjection, Range
  <2>. QED
    BY <2>1, <2>3, FS_Surjection
<1>15. ASSUME NEW a \in Address
       PROVE  NumberedTo(Own(OnChain \cup Range(txs), a), c(a) + Cardinality(P(a)))
  <2> DEFINE old == Own(OnChain, a)
             all == Own(OnChain \cup Range(txs), a)
             n == c(a)
             m == Cardinality(P(a))
  <2>1. ASSUME NEW tx \in all
        PROVE  tx \in old \/ \E i \in P(a) : tx = txs[i]
    <3>1. tx \in OnChain \cup Range(txs) /\ tx.sender = a
      BY DEF Own
    <3>2. CASE tx \in OnChain
      BY <3>1, <3>2 DEF Own
    <3>3. CASE tx \in Range(txs)
      <4>1. PICK i \in DOMAIN txs : tx = txs[i]
        BY <3>3 DEF Range
      <4>. QED
        BY <1>10, <3>1, <4>1
    <3>. QED
      BY <3>1, <3>2, <3>3
  <2>2. \A tx \in old : tx \in all
    BY DEF Own
  <2>3. \A i \in P(a) : txs[i] \in all
    <3>. SUFFICES ASSUME NEW i \in P(a)
                  PROVE  txs[i] \in all
      OBVIOUS
    <3>1. i \in DOMAIN txs /\ txs[i].sender = a
      BY <1>7
    <3>2. txs[i] \in Range(txs)
      BY <3>1 DEF Range
    <3>. QED
      BY <3>1, <3>2 DEF Own
  <2>4. /\ n \in Nat /\ m \in Nat
        /\ \A tx \in old : tx.nonce \in 0..(n - 1)
        /\ \A k \in 0..(n - 1) : \E tx \in old : tx.nonce = k
        /\ \A s, u \in old : s.nonce = u.nonce => s = u
    BY <1>2, <1>6 DEF NumberedTo
  <2>. HIDE DEF old, all
  <2>5. \A i \in P(a) : txs[i].nonce \in Nat /\ txs[i].nonce >= n /\ txs[i].nonce \in 0..(n + m - 1)
    BY <1>9
  <2>6. \A i \in P(a) : txs[i].nonce = n + CountUpTo(P(a), i) - 1
    BY <1>7
  <2>7. \A k \in 1..m : \E i \in P(a) : CountUpTo(P(a), i) = k
    BY <1>6
  <2>. HIDE DEF n, m
  <2>8. \A tx \in all : tx.nonce \in 0..(n + m - 1)
    <3>. SUFFICES ASSUME NEW tx \in all
                  PROVE  tx.nonce \in 0..(n + m - 1)
      OBVIOUS
    <3>1. CASE tx \in old
      <4>1. tx.nonce \in 0..(n - 1)
        BY <2>4, <3>1
      <4>. QED
        BY <2>4, <4>1
    <3>. QED
      BY <2>1, <2>5, <3>1
  <2>9. \A k \in 0..(n + m - 1) : \E tx \in all : tx.nonce = k
    <3>. SUFFICES ASSUME NEW k \in 0..(n + m - 1)
                  PROVE  \E tx \in all : tx.nonce = k
      OBVIOUS
    <3>1. CASE k < n
      <4>1. k \in 0..(n - 1)
        BY <2>4, <3>1
      <4>. QED
        BY <2>2, <2>4, <4>1
    <3>2. CASE k >= n
      <4>1. k - n + 1 \in 1..m
        BY <2>4, <3>2
      <4>2. PICK i \in P(a) : CountUpTo(P(a), i) = k - n + 1
        BY <2>7, <4>1
      <4>3. txs[i].nonce = n + (k - n + 1) - 1
        BY <2>6, <4>2
      <4>4. txs[i].nonce = k
        BY <2>4, <4>3
      <4>. QED
        BY <2>3, <4>4
    <3>. QED
      BY <2>4, <3>1, <3>2
  <2>10. \A s, u \in all : s.nonce = u.nonce => s = u
    <3>. SUFFICES ASSUME NEW s \in all, NEW u \in all, s.nonce = u.nonce
                  PROVE  s = u
      OBVIOUS
    <3>1. ASSUME NEW tx \in old, NEW i \in P(a)
          PROVE  tx.nonce # txs[i].nonce
      <4>1. tx.nonce \in 0..(n - 1) /\ txs[i].nonce \in Nat /\ txs[i].nonce >= n
        BY <2>4, <2>5
      <4>. QED
        BY <2>4, <4>1
    <3>2. CASE s \in old /\ u \in old
      BY <2>4, <3>2
    <3>3. CASE s \in old /\ u \notin old
      BY <2>1, <3>1, <3>3
    <3>4. CASE s \notin old /\ u \in old
      BY <2>1, <3>1, <3>4
    <3>5. CASE s \notin old /\ u \notin old
      <4>1. PICK i \in P(a) : s = txs[i]
        BY <2>1, <3>5
      <4>2. PICK j \in P(a) : u = txs[j]
        BY <2>1, <3>5
      <4>. QED
        BY <1>8, <4>1, <4>2
    <3>. QED
      BY <3>2, <3>3, <3>4, <3>5
  <2>11. NumberedTo(all, n + m)
    <3>1. PICK e \in Nat : e = n + m
      BY <2>4
    <3>2. n + m - 1 = e - 1
      BY <2>4, <3>1
    <3>a. /\ \A tx \in all : tx.nonce \in 0..(e - 1)
          /\ \A k \in 0..(e - 1) : \E tx \in all : tx.nonce = k
      BY <2>8, <2>9, <3>2, Zenon
    <3>3. NumberedTo(all, e)
      BY <2>10, <3>a, Zenon DEF NumberedTo
    <3>. QED
      BY <3>1, <3>3
  <2>. QED
    BY <2>11 DEF all, n, m
<1>16. Numbered(OnChain \cup Range(txs))
  <2>1. ASSUME NEW a \in Address
        PROVE  \E n \in Nat : NumberedTo(Own(OnChain \cup Range(txs), a), n)
    <3>1. c(a) + Cardinality(P(a)) \in Nat
      BY <1>2, <1>6
    <3>2. NumberedTo(Own(OnChain \cup Range(txs), a), c(a) + Cardinality(P(a)))
      BY <1>15
    <3>. QED
      BY <3>1, <3>2
  <2>. QED
    BY <2>1 DEF Numbered
<1>. QED
  BY <1>12, <1>13, <1>14, <1>16

\* An accepted block plans entries of the sender index that are new.
LEMMA HistoryAccept ==
    ASSUME StoreInv, HistoryInv, AcceptBlock
    PROVE  HistoryInv'
<1>1. PICK tip, body, txs, b, w, n : Accepts(tip, body, txs, b, w, n)
  BY AcceptPlan
<1>2. /\ body \in Bodies /\ txs = Transactions(body) /\ b.body = txs
      /\ IsBlockCall(w, n, b, txs) /\ UNCHANGED trees /\ todo' = w
  BY <1>1 DEF Accepts
<1>3. /\ DOMAIN txs = 1..Len(txs) /\ Len(txs) \in Nat /\ n \in Nat /\ n <= Len(txs)
      /\ DOMAIN w = 1..Len(w) /\ (AllHashed(txs) => n = Len(txs))
  BY <1>2 DEF IsBlockCall
<1>4. \A h : get_block_by_height(h)' = get_block_by_height(h)
  BY <1>2 DEF get_block_by_height, trees
<1>5. OnChain' = OnChain /\ transactions' = transactions
  BY <1>2, <1>4 DEF OnChain, trees
<1>6. /\ IsFiniteSet(Range(txs))
      /\ Numbered(OnChain \cup Range(txs))
      /\ \A i \in DOMAIN txs :
           /\ txs[i].nonce \in Nat
           /\ \A tx \in OnChain : sender_key(tx) # sender_key(txs[i])
      /\ \A i, j \in DOMAIN txs : sender_key(txs[i]) = sender_key(txs[j]) => i = j
  BY <1>2, BodyContinues DEF HistoryInv
<1>7. ASSUME NEW i \in 1..n
      PROVE  /\ w[2 * i + 1].key[1] = "hash"
             /\ w[2 * i + 2].op = "transactions" /\ w[2 * i + 2].value = txs[i].hash
             /\ w[2 * i + 2].key = sender_key(txs[i]) /\ w[2 * i + 2].key[1] = "sender"
             /\ i \in DOMAIN txs
  <2>1. i \in DOMAIN txs
    <3>1. PICK l \in Nat : l = Len(txs)
      BY <1>3
    <3>2. n \in Nat /\ n <= l
      BY <1>3, <3>1
    <3>3. i \in 1..l
      BY <3>2
    <3>. QED
      BY <1>3, <3>1, <3>3
  <2>2. \A j \in 1..n :
          /\ w[2 * j + 1].key[1] = "hash"
          /\ w[2 * j + 2].op = "transactions" /\ w[2 * j + 2].value = txs[j].hash
          /\ w[2 * j + 2].key = sender_key(txs[j]) /\ w[2 * j + 2].key[1] = "sender"
    BY <1>2, BlockWrites
  <2>. QED
    BY <2>1, <2>2
<1>8. ASSUME NEW i \in 1..Len(w), w[i].op = "transactions", w[i].key[1] = "sender"
      PROVE  \E j \in 1..n : i = 2 * j + 2
  <2>1. \/ \E j \in 1..n : i = 2 * j + 1
        \/ \E j \in 1..n : i = 2 * j + 2
    BY <1>2, <1>8, BlockWrites
  <2>2. ASSUME NEW j \in 1..n, i = 2 * j + 1
        PROVE  FALSE
    BY <1>7, <1>8, <2>2
  <2>. QED
    BY <2>1, <2>2
<1>9. ASSUME NEW i \in 1..Len(w), w[i].op = "transactions", w[i].key[1] = "sender"
      PROVE  \E j \in DOMAIN txs : w[i].key = sender_key(txs[j]) /\ w[i].value = txs[j].hash
  <2>1. PICK j \in 1..n : i = 2 * j + 2
    BY <1>8, <1>9
  <2>. QED
    BY <1>7, <2>1
<1>10. NewKeys'
  <2>. SUFFICES ASSUME NEW i \in 1..Len(w), w[i].op = "transactions", w[i].key[1] = "sender"
                PROVE  w[i].key[3] \in Nat /\ \A tx \in OnChain : sender_key(tx) # w[i].key
    BY <1>2, <1>3, <1>5 DEF NewKeys, IndexWrite
  <2>1. PICK j \in DOMAIN txs : w[i].key = sender_key(txs[j])
    BY <1>9
  <2>2. sender_key(txs[j])[3] = txs[j].nonce
    BY DEF sender_key
  <2>. QED
    BY <1>6, <2>1, <2>2
<1>11. IndexBeforeTip'
  <2>0. \A j : IndexWrite(j)' <=> (w[j].op = "transactions" /\ w[j].key[1] = "sender")
    BY <1>2 DEF IndexWrite
  <2>. SUFFICES ASSUME NEW i \in DOMAIN w, w[i].op = "chain_tip"
                PROVE  LET bodyTxs == Range(w[i].block.body) IN
                       /\ IsFiniteSet(bodyTxs)
                       /\ Numbered(OnChain \cup bodyTxs)
                       /\ \A tx \in bodyTxs :
                            /\ \/ IndexHas(tx)'
                               \/ \E j \in 1..(i - 1) : IndexWrite(j)' /\ w[j].key = sender_key(tx)
                            /\ \A j \in DOMAIN w :
                                 IndexWrite(j)' /\ w[j].key = sender_key(tx) => w[j].value = tx.hash
    BY <1>2, <1>5 DEF IndexBeforeTip
  <2>1. w[i].block = b /\ AllHashed(txs) /\ i = 2 * n + 3
    <3>1. \A k \in 1..Len(w) : w[k].op \in BlockOps => w[k].block = b
      BY <1>2, BlockWrites
    <3>2. \A k \in 1..Len(w) : w[k].op = "chain_tip" => AllHashed(txs) /\ k = 2 * n + 3
      BY <1>2, BlockWrites
    <3>. QED
      BY <1>3, <3>1, <3>2 DEF BlockOps
  <2>2. ASSUME NEW tx \in Range(txs)
        PROVE  /\ \E j \in 1..(i - 1) :
                    /\ w[j].op = "transactions" /\ w[j].key[1] = "sender"
                    /\ w[j].key = sender_key(tx)
               /\ \A j \in 1..Len(w) :
                    (/\ w[j].op = "transactions" /\ w[j].key[1] = "sender"
                     /\ w[j].key = sender_key(tx)) => w[j].value = tx.hash
    <3>1. PICK x \in DOMAIN txs : tx = txs[x]
      BY DEF Range
    <3>2. x \in 1..n /\ 2 * x + 2 \in 1..(i - 1)
      BY <1>3, <2>1
    <3>3. \E j \in 1..(i - 1) : /\ w[j].op = "transactions" /\ w[j].key[1] = "sender"
                                /\ w[j].key = sender_key(tx)
      BY <1>7, <3>1, <3>2
    <3>4. ASSUME NEW j \in 1..Len(w), w[j].op = "transactions", w[j].key[1] = "sender",
                 w[j].key = sender_key(tx)
          PROVE  w[j].value = tx.hash
      <4>1. PICK y \in DOMAIN txs : w[j].key = sender_key(txs[y]) /\ w[j].value = txs[y].hash
        BY <1>9, <3>4
      <4>2. y = x
        BY <1>6, <3>1, <3>4, <4>1
      <4>. QED
        BY <3>1, <4>1, <4>2
    <3>. QED
      BY <3>3, <3>4
  <2>3. Range(w[i].block.body) = Range(txs)
    BY <1>2, <2>1
  <2>. QED
    BY <1>3, <1>6, <2>0, <2>2, <2>3
<1>. QED
  BY <1>5, <1>10, <1>11 DEF HistoryInv, Numbered, IndexNumbers, ChainIndexed, IndexHas

\* HistoryInv holds of the empty database and every step keeps it.
THEOREM ChainStoreHistoryInvariant == Spec => []HistoryInv
<1>1. Init => HistoryInv
  <2>. SUFFICES ASSUME Init
                PROVE  HistoryInv
    OBVIOUS
  <2>1. DOMAIN todo = {} /\ DOMAIN transactions = {} /\ chain_tip = {}
    BY DEF Init, EmptyTree
  <2>2. OnChain = {}
    BY <2>1 DEF OnChain
  <2>3. IsFiniteSet(DOMAIN transactions) /\ IsFiniteSet(OnChain)
    BY <2>1, <2>2, FS_EmptySet
  <2>4. Numbered(OnChain)
    <3>1. \A a : Own(OnChain, a) = {}
      BY <2>2 DEF Own
    <3>2. 0..(0 - 1) = {}
      OBVIOUS
    <3>3. \A a : NumberedTo(Own(OnChain, a), 0)
      BY <3>1, <3>2 DEF NumberedTo
    <3>. QED
      BY <3>3 DEF Numbered
  <2>. QED
    BY <2>1, <2>2, <2>3, <2>4 DEF HistoryInv, IndexNumbers, ChainIndexed, NewKeys, IndexBeforeTip
<1>2. StoreInv /\ HistoryInv /\ [Next]_vars => HistoryInv'
  <2>. SUFFICES ASSUME StoreInv, HistoryInv, [Next]_vars
                PROVE  HistoryInv'
    OBVIOUS
  <2>1. CASE UNCHANGED vars
    <3>1. UNCHANGED <<trees, todo>>
      BY <2>1 DEF vars
    <3>2. \A h : get_block_by_height(h)' = get_block_by_height(h)
      BY <3>1 DEF get_block_by_height, trees
    <3>3. OnChain' = OnChain /\ transactions' = transactions /\ todo' = todo
      BY <3>1, <3>2 DEF OnChain, trees
    <3>4. Numbered(OnChain)' /\ IndexNumbers' /\ ChainIndexed'
      BY <3>3 DEF HistoryInv, Numbered, IndexNumbers, ChainIndexed, IndexHas
    <3>5. NewKeys'
      BY <3>3 DEF HistoryInv, NewKeys, IndexWrite
    <3>6. IndexBeforeTip'
      <4>1. /\ \A tx : IndexHas(tx)' <=> IndexHas(tx)
            /\ \A j : IndexWrite(j)' <=> IndexWrite(j)
            /\ IndexBeforeTip
        BY <3>3 DEF HistoryInv, IndexHas, IndexWrite
      <4>. QED
        BY <3>3, <4>1 DEF IndexBeforeTip
    <3>. QED
      BY <3>3, <3>4, <3>5, <3>6 DEF HistoryInv
  <2>2. CASE Crash
    BY <2>2, HistoryCallEnds DEF Crash
  <2>. QED
    BY <2>1, <2>2, HistoryInitialize, HistoryAccept, HistoryWrite DEF Next
<1>. QED
  BY <1>1, <1>2, ChainStoreInvariant, PTL DEF Spec

\* The entries of the sender index of an address, and their nonces.
SenderKeys(a) == {k \in DOMAIN transactions : k[1] = "sender" /\ k[2] = a}
Nonces(a) == {k[3] : k \in SenderKeys(a)}

\* An entry is that of a stored transaction, which has the hash it holds.
LEMMA EntryResolves ==
    ASSUME StoreInv, NEW a, NEW k \in SenderKeys(a)
    PROVE  /\ k = <<"sender", a, k[3]>>
           /\ \E tx : /\ get_transaction(transactions[k]) = {tx}
                      /\ tx.hash = transactions[k]
<1>0. k \in DOMAIN transactions /\ k[1] = "sender" /\ k[2] = a
  BY DEF SenderKeys
<1>1. PICK h : h = transactions[k]
  OBVIOUS
<1>2. PICK tx \in get_transaction(h) : sender_key(tx) = k
  BY <1>0, <1>1 DEF StoreInv, Trees, SenderIndexResolves
<1>3. k = <<"sender", tx.sender, tx.nonce>>
  BY <1>2 DEF sender_key
<1>4. k = <<"sender", a, k[3]>>
  BY <1>0, <1>3
<1>5. PICK hk : hk = hash_key(h)
  OBVIOUS
<1>6. hk \in DOMAIN transactions /\ get_transaction(h) = {transactions[hk]} /\ hk[1] = "hash"
  BY <1>2, <1>5, KeysApart DEF get_transaction
<1>7. hk = hash_key(transactions[hk].hash)
  BY <1>6 DEF StoreInv, Trees, TransactionsUnderHash
<1>8. transactions[hk].hash = h
  BY <1>5, <1>7 DEF hash_key
<1>. QED
  BY <1>1, <1>4, <1>6, <1>8

\* The nonces of an address are finitely many.
LEMMA NoncesFinite ==
    ASSUME HistoryInv, NEW a
    PROVE  Nonces(a) \subseteq Nat /\ IsFiniteSet(Nonces(a))
<1> DEFINE K == SenderKeys(a)
           N == Nonces(a)
           R == [k \in K |-> k[3]]
<1>1. N \subseteq Nat
  BY DEF Nonces, SenderKeys, HistoryInv, IndexNumbers
<1>2. IsFiniteSet(K)
  <2>1. K \subseteq DOMAIN transactions
    BY DEF SenderKeys
  <2>. HIDE DEF K
  <2>. QED
    BY <2>1, FS_Subset DEF HistoryInv
<1>3. /\ \A k \in K : R[k] \in N
      /\ \A n \in N : \E k \in K : R[k] = n
  BY DEF Nonces
<1>. HIDE DEF K, N
<1>4. R \in [K -> N]
  BY <1>3
<1>. HIDE DEF R
<1>5. R \in Surjection(K, N)
  BY <1>3, <1>4 DEF Surjection
<1>6. IsFiniteSet(N)
  BY <1>2, <1>5, FS_Surjection
<1>. QED
  BY <1>1, <1>6 DEF N

\* get_transactions_by_sender: the entries by nonce.
LEMMA SenderHistory ==
    ASSUME StoreInv, HistoryInv, NEW a
    PROVE  LET N == Nonces(a)
               s == get_transactions_by_sender(a)
           IN  /\ Cardinality(N) \in Nat
               /\ s = [i \in 1..Cardinality(N) |-> s[i]]
               /\ \A n \in N : /\ <<"sender", a, n>> \in SenderKeys(a)
                               /\ CountUpTo(N, n) \in 1..Cardinality(N)
                               /\ s[CountUpTo(N, n)] = transactions[<<"sender", a, n>>]
               /\ \A i \in 1..Cardinality(N) : \E n \in N : CountUpTo(N, n) = i
<1> DEFINE K == SenderKeys(a)
           N == Nonces(a)
           nth(i) == CHOOSE n \in N : CountUpTo(N, n) = i
           s == get_transactions_by_sender(a)
           C == Cardinality(N)
<1>1. s = [i \in 1..C |-> transactions[<<"sender", a, nth(i)>>]]
  BY DEF get_transactions_by_sender, Nonces, SenderKeys, CountUpTo
<1>2. /\ C \in Nat
      /\ \A k \in N : CountUpTo(N, k) \in 1..C
      /\ \A j, k \in N : CountUpTo(N, j) = CountUpTo(N, k) => j = k
      /\ \A i \in 1..C : \E k \in N : CountUpTo(N, k) = i
  BY NoncesFinite, CountsNumber
<1>3. \A n \in N : <<"sender", a, n>> \in K
  <2>1. \A k \in K : <<"sender", a, k[3]>> \in K
    BY EntryResolves
  <2>. QED
    BY <2>1 DEF Nonces
<1>. HIDE DEF K, N, C, s
<1>4. \A n \in N : nth(CountUpTo(N, n)) = n
  BY <1>2
<1>. HIDE DEF nth
<1>5. \A n \in N : s[CountUpTo(N, n)] = transactions[<<"sender", a, n>>]
  BY <1>1, <1>2, <1>4
<1>6. s = [i \in 1..C |-> s[i]]
  BY <1>1
<1>. QED
  BY <1>2, <1>3, <1>5, <1>6 DEF K, N, C, s

\* The history of an address starts with what it has on the chain: its
\* transactions there are numbered without a gap, and are in the index.
LEMMA HistoryPrefix ==
    ASSUME StoreInv, HistoryInv, NEW a \in Address
    PROVE  IsPrefix(ChainHistory(a), get_transactions_by_sender(a))
<1> DEFINE own == Own(OnChain, a)
           c == Cardinality(own)
           N == Nonces(a)
           C == Cardinality(N)
           t(i) == CHOOSE tx \in own : tx.nonce = i - 1
           h == ChainHistory(a)
           s == get_transactions_by_sender(a)
           S == {h[i] : i \in 1..c} \cup {s[i] : i \in 1..c}
<1>1. c \in Nat /\ NumberedTo(own, c)
  <2>1. PICK n \in Nat : NumberedTo(own, n)
    BY DEF HistoryInv, Numbered
  <2>2. IsFiniteSet(own)
    <3>1. own \subseteq OnChain
      BY DEF Own
    <3>. HIDE DEF own
    <3>. QED
      BY <3>1, FS_Subset DEF HistoryInv
  <2>. HIDE DEF own
  <2>. QED
    BY <2>1, <2>2, NumberedCount
<1>2. h = [i \in 1..c |-> t(i).hash]
  BY DEF ChainHistory, Own
<1>3. \A tx \in own : tx \in OnChain /\ tx.sender = a
  BY DEF Own
<1>4. N \subseteq Nat
  BY NoncesFinite
<1>5. /\ C \in Nat
      /\ s = [i \in 1..C |-> s[i]]
      /\ \A n \in N : CountUpTo(N, n) \in 1..C /\ s[CountUpTo(N, n)] = transactions[<<"sender", a, n>>]
  BY SenderHistory
<1>. HIDE DEF own, c, h, s, C
<1>6. ASSUME NEW i \in 1..c
      PROVE  /\ t(i) \in own /\ t(i).nonce = i - 1 /\ i - 1 \in N
             /\ transactions[<<"sender", a, i - 1>>] = t(i).hash
  <2>1. i - 1 \in 0..(c - 1)
    BY <1>1
  <2>2. t(i) \in own /\ t(i).nonce = i - 1
    BY <1>1, <2>1 DEF NumberedTo
  <2>. HIDE DEF t
  <2>3. PICK tx : tx = t(i)
    OBVIOUS
  <2>4. tx.sender = a /\ IndexHas(tx)
    BY <1>3, <2>2, <2>3 DEF HistoryInv, ChainIndexed
  <2>5. PICK k : k = <<"sender", a, i - 1>>
    OBVIOUS
  <2>6. sender_key(tx) = k /\ k[1] = "sender" /\ k[2] = a /\ k[3] = i - 1
    BY <2>2, <2>3, <2>4, <2>5 DEF sender_key
  <2>7. k \in SenderKeys(a) /\ transactions[k] = tx.hash
    BY <2>4, <2>6 DEF IndexHas, SenderKeys
  <2>8. i - 1 \in N
    BY <2>6, <2>7 DEF Nonces
  <2>. QED
    BY <2>2, <2>3, <2>5, <2>7, <2>8
<1>. HIDE DEF t, N
<1>7. ASSUME NEW i \in 1..c
      PROVE  CountUpTo(N, i - 1) = i
  <2>1. c \in Nat /\ i \in Nat /\ i >= 1 /\ i <= c
    BY <1>1
  <2>2. ASSUME NEW j \in 0..(i - 1)
        PROVE  j \in N
    <3>1. j + 1 \in 1..c /\ (j + 1) - 1 = j
      BY <2>1
    <3>. QED
      BY <1>6, <3>1
  <2>3. {j \in N : j <= i - 1} = 0..(i - 1)
    <3>1. \A j \in N : j <= i - 1 => j \in 0..(i - 1)
      BY <1>4, <2>1
    <3>2. \A j \in 0..(i - 1) : j <= i - 1
      BY <2>1
    <3>. QED
      BY <2>2, <3>1, <3>2
  <2>4. 0 \in Int /\ i - 1 \in Int /\ ~(0 > i - 1) /\ (i - 1) - 0 + 1 = i
    BY <2>1
  <2>5. Cardinality(0..(i - 1)) = i
    BY <2>4, FS_Interval
  <2>. QED
    BY <2>3, <2>5 DEF CountUpTo
<1>8. ASSUME NEW i \in 1..c
      PROVE  i \in 1..C /\ s[i] = h[i]
  <2>1. i - 1 \in N /\ transactions[<<"sender", a, i - 1>>] = t(i).hash
    BY <1>6
  <2>2. CountUpTo(N, i - 1) = i
    BY <1>7
  <2>3. i \in 1..C /\ s[i] = t(i).hash
    BY <1>5, <2>1, <2>2
  <2>. QED
    BY <1>2, <2>3
<1>9. c <= C
  <2>1. CASE c = 0
    BY <1>5, <2>1
  <2>2. CASE c # 0
    <3>1. c \in 1..c
      BY <1>1, <2>2
    <3>. QED
      BY <1>1, <1>5, <1>8, <3>1
  <2>. QED
    BY <2>1, <2>2
<1>10. Len(h) = c /\ Len(s) = C
  BY <1>1, <1>2, <1>5
<1>11. \A i \in 1..c : h[i] \in S /\ s[i] \in S
  OBVIOUS
<1>. HIDE DEF S
<1>12. /\ SubSeq(h, 1, c) \in Seq(S) /\ Len(SubSeq(h, 1, c)) = c
       /\ \A i \in 1..c : SubSeq(h, 1, c)[i] = h[i]
  BY <1>1, <1>11, SubSeqProperties
<1>13. /\ SubSeq(s, 1, c) \in Seq(S) /\ Len(SubSeq(s, 1, c)) = c
       /\ \A i \in 1..c : SubSeq(s, 1, c)[i] = s[i]
  BY <1>1, <1>11, SubSeqProperties
<1>14. SubSeq(h, 1, c) = SubSeq(s, 1, c)
  BY <1>8, <1>12, <1>13, SeqEqual
<1>15. IsPrefix(h, s)
  BY <1>9, <1>10, <1>14 DEF IsPrefix
<1>. QED
  BY <1>15 DEF h, s

\* Every transaction on the chain is counted.
LEMMA ChainCounted ==
    ASSUME StoreInv, HistoryInv
    PROVE  transaction_count >= Cardinality(OnChain)
<1> DEFINE K == {k \in DOMAIN transactions : k[1] # "sender"}
           R == [tx \in OnChain |-> hash_key(tx.hash)]
<1>1. \A tx \in OnChain : hash_key(tx.hash) \in K
  <2>1. \A tx \in OnChain : hash_key(tx.hash) \in DOMAIN transactions
    BY DEF StoreInv, Trees, OnChainFound, get_transaction
  <2>. QED
    BY <2>1, KeysApart
<1>2. \A x, y : hash_key(x) = hash_key(y) => x = y
  BY DEF hash_key
<1>3. \A s, u \in OnChain : hash_key(s.hash) = hash_key(u.hash) => s = u
  BY <1>2, HashIdentifies DEF StoreInv, Trees, OnChainHashed
<1>4. IsFiniteSet(K)
  <2>1. K \subseteq DOMAIN transactions
    OBVIOUS
  <2>. HIDE DEF K
  <2>. QED
    BY <2>1, FS_Subset DEF HistoryInv
<1>5. transaction_count = Cardinality(K)
  BY DEF transaction_count
<1>. HIDE DEF K
<1>6. R \in [OnChain -> K] /\ \A s, u \in OnChain : R[s] = R[u] => s = u
  BY <1>1, <1>3
<1>. HIDE DEF R
<1>7. R \in Injection(OnChain, K)
  BY <1>6 DEF Injection, IsInjective
<1>8. Cardinality(OnChain) <= Cardinality(K)
  BY <1>4, <1>7, FS_Injection
<1>9. Cardinality(OnChain) \in Nat /\ Cardinality(K) \in Nat
  BY <1>4, FS_CardinalityType DEF HistoryInv
<1>. QED
  BY <1>5, <1>8, <1>9

\* The sequence of a single member.
LEMMA SetToSeqSingle == \A x : SetToSeq({x}) = <<x>>
<1>. SUFFICES ASSUME NEW x
              PROVE  SetToSeq({x}) = <<x>>
  OBVIOUS
<1> DEFINE f == SetToSeq({x})
<1>1. Cardinality({x}) = 1
  BY FS_Singleton
<1>2. f = CHOOSE g \in [1..1 -> {x}] : IsInjective(g)
  BY <1>1 DEF SetToSeq
<1>3. <<x>> \in [1..1 -> {x}] /\ IsInjective(<<x>>)
  BY DEF IsInjective
<1>. HIDE DEF f
<1>4. f \in [1..1 -> {x}]
  BY <1>2, <1>3
<1>5. f = <<x>>
  BY <1>4
<1>. QED
  BY <1>5 DEF f

\* get_recent_transactions_by_sender: the last few of the history, each of
\* which is stored, from the end.
LEMMA RecentHistory ==
    ASSUME StoreInv, HistoryInv, NEW a \in Address, NEW limit \in Nat
    PROVE  LET recent == get_recent_transactions_by_sender(a, limit)
               all == get_transactions_by_sender(a)
           IN  /\ Len(recent) = Min({limit, Len(all)})
               /\ \A i \in DOMAIN recent : recent[i].hash = all[Len(all) + 1 - i]
<1> DEFINE N == Nonces(a)
           C == Cardinality(N)
           s == get_transactions_by_sender(a)
           r == Reverse(s)
           m == Min({limit, C})
           S == {r[i] : i \in 1..C}
           taken == SubSeq(r, 1, m)
           x == [i \in 1..m |-> CHOOSE tx : get_transaction(taken[i]) = {tx}]
           recent == get_recent_transactions_by_sender(a, limit)
<1>1. /\ C \in Nat
      /\ s = [i \in 1..C |-> s[i]]
      /\ \A n \in N : <<"sender", a, n>> \in SenderKeys(a)
      /\ \A n \in N : s[CountUpTo(N, n)] = transactions[<<"sender", a, n>>]
      /\ \A i \in 1..C : \E n \in N : CountUpTo(N, n) = i
  BY SenderHistory
<1>. HIDE DEF s, C
<1>2. Len(s) = C
  BY <1>1
<1>3. m \in Nat /\ m <= limit /\ m <= C
  BY <1>1 DEF Min
<1>. HIDE DEF m, N
<1>4. \A i \in 1..C : \E tx : get_transaction(s[i]) = {tx} /\ tx.hash = s[i]
  <2>. SUFFICES ASSUME NEW i \in 1..C
                PROVE  \E tx : get_transaction(s[i]) = {tx} /\ tx.hash = s[i]
    OBVIOUS
  <2>1. PICK n \in N : CountUpTo(N, n) = i
    BY <1>1
  <2>2. PICK k : k = <<"sender", a, n>>
    OBVIOUS
  <2>3. k \in SenderKeys(a) /\ s[i] = transactions[k]
    BY <1>1, <2>1, <2>2
  <2>. QED
    BY <2>3, EntryResolves
<1>5. r = [i \in 1..C |-> s[(C - i) + 1]]
  BY <1>2 DEF Reverse
<1>6. \A i \in 1..m : i \in 1..C /\ (C - i) + 1 \in 1..C /\ (C - i) + 1 = C + 1 - i
  BY <1>1, <1>3
<1>7. \A i \in 1..m : r[i] = s[C + 1 - i] /\ r[i] \in S /\ C + 1 - i \in 1..C
  BY <1>5, <1>6
<1>8. Len(r) = C
  BY <1>1, <1>5
<1>. HIDE DEF r, S
<1>9. /\ taken \in Seq(S) /\ Len(taken) = m
      /\ \A i \in 1..m : taken[i] = r[i]
  BY <1>3, <1>7, SubSeqProperties
<1>10. recent = FlattenSeq([i \in DOMAIN taken |-> SetToSeq(get_transaction(taken[i]))])
  BY <1>8 DEF get_recent_transactions_by_sender, r, s, m
<1>11. DOMAIN taken = 1..m
  BY <1>9
<1>. HIDE DEF taken, recent
<1>12. \A i \in 1..m : \E tx : get_transaction(taken[i]) = {tx} /\ tx.hash = s[C + 1 - i]
  <2>. SUFFICES ASSUME NEW i \in 1..m
                PROVE  \E tx : get_transaction(taken[i]) = {tx} /\ tx.hash = s[C + 1 - i]
    OBVIOUS
  <2>1. PICK j \in 1..C : j = C + 1 - i
    BY <1>7
  <2>2. taken[i] = s[j]
    BY <1>7, <1>9, <2>1
  <2>3. PICK tx : get_transaction(s[j]) = {tx} /\ tx.hash = s[j]
    BY <1>4
  <2>. QED
    BY <2>1, <2>2, <2>3
<1>13. \A i \in 1..m : get_transaction(taken[i]) = {x[i]} /\ x[i].hash = s[C + 1 - i]
  BY <1>12
<1>. HIDE DEF x
<1>14. \A i \in 1..m : SetToSeq(get_transaction(taken[i])) = <<x[i]>>
  BY <1>13, SetToSeqSingle
<1>15. [i \in 1..m |-> SetToSeq(get_transaction(taken[i]))] = [i \in 1..m |-> <<x[i]>>]
  BY <1>14
<1>16. recent = [i \in 1..m |-> x[i]]
  <2>1. PICK seqs : seqs = [i \in 1..m |-> SetToSeq(get_transaction(taken[i]))]
    OBVIOUS
  <2>2. IsSingles(seqs, x, m)
    BY <1>3, <1>15, <2>1 DEF IsSingles
  <2>3. FlattenSeq(seqs) = [i \in 1..m |-> x[i]]
    BY <2>2, FlattenSingles
  <2>4. recent = FlattenSeq(seqs)
    BY <1>10, <1>11, <2>1
  <2>. QED
    BY <2>3, <2>4
<1>17. Len(recent) = m /\ \A i \in DOMAIN recent : recent[i].hash = s[C + 1 - i]
  BY <1>3, <1>13, <1>16
<1>. QED
  BY <1>2, <1>17 DEF recent, s, m

\* Whenever the process stops, what is on the chain is found under its hash
\* and by its sender, in the order of the nonces and before anything that a
\* half-saved block left, and the wallet's last few transactions are the last
\* few of that history.
THEOREM ChainStoreHistoryStartsWithChain == Spec => []HistoryStartsWithChain
<1>1. StoreInv /\ HistoryInv => HistoryStartsWithChain
  <2>. SUFFICES ASSUME StoreInv, HistoryInv
                PROVE  HistoryStartsWithChain
    OBVIOUS
  <2>1. OnChainFound
    BY DEF StoreInv, Trees
  <2>2. \A a \in Address : IsPrefix(ChainHistory(a), get_transactions_by_sender(a))
    BY HistoryPrefix
  <2>3. transaction_count >= Cardinality(OnChain)
    BY ChainCounted
  <2>4. \A a \in Address, limit \in 0..3 :
          LET recent == get_recent_transactions_by_sender(a, limit)
              all == get_transactions_by_sender(a)
          IN  /\ Len(recent) = Min({limit, Len(all)})
              /\ \A i \in DOMAIN recent : recent[i].hash = all[Len(all) + 1 - i]
    BY RecentHistory
  <2>. QED
    BY <2>1, <2>2, <2>3, <2>4 DEF HistoryStartsWithChain
<1>. QED
  BY <1>1, ChainStoreInvariant, ChainStoreHistoryInvariant, PTL
=============================================================================
