-------------------------- MODULE WithdrawalsProofs -------------------------
(***************************************************************************)
(* Proofs about Withdrawals, for every set of accounts, unbonding period   *)
(* and number of stops.                                                    *)
(***************************************************************************)
EXTENDS Withdrawals, CoinTheorems, SequenceTheorems

\* A withdrawal, and its key in the queue.
Entry == [address : Address, amount : Amounts, request_epoch : Nat, unlock_epoch : Nat]
Key == [at : Nat, to : Address, asked : Nat]

-----------------------------------------------------------------------------
(***************************************************************************)
(* The order of the scan: no key is above itself, two keys are ordered,    *)
(* and so a finite set of keys has exactly one key for each number of keys *)
(* below it.                                                               *)
(***************************************************************************)
Below(keys, k) == {j \in keys : KeyBelow(j, k)}

\* KeyBelow is a strict total order.
LEMMA KeyOrder ==
    ASSUME NEW j \in Key, NEW k \in Key
    PROVE  /\ ~KeyBelow(k, k)
           /\ j = k \/ KeyBelow(j, k) \/ KeyBelow(k, j)
           /\ \A i \in Key : KeyBelow(i, j) /\ KeyBelow(j, k) => KeyBelow(i, k)
<1>1. \A i \in Key : i.at \in Nat /\ i.to \in Nat /\ i.asked \in Nat
  BY AddressAssumption DEF Key
<1>2. ~KeyBelow(k, k)
  BY <1>1 DEF KeyBelow
<1>3. j = k \/ KeyBelow(j, k) \/ KeyBelow(k, j)
  <2>1. j.at = k.at /\ j.to = k.to /\ j.asked = k.asked => j = k
    BY DEF Key
  <2>2. j.at \in Nat /\ j.to \in Nat /\ j.asked \in Nat /\ k.at \in Nat /\ k.to \in Nat /\ k.asked \in Nat
    BY <1>1
  <2>. QED
    BY <2>1, <2>2 DEF KeyBelow
<1>4. ASSUME NEW i \in Key, KeyBelow(i, j), KeyBelow(j, k)
      PROVE  KeyBelow(i, k)
  <2>1. i.at \in Nat /\ i.to \in Nat /\ i.asked \in Nat
    BY <1>1
  <2>2. j.at \in Nat /\ j.to \in Nat /\ j.asked \in Nat /\ k.at \in Nat /\ k.to \in Nat /\ k.asked \in Nat
    BY <1>1
  <2>. QED
    BY <1>4, <2>1, <2>2 DEF KeyBelow
<1>. QED
  BY <1>2, <1>3, <1>4

\* A lower key has fewer keys below it.
LEMMA FewerBelow ==
    ASSUME NEW keys \in SUBSET Key, IsFiniteSet(keys), NEW j \in keys, NEW k \in keys,
           KeyBelow(j, k)
    PROVE  Cardinality(Below(keys, j)) < Cardinality(Below(keys, k))
<1>1. Below(keys, j) \subseteq Below(keys, k)
  BY KeyOrder DEF Below
<1>2. j \in Below(keys, k) /\ j \notin Below(keys, j)
  BY KeyOrder DEF Below
<1>3. IsFiniteSet(Below(keys, k)) /\ IsFiniteSet(Below(keys, j))
  BY FS_Subset DEF Below
<1>4. /\ Cardinality(Below(keys, j)) \in Nat /\ Cardinality(Below(keys, k)) \in Nat
  BY <1>3, FS_CardinalityType
<1>5. /\ Cardinality(Below(keys, j)) <= Cardinality(Below(keys, k))
      /\ Cardinality(Below(keys, j)) # Cardinality(Below(keys, k))
  BY <1>1, <1>2, <1>3, FS_Subset
<1>. QED
  BY <1>4, <1>5

\* InKeyOrder lists keys of the set, each one once: for every position there is
\* the key with that many keys below it.
LEMMA InKeyOrderLists ==
    ASSUME NEW keys \in SUBSET Key, IsFiniteSet(keys)
    PROVE  /\ InKeyOrder(keys) \in [1..Cardinality(keys) -> keys]
           /\ \A i, j \in 1..Cardinality(keys) :
                 InKeyOrder(keys)[i] = InKeyOrder(keys)[j] => i = j
<1> DEFINE n == Cardinality(keys)
           rank == [k \in keys |-> Cardinality(Below(keys, k))]
<1>1. n \in Nat
  BY FS_CardinalityType
<1>2. ASSUME NEW k \in keys
      PROVE  rank[k] \in 0..(n - 1)
  <2>1. Below(keys, k) \in SUBSET keys /\ Below(keys, k) # keys
    BY KeyOrder DEF Below
  <2>2. /\ Cardinality(Below(keys, k)) \in Nat
        /\ Cardinality(Below(keys, k)) <= n /\ Cardinality(Below(keys, k)) # n
    BY <2>1, FS_Subset, FS_CardinalityType
  <2>. QED
    BY <1>1, <2>2
<1>3. ASSUME NEW j \in keys, NEW k \in keys, rank[j] = rank[k]
      PROVE  j = k
  <2>1. rank[j] \in Nat /\ rank[k] \in Nat
    BY <1>2
  <2>2. ~KeyBelow(j, k)
    BY <1>3, <2>1, FewerBelow
  <2>3. ~KeyBelow(k, j)
    BY <1>3, <2>1, FewerBelow
  <2>. QED
    BY <2>2, <2>3, KeyOrder
<1>4. rank \in Injection(keys, 0..(n - 1))
  BY <1>2, <1>3 DEF Injection, IsInjective
<1>5. IsFiniteSet(0..(n - 1)) /\ Cardinality(0..(n - 1)) = n
  BY <1>1, FS_Interval
<1>6. rank \in Surjection(keys, 0..(n - 1))
  BY <1>4, <1>5, FS_Injection
<1>7. ASSUME NEW i \in 1..n
      PROVE  \E k \in keys : Cardinality(Below(keys, k)) = i - 1
  <2>1. i - 1 \in 0..(n - 1)
    BY <1>1
  <2>. QED
    BY <1>6, <2>1 DEF Surjection
<1>8. \A i \in 1..n :
         LET k == CHOOSE k \in keys : Cardinality(Below(keys, k)) = i - 1 IN
         k \in keys /\ Cardinality(Below(keys, k)) = i - 1
  BY <1>7
<1>. HIDE DEF n
<1>9. InKeyOrder(keys) = [i \in 1..n |-> CHOOSE k \in keys : Cardinality(Below(keys, k)) = i - 1]
  BY DEF InKeyOrder, Below, n
<1>10. ASSUME NEW i \in 1..n, NEW j \in 1..n, InKeyOrder(keys)[i] = InKeyOrder(keys)[j]
       PROVE  i = j
  <2>1. /\ Cardinality(Below(keys, InKeyOrder(keys)[i])) = i - 1
        /\ Cardinality(Below(keys, InKeyOrder(keys)[j])) = j - 1
    BY <1>8, <1>9
  <2>. QED
    BY <1>1, <1>10, <2>1
<1>11. InKeyOrder(keys) \in [1..n -> keys]
  BY <1>8, <1>9
<1>. QED
  BY <1>10, <1>11 DEF n

-----------------------------------------------------------------------------
(***************************************************************************)
(* The inductive invariant.  Beside the types it says what the writes left *)
(* to make rely on: the second write of a request that its stake has left, *)
(* a removal that its credit was made or comes first.                      *)
(***************************************************************************)
\* request_unstake before its first write,
Requesting(p) ==
    /\ todo = <<Unstake(p), Enqueue(p)>>
    /\ p \in Entry
    /\ p.address \in DOMAIN accounts
    /\ accounts[p.address].staked >= p.amount

\* and before its second, when the stake is gone;
Queueing(p) == todo = <<Enqueue(p)>> /\ p \in Entry /\ key(p) \in DOMAIN bonded

\* a removal behind its credit;
CreditedFirst(i) ==
    LET p == todo[i].entry IN
    key(p) \in DOMAIN paid \/ \E j \in 1..(i - 1) : todo[j] = Credit(p)

\* process_matured_unstakes at any of its writes.
Releasing ==
    /\ todo \in Seq([op : {"credit", "remove"}, entry : Entry])
    /\ \A i \in 1..Len(todo) :
          /\ key(todo[i].entry) \in DOMAIN bonded
          /\ todo[i].op = "remove" => CreditedFirst(i)

\* The inductive invariant.
QueueInv ==
    /\ TypeOK
    /\ IsFiniteSet(DOMAIN pending)
    /\ \A k \in DOMAIN pending : pending[k] \in Entry
    /\ DOMAIN pending \subseteq DOMAIN bonded
    /\ \A k \in DOMAIN paid : paid[k] \in Nat /\ paid[k] >= 1
    /\ (\E p \in Entry : Requesting(p)) \/ (\E p \in Entry : Queueing(p)) \/ Releasing

\* save_account keeps the tree a tree of accounts.
LEMMA SaveKeepsMap ==
    ASSUME NEW f, IsAccountMap(f), NEW a \in Address, NEW acc \in Account
    PROVE  IsAccountMap(save_account(f, a, acc))
BY DEF IsAccountMap, save_account

\* So does a credit, whether it succeeds or not.
LEMMA CreditKeepsMap ==
    ASSUME NEW f, IsAccountMap(f), NEW a \in Address, NEW n
    PROVE  IsAccountMap(credit_account(f, a, n).accts)
<1> DEFINE acc == get_or_create_account(f, a)
<1>1. acc \in Account
  BY WidthAssumption DEF get_or_create_account, IsAccountMap, NewAccount, Account, U64, Tier
<1>2. Credited(acc, n) \in Account
  BY <1>1 DEF Credited, Account
<1>3. credit_account(f, a, n).accts \in {f, save_account(f, a, Credited(acc, n))}
  BY DEF credit_account, Ok, Err
<1>. HIDE DEF acc
<1>. QED
  BY <1>2, <1>3, SaveKeepsMap

\* The unchecked subtraction of request_unstake.
LEMMA UnstakedAccount ==
    ASSUME NEW acc \in Account, NEW n \in U64, acc.staked >= n
    PROVE  Unstaked(acc, n) \in Account
<1>1. acc.staked - n \in U64
  BY WidthAssumption DEF U64, Account
<1>2. [acc EXCEPT !.staked = @ - n] \in Account
  BY <1>1 DEF Account
<1>3. \A x : from_staked_balance(x) \in Tier
  BY DEF from_staked_balance, Tier
<1>. QED
  BY <1>2, <1>3 DEF Unstaked, update_validator_tier, Account

\* The key of an entry.
LEMMA KeyType == \A p \in Entry : key(p) \in Key
BY DEF Entry, Key, key

\* The first write of a call and the writes after it.
LEMMA RestOfCall ==
    ASSUME NEW S, NEW s \in Seq(S), s # <<>>
    PROVE  /\ Head(s) = s[1] /\ Head(s) \in S /\ Len(s) \in Nat \ {0}
           /\ Tail(s) \in Seq(S) /\ Len(Tail(s)) = Len(s) - 1
           /\ \A i \in 1..Len(Tail(s)) : Tail(s)[i] = s[i + 1]
OBVIOUS

\* A call that has nothing left to do.
LEMMA NothingToDo ==
    (todo = <<>> => Releasing) /\ (todo' = <<>> => Releasing')
<1>1. todo = <<>> => Releasing
  BY DEF Releasing
<1>2. todo' = <<>> => Releasing'
  BY DEF Releasing
<1>. QED
  BY <1>1, <1>2

\* A release of the n entries whose keys are listed in order, none twice: their
\* credits and then their removals.
ReleaseOf(w, n, order) ==
    /\ n \in Nat /\ order \in [1..n -> DOMAIN pending]
    /\ \A i, j \in 1..n : order[i] = order[j] => i = j
    /\ w \in Seq([op : {"credit", "remove"}, entry : Entry]) /\ Len(w) = n + n
    /\ \A i \in 1..n : w[i] = Credit(pending[order[i]])
    /\ \A i \in 1..n : w[n + i] = Dequeue(pending[order[i]])

\* The writes of process_matured_unstakes are a release of entries in the queue.
LEMMA ProcessShape ==
    ASSUME QueueInv, NEW e \in Nat
    PROVE  \E n, order : ReleaseOf(process_writes(e), n, order)
<1> DEFINE m == matured(e)
           n == Cardinality(m)
           order == InKeyOrder(m)
           credits == [i \in DOMAIN order |-> Credit(pending[order[i]])]
           removes == [i \in DOMAIN order |-> Dequeue(pending[order[i]])]
           W == [op : {"credit", "remove"}, entry : Entry]
<1>1. m \subseteq DOMAIN pending /\ IsFiniteSet(m)
  BY FS_Subset DEF QueueInv, matured
<1>2. m \in SUBSET Key
  BY <1>1, KeyType DEF QueueInv, TypeOK
<1>3. /\ n \in Nat /\ order \in [1..n -> m]
      /\ \A i, j \in 1..n : order[i] = order[j] => i = j
  BY <1>1, <1>2, InKeyOrderLists, FS_CardinalityType
<1>. HIDE DEF m, n, order
<1>4. \A i \in 1..n : pending[order[i]] \in Entry
  BY <1>1, <1>3 DEF QueueInv
<1>5. DOMAIN order = 1..n /\ order \in [1..n -> DOMAIN pending]
  BY <1>1, <1>3
<1>6. \A i \in 1..n : credits[i] \in W /\ removes[i] \in W
  BY <1>4, <1>5 DEF Credit, Dequeue
<1>7. credits \in Seq(W) /\ removes \in Seq(W) /\ Len(credits) = n /\ Len(removes) = n
  BY <1>3, <1>5, <1>6
<1>8. process_writes(e) = credits \o removes
  BY DEF process_writes, order, m
<1>9. \A i \in 1..n : /\ credits[i] = Credit(pending[order[i]])
                      /\ removes[i] = Dequeue(pending[order[i]])
  BY <1>5
<1>. HIDE DEF credits, removes, W
<1> DEFINE w == credits \o removes
<1>10. /\ w \in Seq(W) /\ Len(w) = n + n
       /\ \A i \in 1..(n + n) : w[i] = IF i <= n THEN credits[i] ELSE removes[i - n]
  BY <1>3, <1>7
<1>. HIDE DEF w
<1>11. \A i \in 1..n : w[i] = Credit(pending[order[i]]) /\ w[n + i] = Dequeue(pending[order[i]])
  BY <1>3, <1>9, <1>10
<1>12. ReleaseOf(w, n, order)
  BY <1>3, <1>5, <1>10, <1>11 DEF ReleaseOf, W
<1>13. process_writes(e) = w
  BY <1>8 DEF w
<1>. QED
  BY <1>12, <1>13

\* So each removal is after the credit of the same entry.
LEMMA ProcessWrites ==
    ASSUME QueueInv, NEW e \in Nat
    PROVE  LET w == process_writes(e) IN
           /\ w \in Seq([op : {"credit", "remove"}, entry : Entry])
           /\ \A i \in 1..Len(w) :
                 /\ key(w[i].entry) \in DOMAIN bonded
                 /\ w[i].op = "remove" => \E j \in 1..(i - 1) : w[j] = Credit(w[i].entry)
<1>1. PICK w : w = process_writes(e)
  OBVIOUS
<1>2. PICK n, order : ReleaseOf(w, n, order)
  BY <1>1, ProcessShape
<1>3. /\ n \in Nat /\ order \in [1..n -> DOMAIN pending]
      /\ w \in Seq([op : {"credit", "remove"}, entry : Entry]) /\ Len(w) = n + n
      /\ \A i \in 1..n : w[i] = Credit(pending[order[i]])
      /\ \A i \in 1..n : w[n + i] = Dequeue(pending[order[i]])
  BY <1>2 DEF ReleaseOf
<1>4. \A i \in 1..n : key(pending[order[i]]) \in DOMAIN bonded
  BY <1>3 DEF QueueInv, TypeOK
<1>5. ASSUME NEW i \in 1..(n + n)
      PROVE  /\ key(w[i].entry) \in DOMAIN bonded
             /\ w[i].op = "remove" => \E j \in 1..(i - 1) : w[j] = Credit(w[i].entry)
  <2>1. CASE i <= n
    <3>1. i \in 1..n /\ w[i] = Credit(pending[order[i]])
      BY <1>3, <2>1
    <3>. QED
      BY <1>4, <3>1 DEF Credit
  <2>2. CASE i > n
    <3>1. PICK j \in 1..n : i = n + j
      <4>1. i - n \in 1..n /\ i = n + (i - n)
        BY <1>3, <2>2
      <4>. QED
        BY <4>1
    <3>2. j \in 1..(i - 1)
      BY <1>3, <2>2, <3>1
    <3>3. w[i] = Dequeue(pending[order[j]]) /\ w[j] = Credit(pending[order[j]])
      BY <1>3, <3>1
    <3>4. w[i].entry = pending[order[j]]
      BY <3>3 DEF Dequeue
    <3>. QED
      BY <1>4, <3>2, <3>3, <3>4
  <2>. QED
    BY <1>3, <2>1, <2>2
<1>. QED
  BY <1>1, <1>3, <1>5

\* Init: an empty queue and no call.
LEMMA QueueInvInit ==
    ASSUME Init
    PROVE  QueueInv
<1>1. DOMAIN pending = {} /\ DOMAIN bonded = {} /\ DOMAIN paid = {}
  BY DEF Init, NoEntries
<1>2. TypeOK
  BY <1>1, QueueAssumption DEF Init, TypeOK
<1>3. Releasing
  BY NothingToDo DEF Init
<1>. QED
  BY <1>1, <1>2, <1>3, FS_EmptySet DEF QueueInv

\* request_unstake only plans its two writes.
LEMMA RequestKeeps ==
    ASSUME QueueInv, NEW a \in Address, NEW amount \in Amounts, request_unstake(a, amount)
    PROVE  QueueInv'
<1> DEFINE p == [address |-> a, amount |-> amount, request_epoch |-> epoch,
                 unlock_epoch |-> epoch + UNBONDING_PERIOD_EPOCHS]
<1>1. /\ todo' = <<Unstake(p), Enqueue(p)>>
      /\ a \in DOMAIN accounts /\ accounts[a].staked >= amount
      /\ UNCHANGED <<accounts, pending, epoch, bonded, paid>>
  BY DEF request_unstake, request_writes, db, history
<1>2. p \in Entry /\ p.address = a /\ p.amount = amount
  BY QueueAssumption DEF QueueInv, TypeOK, Entry
<1>. HIDE DEF p
<1>3. \E q \in Entry : Requesting(q)'
  <2>1. PICK q \in Entry : q = p
    BY <1>2
  <2>2. todo' = <<Unstake(q), Enqueue(q)>> /\ q.address = a /\ q.amount = amount
    BY <1>1, <1>2, <2>1
  <2>3. Requesting(q)'
    BY <1>1, <2>2 DEF Requesting
  <2>. QED
    BY <2>3
<1>4. TypeOK'
  BY <1>1 DEF QueueInv, TypeOK
<1>. QED
  BY <1>1, <1>2, <1>3, <1>4 DEF QueueInv

\* process_matured_unstakes plans its credits and its removals.
LEMMA ProcessKeeps ==
    ASSUME QueueInv, NEW e \in Nat, process_matured_unstakes(e)
    PROVE  QueueInv'
<1>1. /\ todo' = process_writes(e) /\ e <= MaxEpoch /\ epoch' = e
      /\ UNCHANGED <<accounts, pending, bonded, paid>>
  BY DEF process_matured_unstakes, db, history
<1>2. TypeOK'
  BY <1>1, QueueAssumption DEF QueueInv, TypeOK
<1>3. Releasing'
  BY <1>1, ProcessWrites DEF Releasing, CreditedFirst
<1>. QED
  BY <1>1, <1>2, <1>3 DEF QueueInv

\* A stop forgets the writes that were left.
LEMMA CrashKeeps ==
    ASSUME QueueInv, Crash
    PROVE  QueueInv'
<1>1. todo' = <<>> /\ UNCHANGED <<accounts, pending, epoch, bonded, paid>>
  BY DEF Crash, db, history
<1>2. TypeOK'
  BY <1>1 DEF QueueInv, TypeOK
<1>3. Releasing'
  BY <1>1 DEF Releasing
<1>. QED
  BY <1>1, <1>2, <1>3 DEF QueueInv

\* What the call that is running has planned, by its next write.
LEMMA NextWrite ==
    ASSUME QueueInv, todo # <<>>
    PROVE  /\ Head(todo).op = "unstake" => Requesting(Head(todo).entry)
           /\ Head(todo).op = "enqueue" => Queueing(Head(todo).entry)
           /\ Head(todo).op \in {"credit", "remove"} => Releasing /\ Head(todo).entry \in Entry
<1>1. ASSUME NEW p \in Entry, Requesting(p)
      PROVE  Head(todo) = Unstake(p) /\ Unstake(p).op = "unstake" /\ Unstake(p).entry = p
  BY <1>1 DEF Requesting, Unstake
<1>2. ASSUME NEW p \in Entry, Queueing(p)
      PROVE  Head(todo) = Enqueue(p) /\ Enqueue(p).op = "enqueue" /\ Enqueue(p).entry = p
  BY <1>2 DEF Queueing, Enqueue
<1>3. ASSUME Releasing
      PROVE  Head(todo).op \in {"credit", "remove"} /\ Head(todo).entry \in Entry
  <2>1. Head(todo) \in [op : {"credit", "remove"}, entry : Entry]
    BY <1>3, RestOfCall DEF Releasing
  <2>. QED
    BY <2>1
<1>. QED
  BY <1>1, <1>2, <1>3 DEF QueueInv

\* The first write of a request: the stake leaves the account.
LEMMA UnstakeWrite ==
    ASSUME QueueInv, NEW p, Requesting(p), todo' = Tail(todo),
           accounts' = save_account(accounts, p.address, Unstaked(accounts[p.address], p.amount)),
           bonded' = Put(bonded, key(p), p.amount), UNCHANGED <<pending, paid, epoch>>
    PROVE  QueueInv'
<1>1. p \in Entry /\ p.address \in Address /\ p.amount \in U64
  BY QueueAssumption DEF Requesting, Entry
<1>2. accounts[p.address] \in Account /\ accounts[p.address].staked >= p.amount
  BY DEF QueueInv, TypeOK, IsAccountMap, Requesting
<1>3. IsAccountMap(accounts')
  BY <1>1, <1>2, UnstakedAccount, SaveKeepsMap DEF QueueInv, TypeOK
<1>4. DOMAIN bonded' = DOMAIN bonded \cup {key(p)}
  BY DEF Put
<1>5. TypeOK'
  BY <1>3, <1>4 DEF QueueInv, TypeOK
<1>6. todo' = <<Enqueue(p)>>
  BY DEF Requesting
<1>7. Queueing(p)'
  BY <1>1, <1>4, <1>6 DEF Queueing
<1>. QED
  BY <1>1, <1>4, <1>5, <1>7 DEF QueueInv

\* The second one: the entry is queued.
LEMMA EnqueueWrite ==
    ASSUME QueueInv, NEW p, Queueing(p), todo' = Tail(todo), pending' = Put(pending, key(p), p),
           UNCHANGED <<accounts, bonded, paid, epoch>>
    PROVE  QueueInv'
<1>1. p \in Entry /\ key(p) \in DOMAIN bonded /\ p.amount \in Amounts
  BY DEF Queueing, Entry
<1>2. /\ DOMAIN pending' = DOMAIN pending \cup {key(p)} /\ pending'[key(p)] = p
      /\ \A k \in DOMAIN pending : k # key(p) => pending'[k] = pending[k]
  BY DEF Put
<1>3. TypeOK'
  BY <1>1, <1>2 DEF QueueInv, TypeOK
<1>4. IsFiniteSet(DOMAIN pending')
  BY <1>2, FS_AddElement DEF QueueInv
<1>5. todo' = <<>>
  BY DEF Queueing
<1>6. Releasing'
  BY <1>5, NothingToDo
<1>7. \A k \in DOMAIN pending' : pending'[k] \in Entry
  BY <1>1, <1>2 DEF QueueInv
<1>. QED
  BY <1>1, <1>2, <1>3, <1>4, <1>6, <1>7 DEF QueueInv

\* The writes of a release that are left after the first one.
LEMMA RestIsReleasing ==
    ASSUME QueueInv, Releasing, todo # <<>>, todo' = Tail(todo), bonded' = bonded,
           DOMAIN paid \subseteq DOMAIN paid',
           Head(todo).op = "credit" => key(Head(todo).entry) \in DOMAIN paid'
    PROVE  Releasing'
<1> DEFINE W == [op : {"credit", "remove"}, entry : Entry]
<1>1. /\ todo \in Seq(W)
      /\ \A i \in 1..Len(todo) :
            /\ key(todo[i].entry) \in DOMAIN bonded
            /\ todo[i].op = "remove" => CreditedFirst(i)
  BY DEF Releasing
<1>. HIDE DEF W
<1>2. /\ Head(todo) = todo[1] /\ Len(todo) \in Nat \ {0}
      /\ todo' \in Seq(W) /\ Len(todo') = Len(todo) - 1
      /\ \A i \in 1..Len(todo') : todo'[i] = todo[i + 1]
  BY <1>1, RestOfCall
<1>3. ASSUME NEW i \in 1..Len(todo')
      PROVE  /\ key(todo'[i].entry) \in DOMAIN bonded
             /\ todo'[i].op = "remove" => CreditedFirst(i)'
  <2>1. i + 1 \in 1..Len(todo) /\ todo'[i] = todo[i + 1] /\ i \in Nat
    BY <1>2
  <2> DEFINE p == todo[i + 1].entry
  <2>2. ASSUME todo'[i].op = "remove"
        PROVE  CreditedFirst(i)'
    <3>1. CreditedFirst(i + 1)
      BY <1>1, <2>1, <2>2
    <3>2. CASE key(p) \in DOMAIN paid
      BY <2>1, <3>2 DEF CreditedFirst
    <3>3. CASE \E j \in 1..((i + 1) - 1) : todo[j] = Credit(p)
      <4>1. PICK j \in 1..i : todo[j] = Credit(p)
        BY <2>1, <3>3
      <4>2. CASE j = 1
        <5>1. Head(todo).op = "credit" /\ Head(todo).entry = p
          BY <1>2, <4>1, <4>2 DEF Credit
        <5>. QED
          BY <2>1, <5>1 DEF CreditedFirst
      <4>3. CASE j # 1
        <5>1. j - 1 \in 1..(i - 1) /\ j - 1 \in 1..Len(todo')
          BY <1>2, <2>1, <4>3
        <5>2. todo'[j - 1] = todo[j]
          BY <1>2, <2>1, <5>1
        <5>. QED
          BY <2>1, <4>1, <5>1, <5>2 DEF CreditedFirst
      <4>. QED
        BY <4>2, <4>3
    <3>. QED
      BY <3>1, <3>2, <3>3 DEF CreditedFirst
  <2>. QED
    BY <1>1, <2>1, <2>2
<1>. QED
  BY <1>2, <1>3 DEF Releasing, W

\* A credit: it is counted, or it overflows and ends the call.
LEMMA CreditWrite ==
    ASSUME QueueInv, Releasing, todo # <<>>, Head(todo).op = "credit", NEW p, p = Head(todo).entry,
           p \in Entry, NEW credit, credit = credit_account(accounts, p.address, p.amount),
           NEW times, times = TimesPaid(key(p)), accounts' = credit.accts,
           paid' = IF credit.ok THEN Put(paid, key(p), times + 1) ELSE paid,
           todo' = IF credit.ok THEN Tail(todo) ELSE <<>>,
           UNCHANGED <<pending, bonded, epoch>>
    PROVE  QueueInv'
<1>1. p.address \in Address
  BY DEF Entry
<1>2. IsAccountMap(accounts')
  BY <1>1, CreditKeepsMap DEF QueueInv, TypeOK
<1>3. key(p) \in DOMAIN bonded
  <2>1. todo \in Seq([op : {"credit", "remove"}, entry : Entry])
    BY DEF Releasing
  <2>2. Head(todo) = todo[1] /\ 1 \in 1..Len(todo)
    BY <2>1, RestOfCall
  <2>. QED
    BY <2>2 DEF Releasing
<1>4. CASE credit.ok
  <2>1. times \in Nat
    BY DEF TimesPaid, QueueInv
  <2>2. paid' = Put(paid, key(p), times + 1) /\ todo' = Tail(todo)
    BY <1>4
  <2>3. /\ DOMAIN paid' = DOMAIN paid \cup {key(p)} /\ paid'[key(p)] = times + 1
        /\ \A k \in DOMAIN paid : k # key(p) => paid'[k] = paid[k]
    BY <2>2 DEF Put
  <2>4. TypeOK'
    BY <1>2, <1>3, <2>3 DEF QueueInv, TypeOK
  <2>5. Releasing'
    BY <2>2, <2>3, RestIsReleasing
  <2>6. \A k \in DOMAIN paid' : paid'[k] \in Nat /\ paid'[k] >= 1
    BY <2>1, <2>3 DEF QueueInv
  <2>. QED
    BY <2>4, <2>5, <2>6 DEF QueueInv
<1>5. CASE ~credit.ok
  <2>1. paid' = paid /\ todo' = <<>>
    BY <1>5
  <2>2. TypeOK'
    BY <1>2, <2>1 DEF QueueInv, TypeOK
  <2>3. Releasing'
    BY <2>1, NothingToDo
  <2>. QED
    BY <2>1, <2>2, <2>3 DEF QueueInv
<1>. QED
  BY <1>4, <1>5

\* A removal.
LEMMA RemoveWrite ==
    ASSUME QueueInv, Releasing, todo # <<>>, Head(todo).op = "remove", NEW k0,
           pending' = [k \in DOMAIN pending \ {k0} |-> pending[k]],
           todo' = Tail(todo), UNCHANGED <<accounts, bonded, paid, epoch>>
    PROVE  QueueInv'
<1>1. /\ DOMAIN pending' = DOMAIN pending \ {k0}
      /\ \A k \in DOMAIN pending' : k \in DOMAIN pending /\ pending'[k] = pending[k]
  OBVIOUS
<1>2. TypeOK'
  BY <1>1 DEF QueueInv, TypeOK
<1>3. IsFiniteSet(DOMAIN pending')
  BY <1>1, FS_Subset DEF QueueInv
<1>4. Releasing'
  BY RestIsReleasing
<1>. QED
  BY <1>1, <1>2, <1>3, <1>4 DEF QueueInv

\* Every write keeps the invariant.
LEMMA WriteKeeps ==
    ASSUME QueueInv, Write
    PROVE  QueueInv'
<1> DEFINE w == Head(todo)
           p == w.entry
           credit == credit_account(accounts, p.address, p.amount)
           times == IF key(p) \in DOMAIN paid THEN paid[key(p)] ELSE 0
<1>1. todo # <<>> /\ epoch' = epoch
  BY DEF Write
<1>2. CASE /\ w.op = "unstake"
           /\ accounts' = save_account(accounts, p.address,
                                       Unstaked(accounts[p.address], p.amount))
           /\ bonded' = Put(bonded, key(p), p.amount)
           /\ todo' = Tail(todo)
           /\ UNCHANGED <<pending, paid>>
  BY <1>1, <1>2, NextWrite, UnstakeWrite
<1>3. CASE /\ w.op = "enqueue"
           /\ pending' = Put(pending, key(p), p)
           /\ todo' = Tail(todo)
           /\ UNCHANGED <<accounts, bonded, paid>>
  BY <1>1, <1>3, NextWrite, EnqueueWrite
<1>4. CASE /\ w.op = "credit"
           /\ accounts' = credit.accts
           /\ paid' = IF credit.ok THEN Put(paid, key(p), times + 1) ELSE paid
           /\ todo' = IF credit.ok THEN Tail(todo) ELSE <<>>
           /\ UNCHANGED <<pending, bonded>>
  <2>1. Releasing /\ p \in Entry
    BY <1>1, <1>4, NextWrite
  <2>2. times = TimesPaid(key(p))
    BY DEF TimesPaid
  <2>. HIDE DEF p, credit, times
  <2>. QED
    BY <1>1, <1>4, <2>1, <2>2, CreditWrite DEF p, credit
<1>5. CASE /\ w.op = "remove"
           /\ pending' = [k \in DOMAIN pending \ {key(p)} |-> pending[k]]
           /\ todo' = Tail(todo)
           /\ UNCHANGED <<accounts, bonded, paid>>
  BY <1>1, <1>5, NextWrite, RemoveWrite
<1>. QED
  BY <1>2, <1>3, <1>4, <1>5 DEF Write, history

\* Every step keeps the invariant.
LEMMA QueueInvStep ==
    ASSUME QueueInv, [Next]_vars
    PROVE  QueueInv'
<1>1. CASE UNCHANGED vars
  BY <1>1 DEF vars, db, history, QueueInv, TypeOK, Requesting, Queueing, Releasing, CreditedFirst
<1>2. epoch \in Nat /\ epoch + 1 \in Nat
  BY DEF QueueInv, TypeOK
<1>3. CASE EpochBlock
  BY <1>2, <1>3, ProcessKeeps DEF EpochBlock
<1>4. CASE EpochBlockAgain
  BY <1>2, <1>4, ProcessKeeps DEF EpochBlockAgain
<1>. QED
  BY <1>1, <1>3, <1>4, RequestKeeps, WriteKeeps, CrashKeeps DEF Next

\* A step removes an entry only when it was credited.
LEMMA RemovalStep ==
    ASSUME QueueInv, [Next]_vars, NEW k \in DOMAIN pending \ DOMAIN pending'
    PROVE  TimesPaid(k) >= 1
<1>1. pending' # pending
  OBVIOUS
<1>2. Write
  BY <1>1 DEF Next, vars, db, request_unstake, EpochBlock, EpochBlockAgain,
     process_matured_unstakes, Crash
<1> DEFINE p == Head(todo).entry
<1>3. todo # <<>>
  BY <1>2 DEF Write
<1>4. Head(todo).op = "remove" /\ k = key(p)
  BY <1>1, <1>2 DEF Write, Put
<1>5. Releasing
  BY <1>3, <1>4, NextWrite
<1>6. todo \in Seq([op : {"credit", "remove"}, entry : Entry])
  BY <1>5 DEF Releasing
<1>7. Head(todo) = todo[1] /\ 1 \in 1..Len(todo)
  BY <1>3, <1>6, RestOfCall
<1>8. CreditedFirst(1)
  BY <1>4, <1>5, <1>7 DEF Releasing
<1>9. key(p) \in DOMAIN paid
  BY <1>7, <1>8 DEF CreditedFirst
<1>. QED
  BY <1>4, <1>9 DEF QueueInv, TimesPaid

-----------------------------------------------------------------------------
(***************************************************************************)
(* Coins.  The invariant adds to QueueInv what a release relies on beyond  *)
(* its own writes: an entry is credited at most once per call, and one     *)
(* that was credited in every call so far is about to be removed.          *)
(***************************************************************************)
\* No account can receive more than a u64 holds, though every stop repeats
\* every payment.
CoinsFit ==
    \A a \in DOMAIN Start : Start[a].balance + (1 + MaxCrashes) * Start[a].staked <= MaxU64

\* Withdrawals go to the accounts there were at the beginning.
KnownAccounts ==
    /\ DOMAIN accounts = DOMAIN Start
    /\ \A k \in DOMAIN pending : k.to \in DOMAIN Start
    /\ \A p \in Entry : todo = <<Enqueue(p)>> => p.address \in DOMAIN Start

\* A request has a key that no earlier one had.
FreshKeys ==
    \A p \in Entry :
        /\ todo = <<Unstake(p), Enqueue(p)>> => key(p) \notin DOMAIN bonded
        /\ todo = <<Enqueue(p)>> => key(p) \notin DOMAIN pending \cup DOMAIN paid

\* A credit that is planned is of an entry that stands in the queue and was
\* credited at most once per stop; it is planned once, and its removal later.
PlannedCredit(i) ==
    LET k == key(todo[i].entry) IN
    /\ k \in DOMAIN pending /\ pending[k] = todo[i].entry
    /\ TimesPaid(k) <= crashes
    /\ \A j \in 1..Len(todo) : todo[j] = todo[i] => j = i
    /\ \E j \in (i + 1)..Len(todo) : todo[j] = Dequeue(todo[i].entry)

\* The writes of a release: its credits come first.
Planned ==
    \A i \in 1..Len(todo) :
        /\ todo[i].op = "credit" => PlannedCredit(i)
        /\ todo[i].op = "remove" => \A j \in i..Len(todo) : todo[j].op = "remove"

\* How often an entry was credited.
PaidPerStop ==
    /\ crashes \in 0..MaxCrashes
    /\ \A k \in DOMAIN paid : paid[k] <= 1 + crashes
    /\ \A k \in DOMAIN pending :
          TimesPaid(k) <= crashes \/ \E j \in 1..Len(todo) : todo[j] = Dequeue(pending[k])

\* What has left a stake and is not yet in the queue.
InFlight(a) ==
    IF todo # <<>> /\ Head(todo).op = "enqueue" /\ Head(todo).entry.address = a
    THEN Head(todo).entry.amount ELSE 0

\* What the queue owes an address: every entry that was not credited yet,
Owed(a) ==
    [k \in DOMAIN pending |->
        IF k.to = a /\ TimesPaid(k) = 0 THEN pending[k].amount ELSE 0]

\* and what it may still pay to it: every entry once, and once more for each stop.
Claims(a) ==
    [k \in DOMAIN pending |->
        IF k.to = a THEN ((1 + MaxCrashes) - TimesPaid(k)) * pending[k].amount ELSE 0]

\* The coins of an address, each counted once,
Now(a) ==
    accounts[a].balance + accounts[a].staked + SumFunction(Owed(a)) + InFlight(a)

\* and the balance it could come to.
Reach(a) ==
    accounts[a].balance + (1 + MaxCrashes) * (accounts[a].staked + InFlight(a))
      + SumFunction(Claims(a))

\* No coin is lost but what a stop takes from a request, and none is gained
\* without a stop,
Kept(a) ==
    LET total == Start[a].balance + Start[a].staked IN
    /\ Now(a) >= total - crashes * Max(Amounts)
    /\ crashes = 0 => Now(a) = total

\* nor can any number of stops that is left lead past the bound.
Bounded(a) == Reach(a) <= Start[a].balance + (1 + MaxCrashes) * Start[a].staked

\* The inductive invariant.
CoinsInv ==
    /\ QueueInv
    /\ KnownAccounts /\ FreshKeys /\ Planned /\ PaidPerStop
    /\ \A a \in DOMAIN Start : Kept(a) /\ Bounded(a)

\* A set of amounts has a largest one.
LEMMA LargestAmount ==
    ASSUME NEW n \in Nat, NEW S \in SUBSET (0..n), S # {}
    PROVE  Max(S) \in Nat /\ \A x \in S : x <= Max(S)
<1> DEFINE T == {n - x : x \in S}
<1>1. \A x \in S : x \in Nat /\ n - x \in Nat
  OBVIOUS
<1>2. T \subseteq Nat /\ T # {}
  BY <1>1
<1>3. PICK m \in T : \A t \in T : m <= t
  BY <1>2, LeastNat
<1>4. PICK x \in S : m = n - x
  OBVIOUS
<1>5. \A y \in S : x >= y
  <2>1. SUFFICES ASSUME NEW y \in S PROVE x >= y
    OBVIOUS
  <2>2. n - y \in T
    OBVIOUS
  <2>3. n - x <= n - y
    BY <1>3, <1>4, <2>2
  <2>4. x \in Nat /\ y \in Nat
    OBVIOUS
  <2>. QED
    BY <2>3, <2>4
<1>6. \E z \in S : \A y \in S : z >= y
  BY <1>5
<1>7. Max(S) \in S /\ \A y \in S : Max(S) >= y
  BY <1>6 DEF Max
<1>8. Max(S) \in Nat /\ \A y \in S : y \in Nat
  BY <1>1, <1>7
<1>. QED
  BY <1>7, <1>8

\* The largest request.
LEMMA LargestRequest == Max(Amounts) \in Nat /\ \A x \in Amounts : x \in Nat /\ x <= Max(Amounts)
<1>1. Amounts \in SUBSET (0..MaxU64) /\ Amounts # {}
  BY QueueAssumption DEF U64
<1>2. Max(Amounts) \in Nat /\ \A x \in Amounts : x <= Max(Amounts)
  BY <1>1, LargestAmount, WidthAssumption
<1>. QED
  BY <1>1, <1>2

\* Numbers of the invariant: how often an entry was paid, its amount, and the
\* sums over the queue.
LEMMA QueueNumbers ==
    ASSUME QueueInv, PaidPerStop, NEW a
    PROVE  /\ \A k \in DOMAIN pending :
                 /\ pending[k].amount \in Nat
                 /\ TimesPaid(k) \in 0..(1 + MaxCrashes)
                 /\ Owed(a)[k] \in Nat /\ Claims(a)[k] \in Nat
                 /\ Claims(a)[k] <= SumFunction(Claims(a))
           /\ DOMAIN Owed(a) = DOMAIN pending /\ DOMAIN Claims(a) = DOMAIN pending
           /\ SumFunction(Owed(a)) \in Nat /\ SumFunction(Claims(a)) \in Nat
<1>1. MaxCrashes \in Nat /\ crashes \in 0..MaxCrashes
  BY QueueAssumption DEF PaidPerStop
<1>2. ASSUME NEW k \in DOMAIN pending
      PROVE  /\ pending[k].amount \in Nat
             /\ TimesPaid(k) \in 0..(1 + MaxCrashes)
             /\ Owed(a)[k] \in Nat /\ Claims(a)[k] \in Nat
  <2>1. pending[k].amount \in Nat
    BY LargestRequest DEF QueueInv, TypeOK
  <2>2. TimesPaid(k) \in 0..(1 + MaxCrashes)
    BY <1>1 DEF TimesPaid, PaidPerStop, QueueInv
  <2>3. PICK x \in Nat, t \in 0..(1 + MaxCrashes) : x = pending[k].amount /\ t = TimesPaid(k)
    BY <2>1, <2>2
  <2>4. PICK c \in Nat : c = (1 + MaxCrashes) - t
    BY <1>1
  <2>5. c * x \in Nat
    OBVIOUS
  <2>6. Claims(a)[k] = IF k.to = a THEN c * x ELSE 0
    BY <2>3, <2>4 DEF Claims
  <2>7. Owed(a)[k] = IF k.to = a /\ t = 0 THEN x ELSE 0
    BY <2>3 DEF Owed
  <2>. QED
    BY <2>1, <2>2, <2>5, <2>6, <2>7
<1>3. DOMAIN Owed(a) = DOMAIN pending /\ DOMAIN Claims(a) = DOMAIN pending
  BY DEF Owed, Claims
<1>4. IsFiniteSet(DOMAIN pending)
  BY DEF QueueInv
<1>5. SumFunction(Owed(a)) \in Nat
  BY <1>2, <1>3, <1>4, SumNat DEF SumFunction
<1>6. /\ SumFunction(Claims(a)) \in Nat
      /\ \A k \in DOMAIN pending : Claims(a)[k] <= SumFunction(Claims(a))
  BY <1>2, <1>3, <1>4, SumNat DEF SumFunction
<1>. QED
  BY <1>2, <1>3, <1>5, <1>6

\* Numbers of the accounts, and of a request between its writes.
LEMMA AccountNumbers ==
    ASSUME CoinsInv, NEW a \in DOMAIN Start
    PROVE  /\ a \in DOMAIN accounts /\ a \in Address /\ accounts[a] \in Account
           /\ accounts[a].balance \in Nat /\ accounts[a].staked \in Nat
           /\ Start[a].balance \in Nat /\ Start[a].staked \in Nat
           /\ InFlight(a) \in Nat /\ InFlight(a) <= Max(Amounts)
<1>1. a \in DOMAIN accounts /\ a \in Address /\ accounts[a] \in Account /\ Start[a] \in Account
  BY QueueAssumption DEF CoinsInv, QueueInv, TypeOK, KnownAccounts, IsAccountMap
<1>2. InFlight(a) \in Nat /\ InFlight(a) <= Max(Amounts)
  <2>1. CASE todo # <<>> /\ Head(todo).op = "enqueue"
    <3>1. Head(todo).entry \in Entry
      BY <2>1, NextWrite DEF CoinsInv, Queueing
    <3>2. Head(todo).entry.amount \in Amounts
      BY <3>1 DEF Entry
    <3>. QED
      BY <3>2, LargestRequest DEF InFlight
  <2>2. CASE ~(todo # <<>> /\ Head(todo).op = "enqueue")
    BY <2>2, LargestRequest DEF InFlight
  <2>. QED
    BY <2>1, <2>2
<1>. QED
  BY <1>1, <1>2, AccountFields DEF Account, U64

\* A call that releases has nothing in flight, nor has one that did nothing yet.
LEMMA NothingInFlight ==
    ASSUME NEW a
    PROVE  /\ Releasing => InFlight(a) = 0
           /\ Releasing' => InFlight(a)' = 0
<1>1. ASSUME NEW s, s \in Seq([op : {"credit", "remove"}, entry : Entry]), s # <<>>
      PROVE  Head(s).op # "enqueue"
  <2>1. Head(s) \in [op : {"credit", "remove"}, entry : Entry]
    BY <1>1, RestOfCall
  <2>. QED
    BY <2>1
<1>2. Releasing => InFlight(a) = 0
  BY <1>1 DEF Releasing, InFlight
<1>3. Releasing' => InFlight(a)' = 0
  BY <1>1 DEF Releasing, InFlight
<1>. QED
  BY <1>2, <1>3

\* A step that stops nothing, takes no coin from an address and gives it none
\* while nothing was stopped, keeps the bounds.
LEMMA CoinsKept ==
    ASSUME NEW a \in DOMAIN Start, Kept(a), Bounded(a), crashes' = crashes,
           crashes \in Nat, Start[a].balance \in Nat, Start[a].staked \in Nat,
           Now(a) \in Int, Now(a)' \in Int, Reach(a) \in Int, Reach(a)' \in Int,
           Now(a)' >= Now(a), crashes = 0 => Now(a)' = Now(a), Reach(a)' <= Reach(a)
    PROVE  Kept(a)' /\ Bounded(a)'
<1>1. MaxCrashes \in Nat /\ Max(Amounts) \in Nat
  BY QueueAssumption, LargestRequest
<1>2. PICK c \in Nat, t \in Nat, l \in Nat :
         /\ c = crashes * Max(Amounts) /\ t = Start[a].balance + Start[a].staked
         /\ l = Start[a].balance + (1 + MaxCrashes) * Start[a].staked
  <2>1. crashes * Max(Amounts) \in Nat /\ (1 + MaxCrashes) * Start[a].staked \in Nat
    BY <1>1
  <2>. QED
    BY <2>1
<1>3. Now(a) >= t - c /\ (crashes = 0 => Now(a) = t) /\ Reach(a) <= l
  BY <1>2 DEF Kept, Bounded
<1>4. Now(a)' >= t - c /\ (crashes = 0 => Now(a)' = t) /\ Reach(a)' <= l
  BY <1>3
<1>. QED
  BY <1>2, <1>4 DEF Kept, Bounded

\* All of them are naturals.
LEMMA CoinsNumbers ==
    ASSUME CoinsInv, NEW a \in DOMAIN Start
    PROVE  /\ accounts[a].balance \in Nat /\ accounts[a].staked \in Nat /\ InFlight(a) \in Nat
           /\ SumFunction(Owed(a)) \in Nat /\ SumFunction(Claims(a)) \in Nat
           /\ 1 + MaxCrashes \in Nat /\ crashes \in Nat
           /\ Kept(a) /\ Bounded(a)
<1>1. QueueInv /\ PaidPerStop /\ Kept(a) /\ Bounded(a) /\ MaxCrashes \in Nat
  BY QueueAssumption DEF CoinsInv
<1>2. SumFunction(Owed(a)) \in Nat /\ SumFunction(Claims(a)) \in Nat
  BY <1>1, QueueNumbers
<1>3. 1 + MaxCrashes \in Nat /\ crashes \in Nat
  BY <1>1 DEF PaidPerStop
<1>. QED
  BY <1>1, <1>2, <1>3, AccountNumbers

\* What one address has, by its parts.
LEMMA CoinsType ==
    ASSUME CoinsInv, NEW a \in DOMAIN Start
    PROVE  Now(a) \in Int /\ Reach(a) \in Int
<1>1. PICK b \in Nat, s \in Nat, f \in Nat, o \in Nat, c \in Nat, m \in Nat :
         /\ b = accounts[a].balance /\ s = accounts[a].staked /\ f = InFlight(a)
         /\ o = SumFunction(Owed(a)) /\ c = SumFunction(Claims(a)) /\ m = 1 + MaxCrashes
  BY AccountNumbers, QueueNumbers, QueueAssumption DEF CoinsInv
<1>2. m * (s + f) \in Nat
  OBVIOUS
<1>. QED
  BY <1>1, <1>2 DEF Now, Reach

\* A step that leaves an account, the queue and what is in flight alone.
LEMMA SameCoins ==
    ASSUME CoinsInv, NEW a \in DOMAIN Start, accounts'[a] = accounts[a],
           UNCHANGED <<pending, paid, crashes>>, InFlight(a)' = InFlight(a)
    PROVE  Kept(a)' /\ Bounded(a)'
<1>1. Owed(a)' = Owed(a) /\ Claims(a)' = Claims(a)
  BY DEF Owed, Claims, TimesPaid
<1>2. Now(a)' = Now(a) /\ Reach(a)' = Reach(a)
  BY <1>1 DEF Now, Reach
<1>3. Now(a) \in Int /\ Reach(a) \in Int
  BY CoinsType
<1>4. Kept(a) /\ Bounded(a) /\ crashes \in Nat
  BY QueueAssumption DEF CoinsInv, PaidPerStop
<1>. HIDE DEF Now, Reach
<1>. QED
  BY <1>2, <1>3, <1>4, AccountNumbers, CoinsKept

\* The writes of a release are not those of a request.
LEMMA ReleaseIsNoRequest ==
    ASSUME NEW s \in Seq([op : {"credit", "remove"}, entry : Entry]), NEW q
    PROVE  s # <<Enqueue(q)>> /\ s # <<Unstake(q), Enqueue(q)>>
<1>1. ASSUME s # <<>>
      PROVE  Head(s).op \in {"credit", "remove"}
  <2>1. Head(s) \in [op : {"credit", "remove"}, entry : Entry]
    BY <1>1, RestOfCall
  <2>. QED
    BY <2>1
<1>2. ASSUME s = <<Enqueue(q)>>
      PROVE  FALSE
  <2>1. s # <<>> /\ Head(s) = Enqueue(q)
    BY <1>2
  <2>. QED
    BY <1>1, <2>1 DEF Enqueue
<1>3. ASSUME s = <<Unstake(q), Enqueue(q)>>
      PROVE  FALSE
  <2>1. s # <<>> /\ Head(s) = Unstake(q)
    BY <1>3
  <2>. QED
    BY <1>1, <2>1 DEF Unstake
<1>. QED
  BY <1>2, <1>3

\* Init: every coin is in an account.
LEMMA CoinsInvInit ==
    ASSUME Init
    PROVE  CoinsInv
<1>1. /\ accounts = Start /\ todo = <<>> /\ crashes = 0
      /\ DOMAIN pending = {} /\ DOMAIN bonded = {} /\ DOMAIN paid = {}
  BY DEF Init, NoEntries
<1>2. QueueInv
  BY QueueInvInit
<1>3. KnownAccounts /\ FreshKeys /\ Planned /\ PaidPerStop
  BY <1>1, QueueAssumption DEF KnownAccounts, FreshKeys, Planned, PaidPerStop
<1>4. ASSUME NEW a \in DOMAIN Start
      PROVE  Kept(a) /\ Bounded(a)
  <2>1. SumFunction(Owed(a)) = 0 /\ SumFunction(Claims(a)) = 0
    BY <1>1, SumEmpty DEF Owed, Claims, SumFunction
  <2>2. InFlight(a) = 0
    BY <1>1 DEF InFlight
  <2>3. Start[a] \in Account
    BY QueueAssumption DEF IsAccountMap
  <2>4. PICK b \in Nat, s \in Nat : b = Start[a].balance /\ s = Start[a].staked
    BY <2>3, AccountFields DEF Account, U64
  <2>5. Now(a) = b + s
    BY <1>1, <2>1, <2>2, <2>4 DEF Now
  <2>6. Reach(a) = b + (1 + MaxCrashes) * s
    <3>1. Reach(a) = b + (1 + MaxCrashes) * (s + 0) + 0
      BY <1>1, <2>1, <2>2, <2>4 DEF Reach
    <3>2. s + 0 = s /\ (1 + MaxCrashes) * s \in Nat
      BY <2>4, QueueAssumption
    <3>. QED
      BY <2>4, <3>1, <3>2
  <2>7. crashes * Max(Amounts) = 0
    BY <1>1, LargestRequest
  <2>8. Kept(a)
    BY <2>4, <2>5, <2>7 DEF Kept
  <2>9. Bounded(a)
    <3>1. PICK r \in Nat : r = b + (1 + MaxCrashes) * s
      <4>1. (1 + MaxCrashes) * s \in Nat
        BY <2>4, QueueAssumption
      <4>. QED
        BY <2>4, <4>1
    <3>. QED
      BY <2>4, <2>6, <3>1 DEF Bounded
  <2>. QED
    BY <2>8, <2>9
<1>. QED
  BY <1>2, <1>3, <1>4 DEF CoinsInv

\* request_unstake asks for what the account has, under a new key.
LEMMA RequestCoins ==
    ASSUME CoinsInv, NEW a \in Address, NEW amount \in Amounts, request_unstake(a, amount)
    PROVE  CoinsInv'
<1> DEFINE p == [address |-> a, amount |-> amount, request_epoch |-> epoch,
                 unlock_epoch |-> epoch + UNBONDING_PERIOD_EPOCHS]
<1>1. /\ todo = <<>> /\ todo' = <<Unstake(p), Enqueue(p)>>
      /\ key(p) \notin DOMAIN bonded
      /\ UNCHANGED <<accounts, pending, crashes, bonded, paid>>
  BY DEF request_unstake, request_writes, db, history
<1>2. QueueInv'
  BY RequestKeeps DEF CoinsInv
<1>. HIDE DEF p
<1>3. /\ \A q : todo' = <<Unstake(q), Enqueue(q)>> => q = p
      /\ \A q : todo' # <<Enqueue(q)>>
  BY <1>1 DEF Unstake, Enqueue
<1>4. KnownAccounts' /\ FreshKeys'
  BY <1>1, <1>3 DEF CoinsInv, KnownAccounts, FreshKeys
<1>5. /\ Len(todo') = 2 /\ todo'[1] = Unstake(p) /\ todo'[2] = Enqueue(p)
      /\ Head(todo') = Unstake(p)
  BY <1>1
<1>6. Planned'
  BY <1>5 DEF Planned, Unstake, Enqueue
<1>7. PaidPerStop'
  BY <1>1 DEF CoinsInv, PaidPerStop, TimesPaid
<1>8. ASSUME NEW b \in DOMAIN Start
      PROVE  Kept(b)' /\ Bounded(b)'
  <2>1. InFlight(b) = 0 /\ InFlight(b)' = 0
    BY <1>1, <1>5 DEF InFlight, Unstake
  <2>. QED
    BY <1>1, <2>1, SameCoins
<1>. QED
  BY <1>2, <1>4, <1>6, <1>7, <1>8 DEF CoinsInv

\* process_matured_unstakes plans each payment once.
LEMMA ProcessCoins ==
    ASSUME CoinsInv, NEW e \in Nat, process_matured_unstakes(e)
    PROVE  CoinsInv'
<1>1. /\ todo = <<>> /\ todo' = process_writes(e)
      /\ UNCHANGED <<accounts, pending, crashes, bonded, paid>>
  BY DEF process_matured_unstakes, db, history
<1>2. QueueInv'
  BY ProcessKeeps DEF CoinsInv
<1>3. PICK n, order : ReleaseOf(todo', n, order)
  BY <1>1, ProcessShape DEF CoinsInv
<1>4. /\ n \in Nat /\ order \in [1..n -> DOMAIN pending]
      /\ \A i, j \in 1..n : order[i] = order[j] => i = j
      /\ todo' \in Seq([op : {"credit", "remove"}, entry : Entry]) /\ Len(todo') = n + n
  BY <1>3 DEF ReleaseOf
<1>5. \A i \in 1..(n + n) : i \in 1..n \/ \E j \in 1..n : i = n + j
  <2>1. SUFFICES ASSUME NEW i \in 1..(n + n), ~(i \in 1..n)
                 PROVE  \E j \in 1..n : i = n + j
    OBVIOUS
  <2>2. i - n \in 1..n /\ i = n + (i - n)
    BY <1>4, <2>1
  <2>. QED
    BY <2>2
<1>6. \A k \in DOMAIN pending : key(pending[k]) = k /\ TimesPaid(k) <= crashes
  <2>1. Len(todo) = 0
    BY <1>1
  <2>. QED
    BY <2>1 DEF CoinsInv, PaidPerStop, QueueInv, TypeOK
<1>7. PICK w : w = todo'
  OBVIOUS
<1>8. ASSUME NEW i \in 1..n
       PROVE  /\ w[i] = Credit(pending[order[i]]) /\ w[i].op = "credit"
              /\ w[i].entry = pending[order[i]]
              /\ w[n + i] = Dequeue(pending[order[i]]) /\ w[n + i].op = "remove"
  <2>1. w[i] = Credit(pending[order[i]]) /\ w[n + i] = Dequeue(pending[order[i]])
    BY <1>3, <1>7 DEF ReleaseOf
  <2>. QED
    BY <2>1 DEF Credit, Dequeue
<1>9. \A i \in 1..(n + n) : w[i].op = "credit" => i \in 1..n
  <2>1. SUFFICES ASSUME NEW i \in 1..(n + n), w[i].op = "credit", NEW j \in 1..n, i = n + j
                 PROVE  FALSE
    BY <1>5
  <2>. QED
    BY <1>8, <2>1
<1>10. ASSUME NEW i \in 1..(n + n), w[i].op = "credit"
      PROVE  PlannedCredit(i)'
  <2>1. i \in 1..n
    BY <1>10, <1>9
  <2>2. order[i] \in DOMAIN pending
    BY <1>4, <2>1
  <2>3. w[i].entry = pending[order[i]] /\ key(w[i].entry) = order[i]
    BY <1>6, <1>8, <2>1, <2>2
  <2>4. n + i \in (i + 1)..(n + n) /\ w[n + i] = Dequeue(w[i].entry)
    BY <1>4, <1>8, <2>1, <2>3
  <2>5. ASSUME NEW j \in 1..(n + n), w[j] = w[i]
        PROVE  j = i
    <3>1. j \in 1..n
      BY <1>10, <1>9, <2>5
    <3>2. w[j].entry = pending[order[j]]
      BY <1>8, <3>1
    <3>3. order[j] \in DOMAIN pending
      BY <1>4, <3>1
    <3>4. order[j] = order[i]
      BY <1>6, <2>2, <2>3, <2>5, <3>2, <3>3
    <3>. QED
      BY <1>4, <2>1, <3>1, <3>4
  <2>6. TimesPaid(order[i])' <= crashes'
    BY <1>1, <1>6, <2>2 DEF TimesPaid
  <2>7. key(w[i].entry) \in DOMAIN pending' /\ pending'[key(w[i].entry)] = w[i].entry
    BY <1>1, <2>2, <2>3
  <2>8. Len(w) = n + n
    BY <1>4, <1>7
  <2>. QED
    BY <1>7, <2>3, <2>4, <2>5, <2>6, <2>7, <2>8 DEF PlannedCredit
<1>11. ASSUME NEW i \in 1..(n + n), w[i].op = "remove", NEW j \in i..(n + n)
      PROVE  w[j].op = "remove"
  <2>1. i \notin 1..n
    BY <1>11, <1>8
  <2>2. j \in 1..(n + n) /\ j \notin 1..n
    BY <1>4, <2>1
  <2>3. PICK l \in 1..n : j = n + l
    BY <1>5, <2>2
  <2>. QED
    BY <1>8, <2>3
<1>12. Planned'
  BY <1>4, <1>10, <1>11, <1>7 DEF Planned
<1>13. PaidPerStop'
  BY <1>1, <1>6 DEF CoinsInv, PaidPerStop, TimesPaid
<1>14. Releasing'
  BY <1>1, ProcessWrites DEF CoinsInv, Releasing, CreditedFirst
<1>15. \A q : todo' # <<Enqueue(q)>> /\ todo' # <<Unstake(q), Enqueue(q)>>
  BY <1>4, ReleaseIsNoRequest
<1>16. KnownAccounts' /\ FreshKeys'
  BY <1>1, <1>15 DEF CoinsInv, KnownAccounts, FreshKeys
<1>17. ASSUME NEW b \in DOMAIN Start
       PROVE  Kept(b)' /\ Bounded(b)'
  <2>1. InFlight(b) = 0 /\ InFlight(b)' = 0
    BY <1>1, <1>14, NothingToDo, NothingInFlight
  <2>. QED
    BY <1>1, <2>1, SameCoins
<1>. QED
  BY <1>2, <1>12, <1>13, <1>16, <1>17 DEF CoinsInv

\* A stop takes at most what is in flight.
LEMMA CrashCoins ==
    ASSUME CoinsInv, Crash
    PROVE  CoinsInv'
<1>1. /\ todo' = <<>> /\ crashes' = crashes + 1 /\ crashes < MaxCrashes
      /\ UNCHANGED <<accounts, pending, bonded, paid>>
  BY DEF Crash, db, history
<1>2. QueueInv'
  BY CrashKeeps DEF CoinsInv
<1>3. crashes \in Nat /\ MaxCrashes \in Nat /\ Len(todo') = 0
  BY <1>1, QueueAssumption DEF CoinsInv, PaidPerStop
<1>4. KnownAccounts' /\ FreshKeys' /\ Planned'
  BY <1>1, <1>3 DEF CoinsInv, KnownAccounts, FreshKeys, Planned
<1>5. PaidPerStop'
  <2>1. \A k \in DOMAIN paid : paid[k] \in Nat /\ paid[k] <= 1 + crashes
    BY DEF CoinsInv, QueueInv, PaidPerStop
  <2>2. \A k \in DOMAIN pending : TimesPaid(k)' <= crashes'
    BY <1>1, <1>3, <2>1 DEF TimesPaid
  <2>3. crashes' \in 0..MaxCrashes /\ \A k \in DOMAIN paid' : paid'[k] <= 1 + crashes'
    BY <1>1, <1>3, <2>1
  <2>. QED
    BY <1>1, <2>2, <2>3 DEF PaidPerStop
<1>6. ASSUME NEW a \in DOMAIN Start
      PROVE  Kept(a)' /\ Bounded(a)'
  <2>1. InFlight(a)' = 0
    BY <1>1, NothingToDo, NothingInFlight
  <2>2. Owed(a)' = Owed(a) /\ Claims(a)' = Claims(a)
    BY <1>1 DEF Owed, Claims, TimesPaid
  <2>3. PICK b \in Nat, s \in Nat, f \in Nat, o \in Nat, c \in Nat, m \in Nat, x \in Nat :
           /\ b = accounts[a].balance /\ s = accounts[a].staked /\ f = InFlight(a)
           /\ o = SumFunction(Owed(a)) /\ c = SumFunction(Claims(a)) /\ m = 1 + MaxCrashes
           /\ x = Max(Amounts) /\ f <= x
    <3>1. Max(Amounts) \in Nat /\ InFlight(a) <= Max(Amounts)
      BY AccountNumbers, LargestRequest
    <3>. QED
      BY <3>1, CoinsNumbers
  <2>4. /\ Now(a) = b + s + o + f /\ Now(a)' = b + s + o + 0
        /\ Reach(a) = b + m * (s + f) + c /\ Reach(a)' = b + m * (s + 0) + c
    BY <1>1, <2>1, <2>2, <2>3 DEF Now, Reach
  <2>5. PICK t \in Nat, l \in Nat :
           /\ t = Start[a].balance + Start[a].staked
           /\ l = Start[a].balance + m * Start[a].staked
    <3>1. Start[a].balance \in Nat /\ Start[a].staked \in Nat
      BY AccountNumbers
    <3>2. m * Start[a].staked \in Nat
      BY <2>3, <3>1
    <3>. QED
      BY <3>1, <3>2
  <2>6. Now(a) >= t - crashes * x /\ Reach(a) <= l
    BY <2>3, <2>5 DEF CoinsInv, Kept, Bounded
  <2>7. Reach(a)' <= l
    <3>1. m * (s + f) = m * s + m * f /\ m * s \in Nat /\ m * f \in Nat
      BY <2>3
    <3>2. s + 0 = s
      BY <2>3
    <3>. QED
      BY <2>3, <2>4, <2>5, <2>6, <3>1, <3>2
  <2>8. Now(a)' >= t - (crashes + 1) * x
    <3>1. PICK y \in Nat : y = crashes * x
      <4>1. crashes * x \in Nat
        BY <1>3, <2>3
      <4>. QED
        BY <4>1
    <3>2. (crashes + 1) * x = y + x
      BY <1>3, <2>3, <3>1
    <3>. QED
      BY <2>3, <2>4, <2>5, <2>6, <3>1, <3>2
  <2>9. crashes' # 0
    BY <1>1, <1>3
  <2>10. Kept(a)'
    BY <1>1, <2>3, <2>5, <2>8, <2>9 DEF Kept
  <2>11. Bounded(a)'
    BY <2>3, <2>5, <2>7 DEF Bounded
  <2>. QED
    BY <2>10, <2>11
<1>. QED
  BY <1>2, <1>4, <1>5, <1>6 DEF CoinsInv

\* The first write of a request: the amount is in flight.
LEMMA UnstakeCoins ==
    ASSUME CoinsInv, NEW p, Requesting(p), todo' = Tail(todo),
           accounts' = save_account(accounts, p.address, Unstaked(accounts[p.address], p.amount)),
           bonded' = Put(bonded, key(p), p.amount), UNCHANGED <<pending, paid, epoch, crashes>>
    PROVE  CoinsInv'
<1>1. QueueInv'
  BY UnstakeWrite DEF CoinsInv
<1>2. /\ p \in Entry /\ p.address \in DOMAIN accounts /\ todo = <<Unstake(p), Enqueue(p)>>
      /\ p.amount \in Nat /\ todo' = <<Enqueue(p)>>
  BY LargestRequest DEF Requesting, Entry
<1>3. DOMAIN accounts = DOMAIN Start /\ p.address \in DOMAIN Start
  BY <1>2 DEF CoinsInv, KnownAccounts
<1>4. /\ \A q : todo' # <<Unstake(q), Enqueue(q)>>
      /\ \A q : todo' = <<Enqueue(q)>> => q = p
  BY <1>2 DEF Enqueue, Unstake
<1>5. DOMAIN accounts' = DOMAIN accounts
  BY <1>2 DEF save_account
<1>6. KnownAccounts'
  BY <1>3, <1>4, <1>5 DEF CoinsInv, KnownAccounts
<1>7. FreshKeys'
  <2>1. key(p) \notin DOMAIN bonded
    BY <1>2 DEF CoinsInv, FreshKeys
  <2>2. DOMAIN pending \subseteq DOMAIN bonded /\ DOMAIN paid \subseteq DOMAIN bonded
    BY DEF CoinsInv, QueueInv, TypeOK
  <2>. QED
    BY <1>4, <2>1, <2>2 DEF FreshKeys
<1>8. /\ Len(todo') = 1 /\ todo'[1] = Enqueue(p) /\ Head(todo') = Enqueue(p) /\ todo' # <<>>
      /\ Len(todo) = 2 /\ todo[1] = Unstake(p) /\ todo[2] = Enqueue(p) /\ Head(todo) = Unstake(p)
  BY <1>2
<1>9. Planned'
  <2>1. Enqueue(p).op = "enqueue"
    BY DEF Enqueue
  <2>2. \A i \in 1..Len(todo') : i = 1
    <3>1. Len(todo') = 1
      BY <1>8
    <3>2. \A i \in 1..1 : i = 1
      OBVIOUS
    <3>. QED
      BY <3>1, <3>2
  <2>3. todo'[1].op = "enqueue"
    BY <1>8, <2>1
  <2>. QED
    BY <2>2, <2>3 DEF Planned
<1>10. PaidPerStop'
  <2>1. \A j \in 1..Len(todo), q \in Entry : todo[j] # Dequeue(q)
    BY <1>8 DEF Unstake, Enqueue, Dequeue
  <2>2. \A k \in DOMAIN pending : TimesPaid(k) <= crashes
    BY <2>1 DEF CoinsInv, PaidPerStop, QueueInv
  <2>. QED
    BY <2>2 DEF CoinsInv, PaidPerStop, TimesPaid
<1>11. ASSUME NEW a \in DOMAIN Start
       PROVE  Kept(a)' /\ Bounded(a)'
  <2>1. InFlight(a) = 0 /\ InFlight(a)' = IF p.address = a THEN p.amount ELSE 0
    BY <1>8 DEF InFlight, Unstake, Enqueue
  <2>2. CASE a # p.address
    <3>1. accounts'[a] = accounts[a]
      BY <1>3, <2>2 DEF save_account
    <3>. QED
      BY <2>1, <2>2, <3>1, SameCoins
  <2>3. CASE a = p.address
    <3>1. Owed(a)' = Owed(a) /\ Claims(a)' = Claims(a)
      BY DEF Owed, Claims, TimesPaid
    <3>2. PICK b \in Nat, s \in Nat, x \in Nat, o \in Nat, c \in Nat, m \in Nat :
             /\ b = accounts[a].balance /\ s = accounts[a].staked /\ x = p.amount
             /\ o = SumFunction(Owed(a)) /\ c = SumFunction(Claims(a)) /\ m = 1 + MaxCrashes
      BY <1>2, CoinsNumbers
    <3>3. accounts'[a].balance = b /\ accounts'[a].staked = s - x
      <4>1. accounts[a] \in Account
        BY AccountNumbers
      <4>2. accounts'[a] = Unstaked(accounts[a], x)
        BY <2>3, <3>2 DEF save_account
      <4>. QED
        BY <3>2, <4>1, <4>2 DEF Unstaked, update_validator_tier, Account
    <3>4. /\ Now(a) = b + s + o + 0 /\ Now(a)' = b + (s - x) + o + x
          /\ Reach(a) = b + m * (s + 0) + c /\ Reach(a)' = b + m * ((s - x) + x) + c
      BY <2>1, <2>3, <3>1, <3>2, <3>3 DEF Now, Reach
    <3>5. s + 0 = s /\ (s - x) + x = s
      BY <3>2
    <3>6. Now(a)' = Now(a) /\ Reach(a)' = Reach(a)
      <4>1. b + (s - x) + o + x = b + s + o + 0
        OBVIOUS
      <4>2. Reach(a) = b + m * s + c /\ Reach(a)' = b + m * s + c
        BY <3>4, <3>5
      <4>. QED
        BY <3>4, <4>1, <4>2
    <3>7. Now(a) \in Int /\ Reach(a) \in Int
      BY CoinsType
    <3>8. Kept(a) /\ Bounded(a) /\ crashes \in Nat
      BY QueueAssumption DEF CoinsInv, PaidPerStop
    <3>. QED
      BY <3>6, <3>7, <3>8, AccountNumbers, CoinsKept
  <2>. QED
    BY <2>2, <2>3
<1>. QED
  BY <1>1, <1>6, <1>7, <1>9, <1>10, <1>11 DEF CoinsInv

\* The sums over the queue when one entry is written or credited.
LEMMA QueueWrite ==
    ASSUME QueueInv, PaidPerStop, NEW a, NEW k, DOMAIN pending' = DOMAIN pending \cup {k},
           \A j \in DOMAIN pending \ {k} : pending'[j] = pending[j] /\ TimesPaid(j)' = TimesPaid(j),
           Owed(a)'[k] \in Int, Claims(a)'[k] \in Int
    PROVE  /\ SumFunction(Owed(a))' = SumFunction(Owed(a))
                - (IF k \in DOMAIN pending THEN Owed(a)[k] ELSE 0) + Owed(a)'[k]
           /\ SumFunction(Claims(a))' = SumFunction(Claims(a))
                - (IF k \in DOMAIN pending THEN Claims(a)[k] ELSE 0) + Claims(a)'[k]
<1>1. IsFiniteSet(DOMAIN pending)
  BY DEF QueueInv
<1>2. /\ DOMAIN Owed(a) = DOMAIN pending /\ DOMAIN Claims(a) = DOMAIN pending
      /\ \A j \in DOMAIN pending : Owed(a)[j] \in Int /\ Claims(a)[j] \in Int
  BY QueueNumbers
<1>3. PICK f, g, v : f = Owed(a) /\ g = Owed(a)' /\ v = Owed(a)'[k]
  OBVIOUS
<1>4. g = [j \in DOMAIN f \cup {k} |-> IF j = k THEN v ELSE f[j]]
  <2>1. g = [j \in DOMAIN pending' |-> g[j]] /\ v = g[k]
    BY <1>3 DEF Owed
  <2>2. \A j \in DOMAIN pending \ {k} : g[j] = f[j]
    BY <1>3 DEF Owed
  <2>. QED
    BY <1>2, <1>3, <2>1, <2>2
<1>5. SumFunction(g) = SumFunction(f) - (IF k \in DOMAIN f THEN f[k] ELSE 0) + v
  BY <1>1, <1>2, <1>3, <1>4, SumWrite
<1>6. PICK h, i, w : h = Claims(a) /\ i = Claims(a)' /\ w = Claims(a)'[k]
  OBVIOUS
<1>7. i = [j \in DOMAIN h \cup {k} |-> IF j = k THEN w ELSE h[j]]
  <2>1. i = [j \in DOMAIN pending' |-> i[j]] /\ w = i[k]
    BY <1>6 DEF Claims
  <2>2. \A j \in DOMAIN pending \ {k} : i[j] = h[j]
    BY <1>6 DEF Claims
  <2>. QED
    BY <1>2, <1>6, <2>1, <2>2
<1>8. SumFunction(i) = SumFunction(h) - (IF k \in DOMAIN h THEN h[k] ELSE 0) + w
  BY <1>1, <1>2, <1>6, <1>7, SumWrite
<1>9. SumFunction(Owed(a))' = SumFunction(g) /\ SumFunction(Claims(a))' = SumFunction(i)
  BY <1>3, <1>6
<1>. QED
  BY <1>2, <1>3, <1>5, <1>6, <1>8, <1>9

\* The second write of a request: what was in flight is owed.
LEMMA EnqueueCoins ==
    ASSUME CoinsInv, NEW p, Queueing(p), todo' = Tail(todo), pending' = Put(pending, key(p), p),
           UNCHANGED <<accounts, bonded, paid, epoch, crashes>>
    PROVE  CoinsInv'
<1>1. QueueInv'
  BY EnqueueWrite DEF CoinsInv
<1>2. /\ p \in Entry /\ todo = <<Enqueue(p)>> /\ p.amount \in Nat /\ todo' = <<>>
  BY LargestRequest DEF Queueing, Entry
<1>3. PICK k : k = key(p) /\ k.to = p.address
  BY DEF key
<1>4. k \notin DOMAIN pending /\ k \notin DOMAIN paid /\ p.address \in DOMAIN Start
  BY <1>2, <1>3 DEF CoinsInv, FreshKeys, KnownAccounts
<1>5. /\ DOMAIN pending' = DOMAIN pending \cup {k} /\ pending'[k] = p
      /\ \A j \in DOMAIN pending \ {k} : pending'[j] = pending[j]
  BY <1>3 DEF Put
<1>6. \A j : TimesPaid(j)' = TimesPaid(j)
  BY DEF TimesPaid
<1>7. TimesPaid(k) = 0
  BY <1>4 DEF TimesPaid
<1>8. KnownAccounts' /\ FreshKeys'
  BY <1>2, <1>3, <1>4, <1>5 DEF CoinsInv, KnownAccounts, FreshKeys
<1>9. Len(todo') = 0 /\ Len(todo) = 1 /\ todo[1] = Enqueue(p) /\ Head(todo) = Enqueue(p)
      /\ todo # <<>>
  BY <1>2
<1>10. Planned'
  BY <1>9 DEF Planned
<1>11. PaidPerStop'
  <2>1. \A j \in 1..Len(todo), q \in Entry : todo[j] # Dequeue(q)
    <3>1. \A q \in Entry : Enqueue(p) # Dequeue(q)
      BY DEF Enqueue, Dequeue
    <3>2. \A j \in 1..1 : j = 1
      OBVIOUS
    <3>. QED
      BY <1>9, <3>1, <3>2
  <2>2. \A j \in DOMAIN pending : TimesPaid(j) <= crashes
    BY <2>1 DEF CoinsInv, PaidPerStop, QueueInv
  <2>3. crashes \in 0..MaxCrashes /\ \A j \in DOMAIN paid : paid[j] <= 1 + crashes
    BY DEF CoinsInv, PaidPerStop
  <2>4. \A j \in DOMAIN pending' : TimesPaid(j)' <= crashes
    BY <1>5, <1>6, <1>7, <2>2, <2>3, QueueAssumption
  <2>. QED
    BY <2>3, <2>4 DEF PaidPerStop
<1>12. ASSUME NEW a \in DOMAIN Start
       PROVE  Kept(a)' /\ Bounded(a)'
  <2>1. InFlight(a)' = 0 /\ InFlight(a) = IF p.address = a THEN p.amount ELSE 0
    BY <1>2, <1>9 DEF InFlight, Enqueue
  <2>2. PICK b \in Nat, s \in Nat, x \in Nat, o \in Nat, c \in Nat, m \in Nat :
           /\ b = accounts[a].balance /\ s = accounts[a].staked
           /\ x = (IF p.address = a THEN p.amount ELSE 0)
           /\ o = SumFunction(Owed(a)) /\ c = SumFunction(Claims(a)) /\ m = 1 + MaxCrashes
    BY <1>2, CoinsNumbers
  <2>3. Owed(a)'[k] = x /\ Claims(a)'[k] = m * x
    <3>1. Owed(a)'[k] = IF k.to = a THEN p.amount ELSE 0
      BY <1>5, <1>6, <1>7 DEF Owed
    <3>2. Claims(a)'[k] = IF k.to = a THEN ((1 + MaxCrashes) - 0) * p.amount ELSE 0
      BY <1>5, <1>6, <1>7 DEF Claims
    <3>3. (1 + MaxCrashes) - 0 = m /\ m * 0 = 0
      BY <2>2
    <3>. QED
      BY <1>3, <2>2, <3>1, <3>2, <3>3
  <2>4. PICK y \in Nat, z \in Nat : y = m * x /\ z = m * s
    <3>1. m * x \in Nat /\ m * s \in Nat
      OBVIOUS
    <3>. QED
      BY <3>1
  <2>5. /\ SumFunction(Owed(a))' = o - 0 + x
        /\ SumFunction(Claims(a))' = c - 0 + y
    <3>1. Owed(a)'[k] = x /\ Owed(a)'[k] \in Int /\ Claims(a)'[k] = y /\ Claims(a)'[k] \in Int
      BY <2>3, <2>4
    <3>2. QueueInv /\ PaidPerStop
      BY DEF CoinsInv
    <3>3. /\ SumFunction(Owed(a))' = SumFunction(Owed(a))
                - (IF k \in DOMAIN pending THEN Owed(a)[k] ELSE 0) + Owed(a)'[k]
          /\ SumFunction(Claims(a))' = SumFunction(Claims(a))
                - (IF k \in DOMAIN pending THEN Claims(a)[k] ELSE 0) + Claims(a)'[k]
      BY <1>5, <1>6, <3>1, <3>2, QueueWrite
    <3>. QED
      BY <1>4, <2>2, <3>1, <3>3
  <2>6. /\ Now(a) = b + s + o + x /\ Now(a)' = b + s + (o - 0 + x) + 0
        /\ Reach(a) = b + m * (s + x) + c /\ Reach(a)' = b + m * (s + 0) + (c - 0 + y)
    BY <2>1, <2>2, <2>5 DEF Now, Reach
  <2>7. m * (s + x) = z + y /\ m * (s + 0) = z
    BY <2>4
  <2>8. Now(a)' = Now(a) /\ Reach(a)' = Reach(a)
    BY <2>6, <2>7
  <2>9. Now(a) \in Int /\ Reach(a) \in Int
    BY CoinsType
  <2>10. Kept(a) /\ Bounded(a) /\ crashes \in Nat
    BY CoinsNumbers
  <2>. QED
    BY <2>8, <2>9, <2>10, AccountNumbers, CoinsKept
<1>. QED
  BY <1>1, <1>8, <1>10, <1>11, <1>12 DEF CoinsInv

\* A planned credit fits: its address can reach the balance it leads to.
LEMMA CreditFits ==
    ASSUME CoinsInv, CoinsFit, NEW k \in DOMAIN pending, TimesPaid(k) <= crashes
    PROVE  /\ k.to \in DOMAIN Start
           /\ accounts[k.to].balance + pending[k].amount \in U64
<1>1. PICK a \in DOMAIN Start : a = k.to
  BY DEF CoinsInv, KnownAccounts
<1>2. PICK b \in Nat, s \in Nat, f \in Nat, c \in Nat, m \in Nat :
         /\ b = accounts[a].balance /\ s = accounts[a].staked /\ f = InFlight(a)
         /\ c = SumFunction(Claims(a)) /\ m = 1 + MaxCrashes
  BY CoinsNumbers
<1>3. QueueInv /\ PaidPerStop /\ crashes \in 0..MaxCrashes /\ MaxCrashes \in Nat
  BY QueueAssumption DEF CoinsInv, PaidPerStop
<1>4. PICK x \in Nat, t \in Nat : x = pending[k].amount /\ t = TimesPaid(k)
  BY <1>3, QueueNumbers
<1>5. Claims(a)[k] = (m - t) * x /\ Claims(a)[k] \in Nat /\ Claims(a)[k] <= c
  <2>1. Claims(a)[k] \in Nat /\ Claims(a)[k] <= c
    BY <1>2, <1>3, QueueNumbers
  <2>2. Claims(a)[k] = ((1 + MaxCrashes) - TimesPaid(k)) * pending[k].amount
    BY <1>1 DEF Claims
  <2>. QED
    BY <1>2, <1>4, <2>1, <2>2
<1>6. PICK d \in Nat : m - t = 1 + d
  <2>1. (m - t) - 1 \in Nat /\ m - t = 1 + ((m - t) - 1)
    BY <1>2, <1>3, <1>4
  <2>. QED
    BY <2>1
<1>7. (1 + d) * x = x + d * x /\ d * x \in Nat
  OBVIOUS
<1>8. x <= c
  BY <1>4, <1>5, <1>6, <1>7
<1>9. PICK z \in Nat, l \in Nat :
         z = m * (s + f) /\ l = Start[a].balance + (1 + MaxCrashes) * Start[a].staked
  <2>1. m * (s + f) \in Nat
    OBVIOUS
  <2>2. Start[a].balance \in Nat /\ Start[a].staked \in Nat
    BY AccountNumbers
  <2>3. (1 + MaxCrashes) * Start[a].staked \in Nat
    BY <1>3, <2>2
  <2>4. Start[a].balance + (1 + MaxCrashes) * Start[a].staked \in Nat
    BY <2>2, <2>3
  <2>. QED
    BY <2>1, <2>4
<1>10. b + z + c <= l /\ l <= MaxU64
  <2>1. Reach(a) = b + z + c
    BY <1>2, <1>9 DEF Reach
  <2>2. Reach(a) <= l
    BY <1>9, CoinsNumbers DEF Bounded
  <2>3. l <= MaxU64
    BY <1>9 DEF CoinsFit
  <2>. QED
    BY <2>1, <2>2, <2>3
<1>11. b + x \in U64
  BY <1>8, <1>10, WidthAssumption DEF U64
<1>. QED
  BY <1>1, <1>2, <1>4, <1>11

\* The writes that are left of a release stay planned: those behind the first
\* write rely on none before them.
LEMMA RestIsPlanned ==
    ASSUME CoinsInv, Releasing, todo # <<>>, todo' = Tail(todo), crashes' = crashes,
           \A i \in 2..Len(todo), k \in DOMAIN pending :
              todo[i].op = "credit" /\ key(todo[i].entry) = k =>
                 /\ k \in DOMAIN pending' /\ pending'[k] = pending[k]
                 /\ TimesPaid(k)' = TimesPaid(k)
    PROVE  Planned'
<1> DEFINE W == [op : {"credit", "remove"}, entry : Entry]
<1>1. PICK n : n = Len(todo) - 1
  OBVIOUS
<1>2. /\ n \in Nat /\ Len(todo) = n + 1 /\ Len(todo') = n
      /\ \A i \in 1..n : todo'[i] = todo[i + 1]
  <2>1. todo \in Seq(W)
    BY DEF Releasing
  <2>. HIDE DEF W
  <2>. QED
    BY <1>1, <2>1, RestOfCall
<1>3. ASSUME NEW i \in 1..n
      PROVE  /\ i + 1 \in 1..Len(todo) /\ i + 1 \in 2..Len(todo)
             /\ todo[i + 1].op = "credit" => PlannedCredit(i + 1)
             /\ todo[i + 1].op = "remove" => \A j \in (i + 1)..Len(todo) : todo[j].op = "remove"
  <2>1. i + 1 \in 1..Len(todo) /\ i + 1 \in 2..Len(todo)
    BY <1>2
  <2>. QED
    BY <2>1 DEF CoinsInv, Planned
<1>4. ASSUME NEW i \in 1..n, todo'[i].op = "credit"
      PROVE  PlannedCredit(i)'
  <2>1. PICK u : u = todo[i + 1]
    OBVIOUS
  <2>2. u = todo'[i] /\ u.op = "credit" /\ i + 1 \in 2..Len(todo)
    BY <1>2, <1>3, <1>4, <2>1
  <2>3. /\ key(u.entry) \in DOMAIN pending /\ pending[key(u.entry)] = u.entry
        /\ TimesPaid(key(u.entry)) <= crashes
        /\ \A j \in 1..(n + 1) : todo[j] = u => j = i + 1
        /\ \E j \in ((i + 1) + 1)..(n + 1) : todo[j] = Dequeue(u.entry)
    <3>1. PlannedCredit(i + 1)
      BY <1>3, <2>1, <2>2
    <3>. QED
      BY <1>2, <2>1, <3>1 DEF PlannedCredit
  <2>4. /\ key(u.entry) \in DOMAIN pending' /\ pending'[key(u.entry)] = u.entry
        /\ TimesPaid(key(u.entry))' <= crashes'
    <3>1. PICK k \in DOMAIN pending : k = key(u.entry)
      BY <2>3
    <3>2. k \in DOMAIN pending' /\ pending'[k] = pending[k] /\ TimesPaid(k)' = TimesPaid(k)
      BY <2>1, <2>2, <3>1
    <3>3. TimesPaid(k) <= crashes /\ pending[k] = u.entry
      BY <2>3, <3>1
    <3>. QED
      BY <3>1, <3>2, <3>3
  <2>5. ASSUME NEW j \in 1..n, todo'[j] = u
        PROVE  j = i
    <3>1. j + 1 \in 1..(n + 1) /\ todo[j + 1] = u
      BY <1>2, <2>5
    <3>2. j + 1 = i + 1
      BY <2>3, <3>1
    <3>. QED
      BY <3>2
  <2>6. \E j \in (i + 1)..n : todo'[j] = Dequeue(u.entry)
    <3>1. PICK j \in ((i + 1) + 1)..(n + 1) : todo[j] = Dequeue(u.entry)
      BY <2>3
    <3>2. j - 1 \in (i + 1)..n /\ j - 1 \in 1..n /\ (j - 1) + 1 = j
      BY <1>2
    <3>3. todo'[j - 1] = todo[j]
      BY <1>2, <3>2
    <3>. QED
      BY <3>1, <3>2, <3>3
  <2>. QED
    BY <1>2, <2>2, <2>4, <2>5, <2>6 DEF PlannedCredit
<1>5. ASSUME NEW i \in 1..n, todo'[i].op = "remove", NEW j \in i..n
      PROVE  todo'[j].op = "remove"
  <2>1. j \in 1..n /\ j + 1 \in (i + 1)..Len(todo)
    BY <1>2
  <2>2. todo[i + 1].op = "remove"
    BY <1>2, <1>5
  <2>3. todo[j + 1].op = "remove"
    BY <1>3, <2>1, <2>2
  <2>. QED
    BY <1>2, <2>1, <2>3
<1>. QED
  BY <1>2, <1>4, <1>5 DEF Planned

\* A credit that fits: its entry is paid once more, and no other.
LEMMA CreditCoins ==
    ASSUME CoinsInv, CoinsFit, Releasing, todo # <<>>, Head(todo).op = "credit",
           NEW p, p = Head(todo).entry, p \in Entry,
           NEW credit, credit = credit_account(accounts, p.address, p.amount),
           NEW times, times = TimesPaid(key(p)), accounts' = credit.accts,
           paid' = IF credit.ok THEN Put(paid, key(p), times + 1) ELSE paid,
           todo' = IF credit.ok THEN Tail(todo) ELSE <<>>,
           UNCHANGED <<pending, bonded, epoch, crashes>>
    PROVE  CoinsInv'
<1> DEFINE W == [op : {"credit", "remove"}, entry : Entry]
<1>1. QueueInv'
  BY CreditWrite DEF CoinsInv
<1>2. PICK n : n = Len(todo) - 1
  OBVIOUS
<1>3. /\ n \in Nat /\ Len(todo) = n + 1 /\ Head(todo) = todo[1] /\ Tail(todo) \in Seq(W)
      /\ Len(Tail(todo)) = n /\ \A i \in 1..n : Tail(todo)[i] = todo[i + 1]
  <2>1. todo \in Seq(W)
    BY DEF Releasing
  <2>. HIDE DEF W
  <2>. QED
    BY <1>2, <2>1, RestOfCall
<1>4. PICK k, a, x : k = key(p) /\ a = p.address /\ x = p.amount /\ k.to = a
  BY DEF key
<1>5. /\ k \in DOMAIN pending /\ pending[k] = p /\ TimesPaid(k) <= crashes
      /\ \A j \in 1..(n + 1) : todo[j] = todo[1] => j = 1
      /\ \E j \in (1 + 1)..(n + 1) : todo[j] = Dequeue(p)
  <2>1. PlannedCredit(1)
    BY <1>3 DEF CoinsInv, Planned
  <2>. QED
    BY <1>3, <1>4, <2>1 DEF PlannedCredit
<1>6. a \in DOMAIN Start /\ accounts[a].balance + x \in U64
  BY <1>4, <1>5, CreditFits
<1>7. a \in DOMAIN accounts /\ accounts[a] \in Account /\ x \in Nat
  BY <1>4, <1>6, AccountNumbers, LargestRequest DEF Entry
<1>8. credit = Ok(save_account(accounts, a, Credited(accounts[a], x)))
  BY <1>4, <1>6, <1>7 DEF credit_account, get_or_create_account
<1>9. /\ accounts' = save_account(accounts, a, Credited(accounts[a], x))
      /\ paid' = Put(paid, k, times + 1) /\ todo' = Tail(todo)
  BY <1>4, <1>8 DEF Ok
<1>10. PICK t \in Nat : t = TimesPaid(k) /\ t = times /\ t <= crashes
  BY <1>4, <1>5, QueueNumbers DEF CoinsInv
<1>11. /\ TimesPaid(k)' = t + 1 /\ DOMAIN paid' = DOMAIN paid \cup {k}
       /\ \A j : j # k => TimesPaid(j)' = TimesPaid(j)
  BY <1>9, <1>10 DEF TimesPaid, Put
<1>12. KnownAccounts' /\ FreshKeys'
  <2>1. DOMAIN accounts' = DOMAIN accounts
    BY <1>7, <1>9 DEF save_account
  <2>2. \A q : todo' # <<Enqueue(q)>> /\ todo' # <<Unstake(q), Enqueue(q)>>
    BY <1>3, <1>9, ReleaseIsNoRequest
  <2>. QED
    BY <2>1, <2>2 DEF CoinsInv, KnownAccounts, FreshKeys
<1>13. Planned'
  <2>1. ASSUME NEW i \in 2..Len(todo), NEW j \in DOMAIN pending,
               todo[i].op = "credit", key(todo[i].entry) = j
        PROVE  j # k
    <3>1. i \in 1..(n + 1) /\ i # 1
      BY <1>3
    <3>2. PlannedCredit(i)
      BY <1>3, <2>1, <3>1 DEF CoinsInv, Planned
    <3>3. pending[j] = todo[i].entry
      BY <2>1, <3>2 DEF PlannedCredit
    <3>4. SUFFICES ASSUME j = k PROVE FALSE
      OBVIOUS
    <3>5. todo[i].entry = p
      BY <1>5, <3>3, <3>4
    <3>6. todo[i] \in W /\ todo[1] \in W
      <4>1. todo \in Seq(W)
        BY DEF Releasing
      <4>2. i \in 1..Len(todo) /\ 1 \in 1..Len(todo)
        BY <1>3, <3>1
      <4>. HIDE DEF W
      <4>. QED
        BY <4>1, <4>2, ElementOfSeq
    <3>7. todo[i] = todo[1]
      BY <1>3, <2>1, <3>5, <3>6
    <3>. QED
      BY <1>5, <3>1, <3>7
  <2>. QED
    BY <1>9, <1>11, <2>1, RestIsPlanned
<1>14. PaidPerStop'
  <2>1. crashes \in 0..MaxCrashes /\ MaxCrashes \in Nat
    BY QueueAssumption DEF CoinsInv, PaidPerStop
  <2>2. \A j \in DOMAIN paid' : paid'[j] <= 1 + crashes
    <3>1. paid'[k] = t + 1 /\ \A j \in DOMAIN paid : j # k => paid'[j] = paid[j]
      BY <1>9, <1>10 DEF Put
    <3>2. \A j \in DOMAIN paid : paid[j] <= 1 + crashes
      BY DEF CoinsInv, PaidPerStop
    <3>3. t + 1 <= 1 + crashes
      BY <1>10, <2>1
    <3>. QED
      BY <1>11, <3>1, <3>2, <3>3
  <2>3. ASSUME NEW i \in (1 + 1)..(n + 1)
        PROVE  \E j \in 1..n : todo'[j] = todo[i]
    <3>1. i - 1 \in 1..n /\ (i - 1) + 1 = i
      BY <1>3
    <3>2. todo'[i - 1] = todo[i]
      BY <1>3, <1>9, <3>1
    <3>. QED
      BY <3>1, <3>2
  <2>4. ASSUME NEW j \in DOMAIN pending
        PROVE  TimesPaid(j)' <= crashes \/ \E i \in 1..n : todo'[i] = Dequeue(pending[j])
    <3>1. CASE j = k
      BY <1>5, <2>3, <3>1
    <3>2. CASE j # k
      <4>1. CASE TimesPaid(j) <= crashes
        BY <1>11, <3>2, <4>1
      <4>2. CASE \E i \in 1..Len(todo) : todo[i] = Dequeue(pending[j])
        <5>1. PICK i \in 1..(n + 1) : todo[i] = Dequeue(pending[j])
          BY <1>3, <4>2
        <5>2. i # 1
          BY <1>3, <5>1 DEF Dequeue
        <5>3. i \in (1 + 1)..(n + 1)
          BY <1>3, <5>2
        <5>. QED
          BY <2>3, <5>1, <5>3
      <4>. QED
        BY <4>1, <4>2 DEF CoinsInv, PaidPerStop
    <3>. QED
      BY <3>1, <3>2
  <2>5. Len(todo') = n
    BY <1>3, <1>9
  <2>. QED
    BY <2>1, <2>2, <2>4, <2>5 DEF PaidPerStop
<1>15. Releasing'
  BY <1>4, <1>9, <1>11, RestIsReleasing DEF CoinsInv
<1>16. ASSUME NEW c \in DOMAIN Start
       PROVE  Kept(c)' /\ Bounded(c)'
  <2>1. InFlight(c) = 0 /\ InFlight(c)' = 0
    BY <1>15, NothingInFlight
  <2>2. PICK b \in Nat, s \in Nat, y \in Nat, o \in Nat, d \in Nat, m \in Nat :
           /\ b = accounts[c].balance /\ s = accounts[c].staked
           /\ y = (IF a = c THEN x ELSE 0)
           /\ o = SumFunction(Owed(c)) /\ d = SumFunction(Claims(c)) /\ m = 1 + MaxCrashes
    BY <1>7, CoinsNumbers
  <2>3. accounts'[c].balance = b + y /\ accounts'[c].staked = s
    <3>1. CASE a = c
      <4>1. accounts'[c] = Credited(accounts[a], x)
        BY <1>9, <3>1 DEF save_account
      <4>2. Credited(accounts[a], x).balance = accounts[a].balance + x
            /\ Credited(accounts[a], x).staked = accounts[a].staked
        BY <1>6, <1>7, CreditedAccount
      <4>. QED
        BY <2>2, <3>1, <4>1, <4>2
    <3>2. CASE a # c
      <4>1. accounts'[c] = accounts[c]
        BY <1>9, <3>2, AccountNumbers DEF save_account
      <4>. QED
        BY <2>2, <3>2, <4>1
    <3>. QED
      BY <3>1, <3>2
  <2>4. /\ Owed(c)[k] = IF t = 0 THEN y ELSE 0
        /\ Owed(c)'[k] = 0
        /\ Claims(c)[k] = (m - t) * y
        /\ Claims(c)'[k] = (m - (t + 1)) * y
    <3>1. /\ Owed(c)[k] = IF a = c /\ t = 0 THEN x ELSE 0
          /\ Owed(c)'[k] = 0
      BY <1>4, <1>5, <1>10, <1>11 DEF Owed
    <3>2. /\ Claims(c)[k] = IF a = c THEN (m - t) * x ELSE 0
          /\ Claims(c)'[k] = IF a = c THEN (m - (t + 1)) * x ELSE 0
      BY <1>4, <1>5, <1>10, <1>11, <2>2 DEF Claims
    <3>3. (m - t) * 0 = 0 /\ (m - (t + 1)) * 0 = 0
      BY <1>10
    <3>. QED
      BY <2>2, <3>1, <3>2, <3>3
  <2>5. PICK z \in Int : z = (m - (t + 1)) * y /\ (m - t) * y = z + y
    <3>1. (m - t) * y = (m - (t + 1)) * y + y /\ (m - (t + 1)) * y \in Int
      BY <1>10
    <3>. QED
      BY <3>1
  <2>6. /\ SumFunction(Owed(c))' = o - (IF t = 0 THEN y ELSE 0) + 0
        /\ SumFunction(Claims(c))' = d - (z + y) + z
    <3>1. Owed(c)'[k] = 0 /\ Owed(c)'[k] \in Int /\ Claims(c)'[k] = z /\ Claims(c)'[k] \in Int
      BY <2>4, <2>5
    <3>2. QueueInv /\ PaidPerStop /\ DOMAIN pending' = DOMAIN pending \cup {k}
      BY <1>5 DEF CoinsInv
    <3>3. \A j \in DOMAIN pending \ {k} : pending'[j] = pending[j] /\ TimesPaid(j)' = TimesPaid(j)
      BY <1>11
    <3>4. /\ SumFunction(Owed(c))' = SumFunction(Owed(c))
                - (IF k \in DOMAIN pending THEN Owed(c)[k] ELSE 0) + Owed(c)'[k]
          /\ SumFunction(Claims(c))' = SumFunction(Claims(c))
                - (IF k \in DOMAIN pending THEN Claims(c)[k] ELSE 0) + Claims(c)'[k]
      BY <3>1, <3>2, <3>3, QueueWrite
    <3>. QED
      BY <1>5, <2>2, <2>4, <2>5, <3>1, <3>4
  <2>7. PICK r \in Int : r = m * (s + 0)
    OBVIOUS
  <2>8. /\ Now(c) = b + s + o + 0
        /\ Now(c)' = (b + y) + s + (o - (IF t = 0 THEN y ELSE 0) + 0) + 0
        /\ Reach(c) = b + r + d
        /\ Reach(c)' = (b + y) + r + (d - (z + y) + z)
    BY <2>1, <2>2, <2>3, <2>6, <2>7 DEF Now, Reach
  <2>9. Now(c)' >= Now(c) /\ (t = 0 => Now(c)' = Now(c)) /\ Reach(c)' = Reach(c)
    BY <2>8
  <2>10. Kept(c) /\ Bounded(c) /\ crashes \in Nat
    BY CoinsNumbers
  <2>11. crashes = 0 => t = 0
    BY <1>10
  <2>12. Now(c) \in Int /\ Reach(c) \in Int /\ Now(c)' \in Int
    BY <2>8
  <2>. QED
    BY <2>9, <2>10, <2>11, <2>12, AccountNumbers, CoinsKept
<1>. QED
  BY <1>1, <1>12, <1>13, <1>14, <1>16 DEF CoinsInv

\* A removal: its entry was credited, so nothing is owed for it.
LEMMA RemoveCoins ==
    ASSUME CoinsInv, Releasing, todo # <<>>, Head(todo).op = "remove",
           NEW p, p = Head(todo).entry, p \in Entry,
           pending' = [k \in DOMAIN pending \ {key(p)} |-> pending[k]],
           todo' = Tail(todo), UNCHANGED <<accounts, bonded, paid, epoch, crashes>>
    PROVE  CoinsInv'
<1> DEFINE W == [op : {"credit", "remove"}, entry : Entry]
<1>1. PICK h : h = key(p)
  OBVIOUS
<1>2. QueueInv'
  BY <1>1, RemoveWrite DEF CoinsInv
<1>3. PICK n : n = Len(todo) - 1
  OBVIOUS
<1>4. /\ n \in Nat /\ Len(todo) = n + 1 /\ Head(todo) = todo[1] /\ todo' \in Seq(W)
      /\ Len(todo') = n /\ \A i \in 1..n : todo'[i] = todo[i + 1]
  <2>1. todo \in Seq(W)
    BY DEF Releasing
  <2>. HIDE DEF W
  <2>. QED
    BY <1>3, <2>1, RestOfCall
<1>5. /\ DOMAIN pending' = DOMAIN pending \ {h}
      /\ \A k \in DOMAIN pending' : pending'[k] = pending[k]
      /\ \A k : TimesPaid(k)' = TimesPaid(k)
  BY <1>1 DEF TimesPaid
<1>6. \A i \in 2..Len(todo) : todo[i].op = "remove"
  <2>1. \A i \in 1..Len(todo) : todo[i].op = "remove"
    BY <1>4 DEF CoinsInv, Planned
  <2>. QED
    BY <1>4, <2>1
<1>7. Planned'
  BY <1>6, RestIsPlanned
<1>8. KnownAccounts' /\ FreshKeys'
  <2>1. \A q : todo' # <<Enqueue(q)>> /\ todo' # <<Unstake(q), Enqueue(q)>>
    BY <1>4, ReleaseIsNoRequest
  <2>. QED
    BY <1>5, <2>1 DEF CoinsInv, KnownAccounts, FreshKeys
<1>9. PaidPerStop'
  <2>1. ASSUME NEW k \in DOMAIN pending, k # h
        PROVE  TimesPaid(k) <= crashes \/ \E i \in 1..n : todo'[i] = Dequeue(pending[k])
    <3>1. CASE \E i \in 1..Len(todo) : todo[i] = Dequeue(pending[k])
      <4>1. PICK i \in 1..(n + 1) : todo[i] = Dequeue(pending[k])
        BY <1>4, <3>1
      <4>2. key(pending[k]) = k
        BY DEF CoinsInv, QueueInv, TypeOK
      <4>3. i # 1
        BY <1>1, <1>4, <2>1, <4>1, <4>2 DEF Dequeue
      <4>4. i - 1 \in 1..n /\ (i - 1) + 1 = i
        BY <1>4, <4>3
      <4>5. todo'[i - 1] = Dequeue(pending[k])
        BY <1>4, <4>1, <4>4
      <4>. QED
        BY <4>4, <4>5
    <3>. QED
      BY <3>1 DEF CoinsInv, PaidPerStop
  <2>2. \A k \in DOMAIN pending' :
           TimesPaid(k)' <= crashes' \/ \E i \in 1..Len(todo') : todo'[i] = Dequeue(pending'[k])
    BY <1>4, <1>5, <2>1
  <2>. QED
    BY <2>2 DEF CoinsInv, PaidPerStop
<1>10. Releasing'
  BY RestIsReleasing DEF CoinsInv
<1>11. h \in DOMAIN pending => TimesPaid(h) # 0
  <2>1. CreditedFirst(1)
    BY <1>4 DEF Releasing
  <2>2. h \in DOMAIN paid
    BY <1>1, <1>4, <2>1 DEF CreditedFirst
  <2>. QED
    BY <2>2 DEF TimesPaid, CoinsInv, QueueInv
<1>12. ASSUME NEW a \in DOMAIN Start
       PROVE  Kept(a)' /\ Bounded(a)'
  <2>1. InFlight(a) = 0 /\ InFlight(a)' = 0
    BY <1>10, NothingInFlight
  <2>2. PICK b \in Nat, s \in Nat, o \in Nat, c \in Nat, m \in Nat :
           /\ b = accounts[a].balance /\ s = accounts[a].staked
           /\ o = SumFunction(Owed(a)) /\ c = SumFunction(Claims(a)) /\ m = 1 + MaxCrashes
    BY CoinsNumbers
  <2>3. PICK S, R : S = DOMAIN pending /\ R = DOMAIN pending' /\ R \in SUBSET S /\ IsFiniteSet(S)
    BY <1>5 DEF CoinsInv, QueueInv
  <2>4. QueueInv /\ PaidPerStop
    BY DEF CoinsInv
  <2>5. /\ DOMAIN Owed(a) = S /\ DOMAIN Owed(a)' = R
        /\ DOMAIN Claims(a) = S /\ DOMAIN Claims(a)' = R
    BY <2>3 DEF Owed, Claims
  <2>6. SumFunction(Owed(a))' = o
    <3>1. PICK f, g : f = Owed(a) /\ g = Owed(a)'
      OBVIOUS
    <3>2. \A k \in R : f[k] = g[k]
      BY <1>5, <2>3, <3>1 DEF Owed
    <3>3. \A k \in S : f[k] \in Int
      BY <2>3, <2>4, <3>1, QueueNumbers
    <3>4. \A k \in S \ R : f[k] = 0
      BY <1>5, <1>11, <2>3, <3>1 DEF Owed
    <3>5. IsFiniteSet(R)
      BY <2>3, FS_Subset
    <3>6. SumFunctionOnSet(f, S) = SumFunctionOnSet(f, R)
      BY <2>3, <3>3, <3>4, SumExtend
    <3>7. SumFunctionOnSet(f, R) = SumFunctionOnSet(g, R)
      BY <3>2, <3>5, SumSame
    <3>. QED
      BY <2>2, <2>5, <3>1, <3>6, <3>7 DEF SumFunction
  <2>7. SumFunction(Claims(a))' \in Nat /\ SumFunction(Claims(a))' <= c
    <3>1. PICK f, g : f = Claims(a) /\ g = Claims(a)'
      OBVIOUS
    <3>2. \A k \in R : f[k] = g[k]
      BY <1>5, <2>3, <3>1 DEF Claims
    <3>3. \A k \in S : f[k] \in Nat
      BY <2>3, <2>4, <3>1, QueueNumbers
    <3>4. IsFiniteSet(R)
      BY <2>3, FS_Subset
    <3>5. SumFunctionOnSet(f, R) \in Nat /\ SumFunctionOnSet(f, R) <= SumFunctionOnSet(f, S)
      BY <2>3, <3>3, SumSubset
    <3>6. SumFunctionOnSet(f, R) = SumFunctionOnSet(g, R)
      BY <3>2, <3>4, SumSame
    <3>. QED
      BY <2>2, <2>5, <3>1, <3>5, <3>6 DEF SumFunction
  <2>8. PICK d \in Nat, r \in Int : d = SumFunction(Claims(a))' /\ d <= c /\ r = m * (s + 0)
    <3>1. m * (s + 0) \in Int
      OBVIOUS
    <3>. QED
      BY <2>7, <3>1
  <2>9. /\ Now(a) = b + s + o + 0 /\ Now(a)' = b + s + o + 0
        /\ Reach(a) = b + r + c /\ Reach(a)' = b + r + d
    BY <2>1, <2>2, <2>6, <2>8 DEF Now, Reach
  <2>10. Kept(a) /\ Bounded(a) /\ crashes \in Nat
    BY CoinsNumbers
  <2>11. /\ Now(a)' = Now(a) /\ Now(a) \in Int /\ Reach(a) \in Int /\ Reach(a)' \in Int
         /\ Reach(a)' <= Reach(a)
    BY <2>8, <2>9
  <2>. QED
    BY <2>10, <2>11, AccountNumbers, CoinsKept
<1>. QED
  BY <1>2, <1>7, <1>8, <1>9, <1>12 DEF CoinsInv

\* Every write keeps the bounds.
LEMMA WriteCoins ==
    ASSUME CoinsInv, CoinsFit, Write
    PROVE  CoinsInv'
<1> DEFINE w == Head(todo)
           p == w.entry
           credit == credit_account(accounts, p.address, p.amount)
           times == IF key(p) \in DOMAIN paid THEN paid[key(p)] ELSE 0
<1>1. todo # <<>> /\ epoch' = epoch /\ crashes' = crashes /\ QueueInv
  BY DEF Write, CoinsInv
<1>2. CASE /\ w.op = "unstake"
           /\ accounts' = save_account(accounts, p.address,
                                       Unstaked(accounts[p.address], p.amount))
           /\ bonded' = Put(bonded, key(p), p.amount)
           /\ todo' = Tail(todo)
           /\ UNCHANGED <<pending, paid>>
  BY <1>1, <1>2, NextWrite, UnstakeCoins
<1>3. CASE /\ w.op = "enqueue"
           /\ pending' = Put(pending, key(p), p)
           /\ todo' = Tail(todo)
           /\ UNCHANGED <<accounts, bonded, paid>>
  BY <1>1, <1>3, NextWrite, EnqueueCoins
<1>4. CASE /\ w.op = "credit"
           /\ accounts' = credit.accts
           /\ paid' = IF credit.ok THEN Put(paid, key(p), times + 1) ELSE paid
           /\ todo' = IF credit.ok THEN Tail(todo) ELSE <<>>
           /\ UNCHANGED <<pending, bonded>>
  <2>1. Releasing /\ p \in Entry
    BY <1>1, <1>4, NextWrite
  <2>2. times = TimesPaid(key(p))
    BY DEF TimesPaid
  <2>. HIDE DEF p, credit, times
  <2>. QED
    BY <1>1, <1>4, <2>1, <2>2, CreditCoins DEF p, credit
<1>5. CASE /\ w.op = "remove"
           /\ pending' = [k \in DOMAIN pending \ {key(p)} |-> pending[k]]
           /\ todo' = Tail(todo)
           /\ UNCHANGED <<accounts, bonded, paid>>
  <2>1. Releasing /\ p \in Entry
    BY <1>1, <1>5, NextWrite
  <2>. QED
    BY <1>1, <1>5, <2>1, RemoveCoins
<1>. QED
  BY <1>2, <1>3, <1>4, <1>5 DEF Write, history

\* Every step keeps them.
LEMMA CoinsInvStep ==
    ASSUME CoinsInv, CoinsFit, [Next]_vars
    PROVE  CoinsInv'
<1>1. CASE UNCHANGED vars
  <2>1. UNCHANGED <<accounts, pending, todo, epoch, crashes, bonded, paid>>
    BY <1>1 DEF vars, db, history
  <2>2. QueueInv'
    BY <1>1, QueueInvStep DEF CoinsInv
  <2>3. KnownAccounts' /\ FreshKeys' /\ Planned' /\ PaidPerStop'
    BY <2>1 DEF CoinsInv, KnownAccounts, FreshKeys, Planned, PlannedCredit, PaidPerStop, TimesPaid
  <2>4. ASSUME NEW a \in DOMAIN Start PROVE Kept(a)' /\ Bounded(a)'
    <3>1. InFlight(a)' = InFlight(a)
      BY <2>1 DEF InFlight
    <3>. QED
      BY <2>1, <3>1, SameCoins
  <2>. QED
    BY <2>2, <2>3, <2>4 DEF CoinsInv
<1>2. epoch \in Nat /\ epoch + 1 \in Nat
  BY DEF CoinsInv, QueueInv, TypeOK
<1>3. CASE EpochBlock
  BY <1>2, <1>3, ProcessCoins DEF EpochBlock
<1>4. CASE EpochBlockAgain
  BY <1>2, <1>4, ProcessCoins DEF EpochBlockAgain
<1>. QED
  BY <1>1, <1>3, <1>4, RequestCoins, WriteCoins, CrashCoins DEF Next

\* Between calls the bounds are those of CoinsWithinStops: what is owed is part
\* of what is queued, and all of it while no entry was credited.
LEMMA CoinsBetweenCalls ==
    ASSUME CoinsInv
    PROVE  CoinsWithinStops
<1>1. ASSUME todo = <<>>, NEW a \in DOMAIN Start
      PROVE  LET total == Start[a].balance + Start[a].staked IN
             /\ Held(a) >= total - crashes * Max(Amounts)
             /\ crashes = 0 => Held(a) = total
  <2>1. PICK R, S : R = {k \in DOMAIN pending : k.to = a} /\ S = DOMAIN pending
    OBVIOUS
  <2>2. R \in SUBSET S /\ IsFiniteSet(S) /\ IsFiniteSet(R)
    BY <2>1, FS_Subset DEF CoinsInv, QueueInv
  <2>3. PICK f, g : f = Owed(a) /\ g = [k \in R |-> pending[k].amount]
    OBVIOUS
  <2>4. QueueInv /\ PaidPerStop
    BY DEF CoinsInv
  <2>5. /\ DOMAIN f = S /\ \A k \in S : f[k] \in Int
        /\ \A k \in S : pending[k].amount \in Nat /\ TimesPaid(k) \in Nat
    <3>1. MaxCrashes \in Nat
      BY QueueAssumption
    <3>. QED
      BY <2>1, <2>3, <2>4, <3>1, QueueNumbers
  <2>6. \A k \in S \ R : f[k] = 0
    BY <2>1, <2>3 DEF Owed
  <2>7. SumFunctionOnSet(f, S) = SumFunctionOnSet(f, R)
    BY <2>2, <2>5, <2>6, SumExtend
  <2>8. \A k \in R : f[k] = IF TimesPaid(k) = 0 THEN g[k] ELSE 0
    BY <2>1, <2>3 DEF Owed
  <2>9. \A k \in R : g[k] \in Nat /\ f[k] \in Int /\ f[k] <= g[k]
    BY <2>2, <2>3, <2>5, <2>8
  <2>10. SumFunctionOnSet(f, R) <= SumFunctionOnSet(g, R)
    BY <2>2, <2>9, SumMonotone
  <2>11. crashes = 0 => SumFunctionOnSet(f, R) = SumFunctionOnSet(g, R)
    <3>1. Len(todo) = 0
      BY <1>1
    <3>2. \A k \in S : TimesPaid(k) <= crashes
      BY <2>1, <2>4, <3>1 DEF PaidPerStop
    <3>3. crashes = 0 => \A k \in R : f[k] = g[k]
      BY <2>2, <2>5, <2>8, <3>2
    <3>. QED
      BY <2>2, <3>3, SumSame
  <2>12. InFlight(a) = 0
    BY <1>1 DEF InFlight
  <2>13. Held(a) = accounts[a].balance + accounts[a].staked + SumFunctionOnSet(g, R)
    <3>1. DOMAIN get_pending_unstakes(a) = R
      BY <2>1 DEF get_pending_unstakes
    <3>2. \A k \in R : get_pending_unstakes(a)[k].amount = pending[k].amount
      BY <2>1 DEF get_pending_unstakes
    <3>3. [k \in DOMAIN get_pending_unstakes(a) |-> get_pending_unstakes(a)[k].amount] = g
      BY <2>3, <3>1, <3>2
    <3>4. DOMAIN g = R
      BY <2>3
    <3>. QED
      BY <3>3, <3>4 DEF Held, SumFunction
  <2>14. PICK b \in Nat, s \in Nat, o \in Nat :
            /\ b = accounts[a].balance /\ s = accounts[a].staked /\ o = SumFunctionOnSet(f, R)
            /\ Now(a) = b + s + o + 0
    <3>1. SumFunction(Owed(a)) = SumFunctionOnSet(f, R)
      BY <2>3, <2>5, <2>7 DEF SumFunction
    <3>. QED
      BY <2>12, <3>1, CoinsNumbers DEF Now
  <2>15. PICK q \in Nat : q = SumFunctionOnSet(g, R)
    BY <2>2, <2>9, SumNat
  <2>16. PICK t \in Nat, y \in Nat :
            t = Start[a].balance + Start[a].staked /\ y = crashes * Max(Amounts)
    <3>1. crashes * Max(Amounts) \in Nat
      BY CoinsNumbers, LargestRequest
    <3>. QED
      BY <3>1, AccountNumbers
  <2>17. Now(a) >= t - y /\ (crashes = 0 => Now(a) = t)
    BY <2>16, CoinsNumbers DEF Kept
  <2>18. Held(a) = b + s + q /\ o <= q /\ (crashes = 0 => o = q)
    BY <2>10, <2>11, <2>13, <2>14, <2>15
  <2>19. Held(a) >= t - y /\ (crashes = 0 => Held(a) = t)
    BY <2>14, <2>17, <2>18
  <2>. QED
    BY <2>16, <2>19
<1>2. \A k \in DOMAIN paid : paid[k] <= 1 + crashes
  BY DEF CoinsInv, PaidPerStop
<1>. QED
  BY <1>1, <1>2 DEF CoinsWithinStops

-----------------------------------------------------------------------------
\* The queue, the stakes and the call that is running agree wherever the
\* process stops.
THEOREM WithdrawalsInvariant == Spec => []QueueInv
BY QueueInvInit, QueueInvStep, PTL DEF Spec

\* What stands in the queue has left the stake, and every amount is a u64:
\* request_unstake writes the account before the queue.
THEOREM WithdrawalsQueuedWasBonded == Spec => []QueuedWasBonded
<1>1. QueueInv => QueuedWasBonded
  BY DEF QueueInv, QueuedWasBonded
<1>. QED
  BY <1>1, WithdrawalsInvariant, PTL

\* No stop loses a matured withdrawal: process_matured_unstakes removes only
\* what it has credited.
THEOREM WithdrawalsRemovedWasPaid == Spec => RemovedWasPaid
<1>1. QueueInv /\ [Next]_vars
        => [\A k \in DOMAIN pending \ DOMAIN pending' : TimesPaid(k) >= 1]_vars
  BY RemovalStep
<1>. QED
  BY <1>1, WithdrawalsInvariant, PTL DEF Spec, RemovedWasPaid

\* However often the process stops, what an address has is short of what it
\* started with by one request per stop at most, and no withdrawal is paid more
\* than once and once more per stop, as long as no account could come to hold more
\* than a u64.
THEOREM WithdrawalsCoinsWithinStops ==
    ASSUME CoinsFit
    PROVE  Spec => []CoinsWithinStops
<1>1. CoinsInv /\ [Next]_vars => CoinsInv'
  BY CoinsInvStep
<1>2. Spec => []CoinsInv
  BY <1>1, CoinsInvInit, PTL DEF Spec
<1>3. CoinsInv => CoinsWithinStops
  BY CoinsBetweenCalls
<1>. QED
  BY <1>2, <1>3, PTL
=============================================================================
