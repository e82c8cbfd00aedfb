-------------------------- MODULE BlockRulesProofs --------------------------
(***************************************************************************)
(* Proofs about BlockRules, for any number of nodes and blocks, any clocks *)
(* and whatever transactions the blocks carry.  That nodes agree follows   *)
(* whatever a block does to the accounts; replay protection and that       *)
(* accepted payments apply need what it does to nonces and coins.          *)
(*                                                                         *)
(* The second part is about EpochPolicy, the numbers that the same chain   *)
(* carries from epoch to epoch, the third about Merkle: that a root may    *)
(* stand for its list of leaves, as in BlockRules, and that the proofs of  *)
(* generate_proof verify.                                                  *)
(***************************************************************************)
EXTENDS BlockRules, EpochPolicy, Merkle, CoinTheorems, SequenceTheorems

-----------------------------------------------------------------------------
(***************************************************************************)
(* The rules alone.                                                        *)
(***************************************************************************)

\* The consensus rules imply the producer's own check.
LEMMA RulesImplyCheck ==
    ASSUME NEW b, NEW txs, NEW t, NEW accts, NEW time \in Int, b.timestamp \in Nat,
           t.timestamp \in Nat, b.index # 0, validate_block_rules(b, txs, t, accts, time)
    PROVE  validate_block(b, txs, t, time)
<1>1. check_timestamp(b, t, time) /\ check_height(b, t) /\ check_previous_hash(b, t)
      /\ check_merkle_root(b, txs)
  BY DEF validate_block_rules
<1>2. b.timestamp >= t.timestamp /\ b.timestamp <= time + MAX_CLOCK_SKEW
  BY <1>1 DEF check_timestamp
<1>. QED
  BY <1>1, <1>2 DEF validate_block, check_height, check_previous_hash

-----------------------------------------------------------------------------
(***************************************************************************)
(* The inductive invariant.  Blocks are numbered and name their parent, so *)
(* there is one state for every block: the one its transactions lead to    *)
(* from the state of its parent.  Every node is in the state of its tip.   *)
(***************************************************************************)
StateOf(n) == [tip |-> tip[n], chain |-> chain[n], accounts |-> accounts[n]]

\* The state in which a node takes m, followed by the state after it.
After(s, m) ==
    [tip |-> advance(s.tip, m.block),
     chain |-> [h \in DOMAIN s.chain \cup {m.block.index} |->
                   IF h = m.block.index THEN m.block.hash ELSE s.chain[h]],
     accounts |-> ApplyAll(s.accounts, m.transactions).accts]

\* Blocks are numbered in the order they are made, and refer to earlier ones.
Headers ==
    /\ clock \in Nat
    /\ \E S : blocks \in Seq(S)
    /\ tip = [n \in Node |-> tip[n]]
    /\ chain = [n \in Node |-> chain[n]]
    /\ accounts = [n \in Node |-> accounts[n]]
    /\ \A n \in Node :
          /\ tip[n].hash \in 1..Len(blocks)
          /\ tip[n].height \in Nat /\ tip[n].timestamp \in Nat
    /\ \A m \in sent :
          /\ m.block.hash \in 2..Len(blocks)
          /\ m.block.previous_hash \in 1..Len(blocks)
          /\ m.block.index \in Nat \ {0} /\ m.block.timestamp \in Nat

\* F is the state after each block.
Determined(F) ==
    /\ \A m \in sent : F[m.block.hash] = After(F[m.block.previous_hash], m)
    /\ \A n \in Node : StateOf(n) = F[tip[n].hash]

\* The inductive invariant.
ChainInv == Headers /\ \E F : Determined(F)

\* Init: every node is in the state of the genesis block.
LEMMA ChainInvInit ==
    ASSUME Init, ~GenesisResent
    PROVE  ChainInv
<1> DEFINE s == [tip |-> advance(GenesisTip, GenesisBlock),
                 chain |-> [h \in {0} |-> GenesisBlock.hash], accounts |-> Start]
           F == [i \in {1} |-> s]
<1>1. /\ tip = [n \in Node |-> advance(GenesisTip, GenesisBlock)]
      /\ chain = [n \in Node |-> [h \in {0} |-> GenesisBlock.hash]]
      /\ accounts = [n \in Node |-> Start]
      /\ sent = {} /\ blocks = <<GenesisBlock>> /\ clock = GenesisBlock.timestamp
  BY DEF Init
<1>2. GenesisBlock.timestamp = 1 /\ GenesisBlock.hash = 1 /\ GenesisBlock.index = 0
  BY DEF GenesisBlock
<1>3. /\ advance(GenesisTip, GenesisBlock).hash = 1
      /\ advance(GenesisTip, GenesisBlock).height = 0
      /\ advance(GenesisTip, GenesisBlock).timestamp = 1
  BY <1>2 DEF advance
<1>4. blocks \in Seq({GenesisBlock}) /\ Len(blocks) = 1
  BY <1>1
<1>5. Headers
  <2>1. \A n \in Node : tip[n].hash = 1 /\ tip[n].height = 0 /\ tip[n].timestamp = 1
    BY <1>1, <1>3
  <2>2. /\ tip = [n \in Node |-> tip[n]] /\ chain = [n \in Node |-> chain[n]]
        /\ accounts = [n \in Node |-> accounts[n]]
    BY <1>1
  <2>3. clock \in Nat /\ sent = {}
    BY <1>1, <1>2
  <2>. QED
    BY <1>4, <2>1, <2>2, <2>3 DEF Headers
<1>6. Determined(F)
  BY <1>1, <1>3 DEF Determined, StateOf
<1>. HIDE DEF F
<1>. QED
  BY <1>5, <1>6 DEF ChainInv

\* The clock is no part of a node's state.
LEMMA TickKeeps ==
    ASSUME ChainInv, Tick
    PROVE  ChainInv'
<1>1. UNCHANGED <<blocks, sent, tip, accounts, chain>> /\ clock' = clock + 1
  BY DEF Tick
<1>2. Headers'
  BY <1>1 DEF ChainInv, Headers
<1>3. PICK F : Determined(F)
  BY DEF ChainInv
<1>4. Determined(F)'
  BY <1>1, <1>3 DEF Determined, StateOf
<1>. QED
  BY <1>2, <1>4 DEF ChainInv

\* A new block gets a number and a state of its own.
LEMMA BroadcastKeeps ==
    ASSUME ChainInv, NEW n \in Node, NEW b, NEW txs, Broadcast(b, txs),
           b.hash = Len(blocks) + 1, b.previous_hash = tip[n].hash,
           b.index = tip[n].height + 1, b.timestamp = now(n)
    PROVE  ChainInv'
<1> DEFINE new == [block |-> b, transactions |-> txs]
<1>1. /\ blocks' = Append(blocks, b) /\ sent' = sent \cup {new}
      /\ UNCHANGED <<clock, tip, accounts, chain>>
  BY DEF Broadcast
<1>2. PICK S : blocks \in Seq(S)
  BY DEF ChainInv, Headers
<1>3. Len(blocks) \in Nat
  BY <1>2
<1>4. blocks' \in Seq(S \cup {b}) /\ Len(blocks') = Len(blocks) + 1
  BY <1>1, <1>2
<1>5. b.timestamp \in Nat /\ b.index \in Nat \ {0} /\ tip[n].hash \in 1..Len(blocks)
  BY ClockAssumption DEF ChainInv, Headers, now
<1>6. Headers'
  <2>1. new.block = b
    OBVIOUS
  <2>. HIDE DEF new
  <2>2. \A m \in sent' : /\ m.block.hash \in 2..Len(blocks')
                         /\ m.block.previous_hash \in 1..Len(blocks')
                         /\ m.block.index \in Nat \ {0} /\ m.block.timestamp \in Nat
    BY <1>1, <1>3, <1>4, <1>5, <2>1 DEF ChainInv, Headers
  <2>3. \A k \in Node : tip[k].hash \in 1..Len(blocks')
    BY <1>3, <1>4 DEF ChainInv, Headers
  <2>. QED
    BY <1>1, <1>4, <2>2, <2>3 DEF ChainInv, Headers
<1>7. PICK F : Determined(F)
  BY DEF ChainInv
<1> DEFINE G == [i \in 1..(Len(blocks) + 1) |->
                   IF i = Len(blocks) + 1 THEN After(F[tip[n].hash], new) ELSE F[i]]
<1>8. \A i \in 1..Len(blocks) : G[i] = F[i]
  BY <1>3
<1>9. G[Len(blocks) + 1] = After(F[tip[n].hash], new)
  BY <1>3
<1>. HIDE DEF G
<1>10. PICK H : H = G
  OBVIOUS
<1>11. \A m \in sent : H[m.block.hash] = After(H[m.block.previous_hash], m)
  <2>1. \A m \in sent : m.block.hash \in 1..Len(blocks) /\ m.block.previous_hash \in 1..Len(blocks)
    BY <1>3 DEF ChainInv, Headers
  <2>. QED
    BY <1>7, <1>8, <1>10, <2>1 DEF Determined
<1>12. H[new.block.hash] = After(H[new.block.previous_hash], new)
  BY <1>5, <1>8, <1>9, <1>10
<1>13. \A k \in Node : StateOf(k)' = H[tip'[k].hash]
  <2>1. \A k \in Node : tip[k].hash \in 1..Len(blocks)
    BY DEF ChainInv, Headers
  <2>. QED
    BY <1>1, <1>7, <1>8, <1>10, <2>1 DEF Determined, StateOf
<1>14. Determined(H)'
  BY <1>1, <1>11, <1>12, <1>13 DEF Determined
<1>. QED
  BY <1>6, <1>14 DEF ChainInv

\* A node that takes a block goes from the state of the block's parent to the
\* state of the block.
LEMMA ReceiveKeeps ==
    ASSUME ChainInv, NEW n \in Node, NEW m \in sent, ReceiveBlock(n, m)
    PROVE  ChainInv'
<1>1. /\ accepts(n, m)
      /\ accounts' = [accounts EXCEPT ![n] = ApplyAll(accounts[n], m.transactions).accts]
      /\ tip' = [tip EXCEPT ![n] = advance(tip[n], m.block)]
      /\ chain' = [chain EXCEPT ![n] =
                     [h \in DOMAIN chain[n] \cup {m.block.index} |->
                         IF h = m.block.index THEN m.block.hash ELSE chain[n][h]]]
      /\ UNCHANGED <<clock, blocks, sent>>
  BY DEF ReceiveBlock
<1>2. /\ m.block.hash \in 2..Len(blocks) /\ m.block.index \in Nat \ {0}
      /\ m.block.timestamp \in Nat
  BY DEF ChainInv, Headers
<1>3. m.block.previous_hash = tip[n].hash
  BY <1>1, <1>2 DEF accepts, validate_block_rules, check_previous_hash
<1>4. /\ tip = [k \in Node |-> tip[k]] /\ chain = [k \in Node |-> chain[k]]
      /\ accounts = [k \in Node |-> accounts[k]]
  BY DEF ChainInv, Headers
<1>5. StateOf(n)' = After(StateOf(n), m)
  BY <1>1, <1>4 DEF StateOf, After
<1>6. \A k \in Node : k # n => StateOf(k)' = StateOf(k) /\ tip'[k] = tip[k]
  BY <1>1, <1>4 DEF StateOf
<1>7. /\ tip'[n] = advance(tip[n], m.block)
      /\ tip'[n].hash = m.block.hash /\ tip'[n].height = m.block.index
      /\ tip'[n].timestamp = m.block.timestamp
  BY <1>1, <1>4 DEF advance
<1>8. Headers'
  <2>1. /\ tip' = [k \in Node |-> tip'[k]] /\ chain' = [k \in Node |-> chain'[k]]
        /\ accounts' = [k \in Node |-> accounts'[k]]
    BY <1>1, <1>4
  <2>2. \A k \in Node : /\ tip'[k].hash \in 1..Len(blocks)
                        /\ tip'[k].height \in Nat /\ tip'[k].timestamp \in Nat
    BY <1>2, <1>6, <1>7 DEF ChainInv, Headers
  <2>. QED
    BY <1>1, <2>1, <2>2 DEF ChainInv, Headers
<1>9. PICK F : Determined(F)
  BY DEF ChainInv
<1>10. StateOf(n)' = F[tip'[n].hash]
  BY <1>3, <1>5, <1>7, <1>9 DEF Determined
<1>11. Determined(F)'
  BY <1>1, <1>6, <1>9, <1>10 DEF Determined
<1>. QED
  BY <1>8, <1>11 DEF ChainInv

\* Every step keeps the invariant.
LEMMA ChainInvStep ==
    ASSUME ChainInv, [Next]_vars
    PROVE  ChainInv'
<1>1. CASE UNCHANGED vars
  BY <1>1 DEF vars, ChainInv, Headers, Determined, StateOf
<1>2. ASSUME NEW n \in Node, NEW txs \in TxLists, ProduceMicroBlock(n, txs)
      PROVE  ChainInv'
  <2> DEFINE b == produce_micro_block(tip[n], now(n), Len(blocks) + 1, txs)
  <2>1. /\ b.hash = Len(blocks) + 1 /\ b.previous_hash = tip[n].hash
        /\ b.index = tip[n].height + 1 /\ b.timestamp = now(n)
    BY DEF produce_micro_block
  <2>2. Broadcast(b, txs)
    BY <1>2 DEF ProduceMicroBlock
  <2>. HIDE DEF b
  <2>. QED
    BY <2>1, <2>2, BroadcastKeeps
<1>3. ASSUME NEW n \in Node, ProduceEpochBlock(n)
      PROVE  ChainInv'
  <2> DEFINE b == produce_epoch_block(tip[n], now(n), Len(blocks) + 1, micro_block_hashes(n))
  <2>1. /\ b.hash = Len(blocks) + 1 /\ b.previous_hash = tip[n].hash
        /\ b.index = tip[n].height + 1 /\ b.timestamp = now(n)
    BY DEF produce_epoch_block
  <2>2. Broadcast(b, <<build_coinbase(b.epoch_index, b.hash)>>)
    BY <1>3 DEF ProduceEpochBlock
  <2>. HIDE DEF b
  <2>. QED
    BY <2>1, <2>2, BroadcastKeeps
<1>. QED
  BY <1>1, <1>2, <1>3, TickKeeps, ReceiveKeeps DEF Next

-----------------------------------------------------------------------------
\* Every block has one state, and every node is in the state of its tip.
THEOREM BlockRulesInvariant == ASSUME ~GenesisResent PROVE Spec => []ChainInv
BY ChainInvInit, ChainInvStep, PTL DEF Spec

\* Whatever the order in which blocks arrive, and however often, two nodes with
\* the same tip have the same chain and the same accounts, as long as no peer
\* sends the genesis block again (validate_block_rules takes it at any height).
THEOREM BlockRulesSameTipSameState == ASSUME ~GenesisResent PROVE Spec => []SameTipSameState
<1>1. ChainInv => SameTipSameState
  <2>1. ASSUME ChainInv, NEW m \in Node, NEW n \in Node, tip[m].hash = tip[n].hash
        PROVE  StateOf(m) = StateOf(n)
    BY <2>1 DEF ChainInv, Determined
  <2>. QED
    BY <2>1 DEF SameTipSameState, StateOf
<1>. QED
  BY <1>1, BlockRulesInvariant, PTL

-----------------------------------------------------------------------------
(***************************************************************************)
(* The clocks.                                                             *)
(***************************************************************************)
Times ==
    /\ clock \in Nat
    /\ tip = [n \in Node |-> tip[n]]
    /\ \A n \in Node : tip[n].timestamp \in Nat
    /\ \A m \in sent : m.block.timestamp \in Nat

\* Blocks carry the clock of the node that made them.
THEOREM BlockRulesTimes == Spec => []Times
<1>1. Init => Times
  <2> SUFFICES ASSUME Init PROVE Times
    OBVIOUS
  <2>1. GenesisBlock.timestamp = 1 /\ advance(GenesisTip, GenesisBlock).timestamp = 1
    BY DEF GenesisBlock, advance
  <2>2. /\ tip = [n \in Node |-> advance(GenesisTip, GenesisBlock)] /\ clock = 1
        /\ \A m \in sent : m.block = GenesisBlock
    BY <2>1 DEF Init
  <2>. QED
    BY <2>1, <2>2 DEF Times
<1>2. Times /\ [Next]_vars => Times'
  <2> SUFFICES ASSUME Times, [Next]_vars PROVE Times'
    OBVIOUS
  <2>1. CASE UNCHANGED vars
    BY <2>1 DEF vars, Times
  <2>2. CASE Tick
    BY <2>2 DEF Tick, Times
  <2>3. ASSUME NEW n \in Node, NEW b, NEW txs, Broadcast(b, txs), b.timestamp = now(n)
        PROVE  Times'
    <3>1. b.timestamp \in Nat
      BY <2>3, ClockAssumption DEF Times, now
    <3>. QED
      BY <2>3, <3>1 DEF Broadcast, Times
  <2>4. ASSUME NEW n \in Node, NEW txs \in TxLists, ProduceMicroBlock(n, txs)
        PROVE  Times'
    <3> DEFINE b == produce_micro_block(tip[n], now(n), Len(blocks) + 1, txs)
    <3>1. b.timestamp = now(n)
      BY DEF produce_micro_block
    <3>. HIDE DEF b
    <3>. QED
      BY <2>3, <2>4, <3>1 DEF ProduceMicroBlock, b
  <2>5. ASSUME NEW n \in Node, ProduceEpochBlock(n)
        PROVE  Times'
    <3> DEFINE b == produce_epoch_block(tip[n], now(n), Len(blocks) + 1, micro_block_hashes(n))
    <3>1. b.timestamp = now(n)
      BY DEF produce_epoch_block
    <3>2. Broadcast(b, <<build_coinbase(b.epoch_index, b.hash)>>)
      BY <2>5 DEF ProduceEpochBlock
    <3>. HIDE DEF b
    <3>. QED
      BY <2>3, <3>1, <3>2
  <2>6. ASSUME NEW n \in Node, NEW m \in sent, ReceiveBlock(n, m)
        PROVE  Times'
    <3>1. /\ tip' = [tip EXCEPT ![n] = advance(tip[n], m.block)]
          /\ UNCHANGED <<clock, sent>>
      BY <2>6 DEF ReceiveBlock
    <3>2. advance(tip[n], m.block).timestamp = m.block.timestamp
      BY DEF advance
    <3>. HIDE DEF advance
    <3>. QED
      BY <3>1, <3>2 DEF Times
  <2>. QED
    BY <2>1, <2>2, <2>4, <2>5, <2>6 DEF Next
<1>. QED
  BY <1>1, <1>2, PTL DEF Spec

\* The consensus rules never accept what the producer's validate_block refuses.
THEOREM BlockRulesRulesImplyValidateBlock == Spec => []RulesImplyValidateBlock
<1>1. Times => RulesImplyValidateBlock
  <2>1. ASSUME Times, NEW n \in Node, NEW m \in sent, m.block.index > 0, accepts(n, m)
        PROVE  validate_block(m.block, m.transactions, tip[n], now(n))
    <3>1. now(n) \in Int /\ m.block.timestamp \in Nat /\ tip[n].timestamp \in Nat
      BY <2>1, ClockAssumption DEF Times, now
    <3>2. m.block.index # 0
      BY <2>1
    <3>. QED
      BY <2>1, <3>1, <3>2, RulesImplyCheck DEF accepts
  <2>. QED
    BY <2>1 DEF RulesImplyValidateBlock
<1>. QED
  BY <1>1, BlockRulesTimes, PTL

-----------------------------------------------------------------------------
(***************************************************************************)
(* What the transactions of a block do to nonces, balances and the coins   *)
(* in the tree.                                                            *)
(***************************************************************************)
\* Nonce and balance as a call loads them, stored or not.
NonceOf(f, a) == get_or_create_account(f, a).nonce
BalanceOf(f, a) == get_or_create_account(f, a).balance

\* They are numbers.
LEMMA LoadedNumbers ==
    ASSUME NEW f, IsAccountMap(f), NEW a
    PROVE  NonceOf(f, a) \in Nat /\ BalanceOf(f, a) \in Nat
  BY LoadedAccount, AccountFields DEF NonceOf, BalanceOf

\* Saving an account sets its own nonce and balance and no other's.
LEMMA SavedNumbers ==
    ASSUME NEW f, NEW a, NEW acc, NEW b
    PROVE  LET g == save_account(f, a, acc) IN
           /\ NonceOf(g, b) = IF b = a THEN acc.nonce ELSE NonceOf(f, b)
           /\ BalanceOf(g, b) = IF b = a THEN acc.balance ELSE BalanceOf(f, b)
  BY DEF NonceOf, BalanceOf, get_or_create_account, save_account

\* Nobody is charged, and at most n coins are new.
Gains(f, g, n) ==
    /\ IsAccountMap(g)
    /\ TotalBalance(g) <= TotalBalance(f) + n
    /\ \A b : NonceOf(g, b) = NonceOf(f, b) /\ BalanceOf(g, b) >= BalanceOf(f, b)

\* A tree has a number of coins.
LEMMA TotalNat ==
    ASSUME NEW f, IsAccountMap(f)
    PROVE  TotalBalance(f) \in Nat
  BY HoldingBound, TreasuryAssumption

\* credit_account, successful or not.
LEMMA CreditGains ==
    ASSUME NEW f, IsAccountMap(f), NEW a \in Address, NEW n \in Nat
    PROVE  Gains(f, credit_account(f, a, n).accts, n)
<1> DEFINE acc == get_or_create_account(f, a)
           new == Credited(acc, n)
           g == save_account(f, a, new)
<1>1. acc \in Account /\ TotalBalance(f) \in Nat
  BY LoadedAccount, TotalNat
<1>2. CASE acc.balance + n \in U64
  <2>1. credit_account(f, a, n).accts = g
    BY <1>2 DEF credit_account, Ok
  <2>2. new \in Account /\ new.balance = acc.balance + n /\ new.nonce = acc.nonce
        /\ Coins(new) = Coins(acc) + n
    <3>. HIDE DEF acc
    <3>. QED
      BY <1>1, <1>2, CreditedAccount
  <2>3. Coins(acc) \in Nat /\ acc.balance \in Nat
    <3>. HIDE DEF acc
    <3>. QED
      BY <1>1, AccountFields DEF Coins
  <2>. HIDE DEF new
  <2>4. IsAccountMap(g) /\ TotalBalance(g) = TotalBalance(f) - Coins(acc) + Coins(new)
    BY <2>2, SavedAccount
  <2>5. \A b : /\ NonceOf(g, b) = IF b = a THEN new.nonce ELSE NonceOf(f, b)
               /\ BalanceOf(g, b) = IF b = a THEN new.balance ELSE BalanceOf(f, b)
    BY SavedNumbers
  <2>6. NonceOf(f, a) = acc.nonce /\ BalanceOf(f, a) = acc.balance
    BY DEF NonceOf, BalanceOf
  <2>7. \A b : BalanceOf(f, b) \in Nat
    BY LoadedNumbers
  <2>. HIDE DEF g, acc
  <2>8. TotalBalance(g) = TotalBalance(f) + n
    BY <1>1, <2>2, <2>3, <2>4
  <2>9. \A b : NonceOf(g, b) = NonceOf(f, b) /\ BalanceOf(g, b) >= BalanceOf(f, b)
    BY <2>2, <2>3, <2>5, <2>6, <2>7
  <2>. QED
    BY <1>1, <2>1, <2>4, <2>8, <2>9 DEF Gains
<1>3. CASE acc.balance + n \notin U64
  <2>1. credit_account(f, a, n).accts = f
    BY <1>3 DEF credit_account, Err
  <2>2. \A b : BalanceOf(f, b) \in Nat
    BY LoadedNumbers
  <2>. QED
    BY <1>1, <2>1, <2>2 DEF Gains
<1>. QED
  BY <1>2, <1>3

\* The treasury's share of a fee is at most the fee.
LEMMA FeeSplitGains ==
    ASSUME NEW f, IsAccountMap(f), NEW fee \in Nat
    PROVE  Gains(f, apply_fee_split(f, fee).accts, fee)
<1>1. PICK n \in Nat : n = fee \div 10 /\ n <= fee
  OBVIOUS
<1>2. TotalBalance(f) \in Nat
  BY TotalNat
<1>3. CASE n > 0
  <2>1. apply_fee_split(f, fee).accts = credit_account(f, Treasury, n).accts
    BY <1>1, <1>3 DEF apply_fee_split
  <2>2. Gains(f, credit_account(f, Treasury, n).accts, n)
    BY CreditGains, TreasuryAssumption
  <2>3. TotalBalance(credit_account(f, Treasury, n).accts) \in Nat
    BY <2>2, TotalNat DEF Gains
  <2>. QED
    BY <1>1, <1>2, <2>1, <2>2, <2>3 DEF Gains
<1>4. CASE ~(n > 0)
  <2>1. apply_fee_split(f, fee).accts = f
    BY <1>1, <1>4 DEF apply_fee_split, Ok
  <2>2. \A b : BalanceOf(f, b) \in Nat
    BY LoadedNumbers
  <2>. QED
    BY <1>1, <1>2, <2>1, <2>2 DEF Gains
<1>. QED
  BY <1>3, <1>4

\* A transaction of a with nonce k that was applied: it used up that nonce, and
\* charged nobody else.
Applied(f, g, a, k) ==
    /\ IsAccountMap(g)
    /\ TotalBalance(g) <= TotalBalance(f)
    /\ NonceOf(f, a) = k /\ NonceOf(g, a) = k + 1
    /\ \A b : b # a => NonceOf(g, b) = NonceOf(f, b) /\ BalanceOf(g, b) >= BalanceOf(f, b)

\* The sender's account saved with n coins less.
Charged(f, g, a, k, n) ==
    /\ IsAccountMap(g)
    /\ TotalBalance(g) = TotalBalance(f) - n
    /\ NonceOf(f, a) = k /\ NonceOf(g, a) = k + 1
    /\ \A b : b # a => NonceOf(g, b) = NonceOf(f, b) /\ BalanceOf(g, b) = BalanceOf(f, b)

\* Saving such an account.
LEMMA SaveCharged ==
    ASSUME NEW f, IsAccountMap(f), NEW a \in Address, NEW acc \in Account, NEW n \in Nat,
           acc.nonce = NonceOf(f, a) + 1,
           Coins(acc) = Coins(get_or_create_account(f, a)) - n
    PROVE  Charged(f, save_account(f, a, acc), a, NonceOf(f, a), n)
<1> DEFINE g == save_account(f, a, acc)
           old == get_or_create_account(f, a)
<1>1. old \in Account
  BY LoadedAccount
<1>2. Coins(old) \in Nat
  <2>. HIDE DEF old
  <2>. QED
    BY <1>1, AccountFields DEF Coins
<1>3. /\ IsAccountMap(g) /\ TotalBalance(f) \in Nat
      /\ TotalBalance(g) = TotalBalance(f) - Coins(old) + Coins(acc)
  BY SavedAccount
<1>4. \A b : /\ NonceOf(g, b) = IF b = a THEN acc.nonce ELSE NonceOf(f, b)
             /\ BalanceOf(g, b) = IF b = a THEN acc.balance ELSE BalanceOf(f, b)
  BY SavedNumbers
<1>5. Coins(acc) = Coins(old) - n
  OBVIOUS
<1>. HIDE DEF g, old
<1>6. TotalBalance(g) = TotalBalance(f) - n
  BY <1>2, <1>3, <1>5
<1>7. Charged(f, g, a, NonceOf(f, a), n)
  BY <1>3, <1>4, <1>6 DEF Charged
<1>. QED
  BY <1>7 DEF g

\* A charge of n followed by n coins to others and a gain of m already paid for.
LEMMA ChargedThenGains ==
    ASSUME NEW f, IsAccountMap(f), NEW g, NEW h, NEW a, NEW k, NEW n \in Nat, NEW m \in Nat,
           m <= n, Charged(f, g, a, k, n), Gains(g, h, m)
    PROVE  Applied(f, h, a, k)
<1>1. TotalBalance(f) \in Nat /\ TotalBalance(g) \in Nat /\ TotalBalance(h) \in Nat
  BY TotalNat DEF Charged, Gains
<1>2. TotalBalance(h) <= TotalBalance(f)
  BY <1>1 DEF Charged, Gains
<1>. QED
  BY <1>2 DEF Charged, Gains, Applied

\* Two gains in a row.
LEMMA GainsTwice ==
    ASSUME NEW f, IsAccountMap(f), NEW g, NEW h, NEW n \in Nat, NEW m \in Nat,
           Gains(f, g, n), Gains(g, h, m)
    PROVE  Gains(f, h, n + m)
<1>1. TotalBalance(f) \in Nat /\ TotalBalance(g) \in Nat /\ TotalBalance(h) \in Nat
  BY TotalNat DEF Gains
<1>2. \A b : BalanceOf(f, b) \in Nat /\ BalanceOf(g, b) \in Nat /\ BalanceOf(h, b) \in Nat
  BY LoadedNumbers DEF Gains
<1>3. TotalBalance(h) <= TotalBalance(f) + (n + m)
  BY <1>1 DEF Gains
<1>. QED
  BY <1>2, <1>3 DEF Gains

\* The three handlers that rewrite only the sender before the fee is split.
LEMMA SenderOnlyApplied ==
    ASSUME NEW f, IsAccountMap(f), NEW a \in Address, NEW acc \in Account, NEW fee \in Nat,
           acc.nonce = NonceOf(f, a) + 1,
           Coins(acc) = Coins(get_or_create_account(f, a)) - fee
    PROVE  Applied(f, apply_fee_split(save_account(f, a, acc), fee).accts, a, NonceOf(f, a))
<1> DEFINE g == save_account(f, a, acc)
<1>1. Charged(f, g, a, NonceOf(f, a), fee)
  BY SaveCharged
<1>. HIDE DEF g
<1>2. Gains(g, apply_fee_split(g, fee).accts, fee)
  BY <1>1, FeeSplitGains DEF Charged
<1>3. fee <= fee
  OBVIOUS
<1>4. PICK k : k = NonceOf(f, a)
  OBVIOUS
<1>5. Applied(f, apply_fee_split(g, fee).accts, a, k)
  BY <1>1, <1>2, <1>3, <1>4, ChargedThenGains
<1>. QED
  BY <1>4, <1>5 DEF g

\* The numbers of a transaction and of its sender's account.
LEMMA SenderNumbers ==
    ASSUME NEW f, IsAccountMap(f), NEW tx \in Transaction
    PROVE  LET acc == get_or_create_account(f, tx.sender) IN
           /\ acc \in Account
           /\ acc.balance \in U64 /\ acc.staked \in U64
           /\ acc.balance \in Nat /\ acc.staked \in Nat /\ acc.nonce + 1 \in Nat
           /\ acc.nonce = NonceOf(f, tx.sender)
           /\ tx.amount \in Nat /\ tx.fee \in Nat
           /\ tx.sender \in Address /\ tx.receiver \in Address
<1>1. get_or_create_account(f, tx.sender) \in Account
  BY LoadedAccount
<1>2. /\ tx.amount \in Nat /\ tx.fee \in Nat
      /\ tx.sender \in Address /\ tx.receiver \in Address
  BY WidthAssumption DEF Transaction, U64
<1>3. get_or_create_account(f, tx.sender).nonce = NonceOf(f, tx.sender)
  BY DEF NonceOf
<1>. QED
  BY <1>1, <1>2, <1>3, AccountFields

\* apply_stake_lock.
LEMMA StakeLockApplied ==
    ASSUME NEW f, IsAccountMap(f), NEW tx \in Transaction, apply_stake_lock(f, tx).ok
    PROVE  Applied(f, apply_stake_lock(f, tx).accts, tx.sender, tx.nonce)
<1> DEFINE acc == get_or_create_account(f, tx.sender)
           cost == tx.amount + tx.fee
           own == update_validator_tier(
                    Revised(acc, acc.balance - cost, acc.staked + tx.amount, acc.nonce + 1))
<1>1. /\ ~(acc.balance < cost) /\ acc.nonce = tx.nonce /\ acc.staked + tx.amount \in U64
      /\ apply_stake_lock(f, tx) = apply_fee_split(save_account(f, tx.sender, own), tx.fee)
  BY DEF apply_stake_lock, sender_after_stake_lock, Err
<1>2. /\ acc \in Account /\ acc.balance \in U64 /\ acc.balance \in Nat /\ acc.staked \in Nat
      /\ acc.nonce + 1 \in Nat /\ acc.nonce = NonceOf(f, tx.sender)
      /\ tx.amount \in Nat /\ tx.fee \in Nat /\ tx.sender \in Address
  BY SenderNumbers
<1>. HIDE DEF acc
<1>3. acc.balance - cost \in U64
  BY <1>1, <1>2, WidthAssumption DEF U64
<1>4. /\ own \in Account /\ own.balance = acc.balance - cost
      /\ own.staked = acc.staked + tx.amount /\ own.nonce = acc.nonce + 1
  BY <1>1, <1>2, <1>3, RevisedAccount
<1>. HIDE DEF own
<1>5. Coins(own) = Coins(acc) - tx.fee
  BY <1>2, <1>4 DEF Coins
<1>. QED
  BY <1>1, <1>2, <1>4, <1>5, SenderOnlyApplied DEF acc

\* apply_stake_unlock.
LEMMA StakeUnlockApplied ==
    ASSUME NEW f, IsAccountMap(f), NEW tx \in Transaction, apply_stake_unlock(f, tx).ok
    PROVE  Applied(f, apply_stake_unlock(f, tx).accts, tx.sender, tx.nonce)
<1> DEFINE acc == get_or_create_account(f, tx.sender)
           own == update_validator_tier(
                    Revised(acc, acc.balance + tx.amount - tx.fee, acc.staked - tx.amount,
                            acc.nonce + 1))
<1>1. /\ ~(acc.staked < tx.amount) /\ ~(acc.balance < tx.fee) /\ acc.nonce = tx.nonce
      /\ acc.balance + tx.amount \in U64
      /\ apply_stake_unlock(f, tx) = apply_fee_split(save_account(f, tx.sender, own), tx.fee)
  BY DEF apply_stake_unlock, sender_after_stake_unlock, Err
<1>2. /\ acc \in Account /\ acc.staked \in U64 /\ acc.balance \in Nat /\ acc.staked \in Nat
      /\ acc.nonce + 1 \in Nat /\ acc.nonce = NonceOf(f, tx.sender)
      /\ tx.amount \in Nat /\ tx.fee \in Nat /\ tx.sender \in Address
  BY SenderNumbers
<1>. HIDE DEF acc
<1>3. acc.balance + tx.amount - tx.fee \in U64 /\ acc.staked - tx.amount \in U64
  BY <1>1, <1>2, WidthAssumption DEF U64
<1>4. /\ own \in Account /\ own.balance = acc.balance + tx.amount - tx.fee
      /\ own.staked = acc.staked - tx.amount /\ own.nonce = acc.nonce + 1
  BY <1>1, <1>2, <1>3, RevisedAccount
<1>. HIDE DEF own
<1>5. Coins(own) = Coins(acc) - tx.fee
  BY <1>2, <1>4 DEF Coins
<1>. QED
  BY <1>1, <1>2, <1>4, <1>5, SenderOnlyApplied DEF acc

\* apply_fee_only: what a fee the sender can pay does, and that it is enough.
LEMMA FeeOnlyApplied ==
    ASSUME NEW f, IsAccountMap(f), NEW tx \in Transaction
    PROVE  LET r == apply_fee_only(f, tx) IN
           /\ r.ok => Applied(f, r.accts, tx.sender, tx.nonce)
           /\ /\ TotalBalance(f) <= MaxU64 /\ NonceOf(f, tx.sender) = tx.nonce
              /\ BalanceOf(f, tx.sender) >= tx.fee
              => r.ok
<1> DEFINE acc == get_or_create_account(f, tx.sender)
           own == Revised(acc, acc.balance - tx.fee, acc.staked, acc.nonce + 1)
           g == save_account(f, tx.sender, own)
           refused == acc.balance < tx.fee \/ acc.nonce # tx.nonce
<1>1. apply_fee_only(f, tx) = IF refused THEN Err(f) ELSE apply_fee_split(g, tx.fee)
  BY DEF apply_fee_only, sender_after_fee_only
<1>2. /\ acc \in Account /\ acc.balance \in U64 /\ acc.staked \in U64
      /\ acc.balance \in Nat /\ acc.staked \in Nat
      /\ acc.nonce + 1 \in Nat /\ acc.nonce = NonceOf(f, tx.sender)
      /\ tx.fee \in Nat /\ tx.sender \in Address
  BY SenderNumbers
<1>3. acc.balance = BalanceOf(f, tx.sender)
  BY DEF BalanceOf
<1>4. CASE refused
  <2>1. ~apply_fee_only(f, tx).ok
    BY <1>1, <1>4 DEF Err
  <2>2. ~(NonceOf(f, tx.sender) = tx.nonce /\ BalanceOf(f, tx.sender) >= tx.fee)
    <3>. HIDE DEF acc
    <3>. QED
      BY <1>2, <1>3, <1>4
  <2>. QED
    BY <2>1, <2>2
<1>5. CASE ~refused
  <2>. HIDE DEF acc
  <2>1. acc.balance - tx.fee \in U64
    BY <1>2, <1>5, WidthAssumption DEF U64
  <2>2. /\ own \in Account /\ own.balance = acc.balance - tx.fee
        /\ own.staked = acc.staked /\ own.nonce = acc.nonce + 1
    BY <1>2, <2>1, RevisedAccount
  <2>. HIDE DEF own
  <2>3. Coins(own) = Coins(acc) - tx.fee
    BY <1>2, <2>2 DEF Coins
  <2>4. Applied(f, apply_fee_split(g, tx.fee).accts, tx.sender, acc.nonce)
    BY <1>2, <2>2, <2>3, SenderOnlyApplied DEF acc
  <2>5. ASSUME TotalBalance(f) <= MaxU64
        PROVE  apply_fee_split(g, tx.fee).ok
    <3>1. Charged(f, g, tx.sender, NonceOf(f, tx.sender), tx.fee)
      BY <1>2, <2>2, <2>3, SaveCharged DEF acc
    <3>. HIDE DEF g
    <3>2. IsAccountMap(g) /\ TotalBalance(g) = TotalBalance(f) - tx.fee
      BY <3>1 DEF Charged
    <3>3. TotalBalance(f) \in Nat
      BY TotalNat
    <3>4. TotalBalance(g) + tx.fee \div 10 <= MaxU64
      BY <1>2, <2>5, <3>2, <3>3, WidthAssumption
    <3>. QED
      BY <1>2, <3>2, <3>4, FeeSplitTotals
  <2>. HIDE DEF g
  <2>. QED
    BY <1>1, <1>5, <2>4, <2>5
<1>. QED
  BY <1>4, <1>5

\* apply_transfer: what it does, and that a sender who can pay is enough.
LEMMA TransferApplied ==
    ASSUME NEW f, IsAccountMap(f), NEW tx \in Transaction
    PROVE  LET r == apply_transfer(f, tx) IN
           /\ r.ok => Applied(f, r.accts, tx.sender, tx.nonce)
           /\ /\ TotalBalance(f) <= MaxU64 /\ NonceOf(f, tx.sender) = tx.nonce
              /\ tx.amount + tx.fee \in U64 /\ BalanceOf(f, tx.sender) >= tx.amount + tx.fee
              => r.ok
<1> DEFINE acc == get_or_create_account(f, tx.sender)
           cost == tx.amount + tx.fee
           own == Revised(acc, acc.balance - cost, acc.staked, acc.nonce + 1)
           g == save_account(f, tx.sender, own)
           paid == credit_account(g, tx.receiver, tx.amount)
           h == paid.accts
           split == apply_fee_split(h, tx.fee)
           refused == cost \notin U64 \/ acc.balance < cost \/ acc.nonce # tx.nonce
<1>1. apply_transfer(f, tx) = IF refused THEN Err(f) ELSE IF paid.ok THEN split ELSE Err(g)
  BY DEF apply_transfer, sender_after_transfer
<1>2. /\ acc \in Account /\ acc.balance \in U64 /\ acc.staked \in U64
      /\ acc.balance \in Nat /\ acc.staked \in Nat
      /\ acc.nonce + 1 \in Nat /\ acc.nonce = NonceOf(f, tx.sender)
      /\ tx.amount \in Nat /\ tx.fee \in Nat /\ tx.sender \in Address /\ tx.receiver \in Address
  BY SenderNumbers
<1>3. acc.balance = BalanceOf(f, tx.sender)
  BY DEF BalanceOf
<1>4. cost \in Nat /\ cost = tx.amount + tx.fee
  BY <1>2
<1>5. CASE refused
  <2>1. ~apply_transfer(f, tx).ok
    BY <1>1, <1>5 DEF Err
  <2>2. ~(/\ NonceOf(f, tx.sender) = tx.nonce /\ tx.amount + tx.fee \in U64
          /\ BalanceOf(f, tx.sender) >= tx.amount + tx.fee)
    <3>. HIDE DEF acc
    <3>. QED
      BY <1>2, <1>3, <1>5
  <2>. QED
    BY <2>1, <2>2
<1>6. CASE ~refused
  <2>. HIDE DEF acc, cost
  <2>1. acc.balance - cost \in U64
    BY <1>2, <1>4, <1>6, WidthAssumption DEF U64
  <2>2. /\ own \in Account /\ own.balance = acc.balance - cost
        /\ own.staked = acc.staked /\ own.nonce = acc.nonce + 1
    BY <1>2, <2>1, RevisedAccount
  <2>. HIDE DEF own
  <2>3. Coins(own) = Coins(acc) - cost
    BY <1>2, <1>4, <2>2 DEF Coins
  <2>4. Charged(f, g, tx.sender, NonceOf(f, tx.sender), cost)
    BY <1>2, <1>4, <2>2, <2>3, SaveCharged DEF acc
  <2>. HIDE DEF g
  <2>5. IsAccountMap(g) /\ TotalBalance(g) = TotalBalance(f) - cost
    BY <2>4 DEF Charged
  <2>6. Gains(g, h, tx.amount)
    BY <1>2, <2>5, CreditGains
  <2>7. Gains(h, split.accts, tx.fee)
    <3>1. IsAccountMap(h)
      BY <2>6 DEF Gains
    <3>. HIDE DEF h
    <3>. QED
      BY <1>2, <3>1, FeeSplitGains
  <2>8. Gains(g, split.accts, tx.amount + tx.fee)
    <3>. HIDE DEF h, split
    <3>. QED
      BY <1>2, <2>5, <2>6, <2>7, GainsTwice
  <2>9. Applied(f, split.accts, tx.sender, acc.nonce)
    <3>1. PICK k : k = NonceOf(f, tx.sender)
      OBVIOUS
    <3>2. cost <= cost /\ Gains(g, split.accts, cost)
      BY <1>4, <2>8
    <3>. HIDE DEF split
    <3>3. Applied(f, split.accts, tx.sender, k)
      BY <1>4, <2>4, <3>1, <3>2, ChargedThenGains
    <3>. QED
      BY <1>2, <3>1, <3>3
  <2>10. ASSUME TotalBalance(f) <= MaxU64
         PROVE  paid.ok /\ split.ok
    <3>1. TotalBalance(f) \in Nat
      BY TotalNat
    <3>2. TotalBalance(g) + tx.amount <= MaxU64
      BY <1>2, <1>4, <2>5, <2>10, <3>1, WidthAssumption
    <3>3. paid.ok /\ TotalBalance(h) = TotalBalance(g) + tx.amount
      BY <1>2, <2>5, <3>2, CreditTotals
    <3>4. IsAccountMap(h)
      BY <2>6 DEF Gains
    <3>. HIDE DEF h
    <3>5. TotalBalance(h) + tx.fee \div 10 <= MaxU64
      BY <1>2, <1>4, <2>5, <2>10, <3>1, <3>3, WidthAssumption
    <3>6. split.ok
      BY <1>2, <3>4, <3>5, FeeSplitTotals
    <3>. QED
      BY <3>3, <3>6
  <2>. HIDE DEF split, paid
  <2>11. CASE paid.ok
    BY <1>1, <1>6, <2>9, <2>10, <2>11
  <2>12. CASE ~paid.ok
    <3>1. ~apply_transfer(f, tx).ok
      BY <1>1, <1>6, <2>12 DEF Err
    <3>. QED
      BY <3>1, <2>10, <2>12
  <2>. QED
    BY <2>11, <2>12
<1>. QED
  BY <1>5, <1>6

\* Every transaction that is applied uses up its sender's nonce, which was its own,
\* and creates no coins.
LEMMA TransactionApplied ==
    ASSUME NEW f, IsAccountMap(f), NEW tx \in Transaction, apply_transaction(f, tx).ok
    PROVE  Applied(f, apply_transaction(f, tx).accts, tx.sender, tx.nonce)
  BY TransferApplied, StakeLockApplied, StakeUnlockApplied, FeeOnlyApplied DEF apply_transaction

\* A payment that check_transactions would pass on the very accounts it is applied
\* to is applied, when the coins in the tree are fewer than a u64 can count: with
\* exactly so many, a sum that saturates passes the check and fails to apply.
LEMMA PaymentApplies ==
    ASSUME NEW f, IsAccountMap(f), NEW tx \in Transaction, tx.type \in {"Transfer", "Contract"},
           TotalBalance(f) < MaxU64, NonceOf(f, tx.sender) = tx.nonce,
           BalanceOf(f, tx.sender) >= required_balance(tx)
    PROVE  apply_transaction(f, tx).ok
<1>1. TotalBalance(f) \in Nat /\ TotalBalance(f) <= MaxU64
  BY TotalNat, WidthAssumption
<1>2. CASE tx.type = "Transfer"
  <2>1. required_balance(tx) = saturating_add(tx.amount, tx.fee)
    BY <1>2 DEF required_balance
  <2>2. BalanceOf(f, tx.sender) <= TotalBalance(f) /\ BalanceOf(f, tx.sender) \in Nat
    BY HoldingBound, LoadedNumbers, SenderNumbers DEF BalanceOf
  <2>3. tx.amount + tx.fee \in U64 /\ BalanceOf(f, tx.sender) >= tx.amount + tx.fee
    BY <1>1, <2>1, <2>2, WidthAssumption DEF saturating_add
  <2>4. apply_transaction(f, tx) = apply_transfer(f, tx)
    BY <1>2 DEF apply_transaction
  <2>. QED
    BY <1>1, <2>3, <2>4, TransferApplied
<1>3. CASE tx.type = "Contract"
  <2>1. required_balance(tx) = tx.fee
    BY <1>3 DEF required_balance
  <2>2. apply_transaction(f, tx) = apply_fee_only(f, tx)
    BY <1>3 DEF apply_transaction
  <2>. QED
    BY <1>1, <2>1, <2>2, FeeOnlyApplied
<1>. QED
  BY <1>2, <1>3

-----------------------------------------------------------------------------
(***************************************************************************)
(* Whole blocks.                                                           *)
(***************************************************************************)
\* What comes after an error is an error.
LEMMA OkSoFar ==
    ASSUME NEW f, NEW k \in Nat, NEW txs, NEW g, Partial(g, f, txs, k), g[k].ok
    PROVE  \A i \in 0..k : g[i].ok
<1> DEFINE S == {d \in 0..k : g[k - d].ok}
<1>1. 0 \in S
  OBVIOUS
<1>2. ASSUME NEW d \in 1..k, d - 1 \in S
      PROVE  d \in S
  <2>1. PICK i \in 1..k : i = k - (d - 1)
    OBVIOUS
  <2>2. g[i].ok /\ i - 1 = k - d /\ d \in 0..k
    BY <1>2, <2>1
  <2>3. g[i] = ApplyNext(g[i - 1], txs[i])
    BY DEF Partial
  <2>4. g[i - 1].ok
    BY <2>2, <2>3 DEF ApplyNext
  <2>. QED
    BY <2>2, <2>4
<1>3. \A d \in 0..k : d \in S
  <2>. HIDE DEF S
  <2>. QED
    BY <1>1, <1>2, UpTo
<1>4. ASSUME NEW i \in 0..k
      PROVE  g[i].ok
  <2>1. k - i \in 0..k /\ k - (k - i) = i
    OBVIOUS
  <2>. QED
    BY <1>3, <2>1
<1>. QED
  BY <1>4

\* The nonces of the first i transactions are used up, no nonce has fallen, and no
\* coins are new.
UsedUp(f, h, txs, i) ==
    /\ IsAccountMap(h)
    /\ TotalBalance(h) <= TotalBalance(f)
    /\ \A b : NonceOf(h, b) >= NonceOf(f, b)
    /\ \A j \in 1..i : NonceOf(h, txs[j].sender) > txs[j].nonce

\* One transaction more.
LEMMA UsedUpStep ==
    ASSUME NEW f, IsAccountMap(f), NEW h, NEW q, NEW txs, NEW i \in Nat, i # 0,
           \A j \in 1..i : txs[j] \in Transaction,
           UsedUp(f, h, txs, i - 1), Applied(h, q, txs[i].sender, txs[i].nonce)
    PROVE  UsedUp(f, q, txs, i)
<1>1. TotalBalance(f) \in Nat /\ TotalBalance(h) \in Nat /\ TotalBalance(q) \in Nat
  BY TotalNat DEF UsedUp, Applied
<1>2. \A b : NonceOf(f, b) \in Nat /\ NonceOf(h, b) \in Nat /\ NonceOf(q, b) \in Nat
  BY LoadedNumbers DEF UsedUp, Applied
<1>3. \A b : NonceOf(q, b) >= NonceOf(h, b)
  BY <1>2 DEF Applied
<1>4. \A b : NonceOf(q, b) >= NonceOf(f, b)
  BY <1>2, <1>3 DEF UsedUp
<1>5. TotalBalance(q) <= TotalBalance(f)
  BY <1>1 DEF UsedUp, Applied
<1>6. ASSUME NEW j \in 1..i
      PROVE  NonceOf(q, txs[j].sender) > txs[j].nonce
  <2>1. txs[j].nonce \in Nat
    BY DEF Transaction
  <2>2. PICK a, n : a = txs[j].sender /\ n = txs[j].nonce
    OBVIOUS
  <2>3. CASE j = i
    <3>1. NonceOf(q, a) = n + 1
      BY <2>2, <2>3 DEF Applied
    <3>. QED
      BY <2>1, <2>2, <3>1
  <2>4. CASE j # i
    <3>1. j \in 1..(i - 1)
      BY <2>4
    <3>2. NonceOf(h, a) > n /\ NonceOf(q, a) >= NonceOf(h, a)
      BY <1>3, <2>2, <3>1 DEF UsedUp
    <3>. QED
      BY <1>2, <2>1, <2>2, <3>2
  <2>. QED
    BY <2>3, <2>4
<1>. QED
  BY <1>4, <1>5, <1>6 DEF UsedUp, Applied

\* A block that is applied uses up the nonces of all its transactions.
LEMMA BlockUsesNonces ==
    ASSUME NEW f, IsAccountMap(f), NEW txs \in Seq(Transaction), ApplyAll(f, txs).ok
    PROVE  UsedUp(f, ApplyAll(f, txs).accts, txs, Len(txs))
<1>1. PICK k \in Nat : k = Len(txs) /\ DOMAIN txs = 1..k
  OBVIOUS
<1>2. \A j \in 1..k : txs[j] \in Transaction
  BY <1>1
<1>3. PICK g : Partial(g, f, txs, k) /\ ApplyAll(f, txs) = g[k]
  BY <1>1, ApplyAllByPartial
<1>4. \A i \in 0..k : g[i].ok
  BY <1>3, OkSoFar
<1> DEFINE S == {i \in 0..k : UsedUp(f, g[i].accts, txs, i)}
<1>5. 0 \in S
  <2>1. g[0].accts = f
    BY <1>3 DEF Partial, Ok
  <2>2. TotalBalance(f) \in Nat /\ \A b : NonceOf(f, b) \in Nat
    BY TotalNat, LoadedNumbers
  <2>3. UsedUp(f, f, txs, 0)
    BY <2>2 DEF UsedUp
  <2>. QED
    BY <2>1, <2>3
<1>6. ASSUME NEW i \in 1..k, i - 1 \in S
      PROVE  i \in S
  <2>1. PICK h, q : h = g[i - 1].accts /\ q = g[i].accts
    OBVIOUS
  <2>2. UsedUp(f, h, txs, i - 1) /\ i \in Nat /\ i # 0 /\ i \in 0..k /\ i - 1 \in 0..k
    BY <1>6, <2>1
  <2>3. \A j \in 1..i : txs[j] \in Transaction
    BY <1>2
  <2>4. g[i] = ApplyNext(g[i - 1], txs[i])
    BY <1>3 DEF Partial
  <2>5. txs[i].type # "Coinbase" /\ txs[i] \in Transaction
    BY <1>2 DEF Transaction, TransactionType
  <2>6. g[i] = apply_transaction(h, txs[i]) /\ g[i].ok
    BY <1>4, <2>1, <2>2, <2>4, <2>5 DEF ApplyNext
  <2>7. Applied(h, q, txs[i].sender, txs[i].nonce)
    BY <2>1, <2>2, <2>5, <2>6, TransactionApplied DEF UsedUp
  <2>8. UsedUp(f, q, txs, i)
    BY <2>2, <2>3, <2>7, UsedUpStep
  <2>. QED
    BY <2>1, <2>2, <2>8
<1>7. k \in 0..k
  OBVIOUS
<1>8. k \in S
  <2>. HIDE DEF S
  <2>. QED
    BY <1>5, <1>6, <1>7, UpTo
<1>. QED
  BY <1>1, <1>3, <1>8

\* Whoever sent none of the first i transactions has its nonce and no less than its
\* balance, and no coins are new.
Unspent(f, h, txs, i) ==
    /\ IsAccountMap(h)
    /\ TotalBalance(h) <= TotalBalance(f)
    /\ \A b : (\A j \in 1..i : txs[j].sender # b) =>
                 NonceOf(h, b) = NonceOf(f, b) /\ BalanceOf(h, b) >= BalanceOf(f, b)

\* One transaction more.
LEMMA UnspentStep ==
    ASSUME NEW f, IsAccountMap(f), NEW h, NEW q, NEW txs, NEW i \in Nat, i # 0, NEW k,
           Unspent(f, h, txs, i - 1), Applied(h, q, txs[i].sender, k)
    PROVE  Unspent(f, q, txs, i)
<1>1. TotalBalance(f) \in Nat /\ TotalBalance(h) \in Nat /\ TotalBalance(q) \in Nat
  BY TotalNat DEF Unspent, Applied
<1>2. \A b : BalanceOf(f, b) \in Nat /\ BalanceOf(h, b) \in Nat /\ BalanceOf(q, b) \in Nat
  BY LoadedNumbers DEF Unspent, Applied
<1>3. TotalBalance(q) <= TotalBalance(f)
  BY <1>1 DEF Unspent, Applied
<1>4. ASSUME NEW b, \A j \in 1..i : txs[j].sender # b
      PROVE  NonceOf(q, b) = NonceOf(f, b) /\ BalanceOf(q, b) >= BalanceOf(f, b)
  <2>1. i \in 1..i /\ \A j \in 1..(i - 1) : j \in 1..i
    OBVIOUS
  <2>2. NonceOf(q, b) = NonceOf(h, b) /\ BalanceOf(q, b) >= BalanceOf(h, b)
    BY <1>4, <2>1 DEF Applied
  <2>3. NonceOf(h, b) = NonceOf(f, b) /\ BalanceOf(h, b) >= BalanceOf(f, b)
    BY <1>4, <2>1 DEF Unspent
  <2>. QED
    BY <1>2, <2>2, <2>3
<1>. QED
  BY <1>3, <1>4 DEF Unspent, Applied

\* A block of payments by different senders, each of whom can pay and has the right
\* nonce before the block, is applied.
LEMMA PaymentBlockApplies ==
    ASSUME NEW f, IsAccountMap(f), TotalBalance(f) < MaxU64, NEW txs \in Seq(Transaction),
           \A i \in DOMAIN txs :
              /\ txs[i].type \in {"Transfer", "Contract"}
              /\ \A j \in DOMAIN txs : txs[j].sender = txs[i].sender => j = i
              /\ NonceOf(f, txs[i].sender) = txs[i].nonce
              /\ BalanceOf(f, txs[i].sender) >= required_balance(txs[i])
    PROVE  ApplyAll(f, txs).ok
<1>1. PICK k \in Nat : k = Len(txs) /\ DOMAIN txs = 1..k
  OBVIOUS
<1>2. PICK g : Partial(g, f, txs, k) /\ ApplyAll(f, txs) = g[k]
  BY <1>1, ApplyAllByPartial
<1>3. TotalBalance(f) \in Nat /\ \A b : NonceOf(f, b) \in Nat /\ BalanceOf(f, b) \in Nat
  BY TotalNat, LoadedNumbers
<1> DEFINE S == {i \in 0..k : g[i].ok /\ Unspent(f, g[i].accts, txs, i)}
<1>4. 0 \in S
  <2>1. g[0].accts = f /\ g[0].ok
    BY <1>2 DEF Partial, Ok
  <2>2. Unspent(f, f, txs, 0)
    BY <1>3 DEF Unspent
  <2>. QED
    BY <2>1, <2>2
<1>5. ASSUME NEW i \in 1..k, i - 1 \in S
      PROVE  i \in S
  <2>1. PICK h, q, tx : h = g[i - 1].accts /\ q = g[i].accts /\ tx = txs[i]
    OBVIOUS
  <2>2. /\ g[i - 1].ok /\ Unspent(f, h, txs, i - 1)
        /\ i \in Nat /\ i # 0 /\ i \in 0..k /\ i \in DOMAIN txs
    BY <1>1, <1>5, <2>1
  <2>3. tx \in Transaction /\ tx.type \in {"Transfer", "Contract"} /\ tx.type # "Coinbase"
    BY <1>1, <2>1, <2>2
  <2>4. g[i] = apply_transaction(h, tx)
    BY <1>2, <2>1, <2>2, <2>3 DEF Partial, ApplyNext
  <2>5. \A j \in 1..(i - 1) : txs[j].sender # tx.sender
    <3>1. \A j \in 1..(i - 1) : j \in DOMAIN txs /\ j # i
      BY <1>1
    <3>. QED
      BY <2>1, <2>2, <3>1
  <2>6. /\ NonceOf(h, tx.sender) = NonceOf(f, tx.sender)
        /\ BalanceOf(h, tx.sender) >= BalanceOf(f, tx.sender)
        /\ IsAccountMap(h) /\ TotalBalance(h) <= TotalBalance(f)
    BY <2>2, <2>5 DEF Unspent
  <2>7. TotalBalance(h) \in Nat /\ BalanceOf(h, tx.sender) \in Nat
    BY <2>6, TotalNat, LoadedNumbers
  <2>8. required_balance(tx) \in Int
    <3>1. tx.amount \in Nat /\ tx.fee \in Nat
      BY <2>3, WidthAssumption DEF Transaction, U64
    <3>. QED
      BY <3>1, WidthAssumption DEF required_balance, saturating_add
  <2>9. NonceOf(h, tx.sender) = tx.nonce /\ BalanceOf(h, tx.sender) >= required_balance(tx)
    <3>1. NonceOf(f, tx.sender) = tx.nonce /\ BalanceOf(f, tx.sender) >= required_balance(tx)
      BY <2>1, <2>2
    <3>2. PICK r \in Int : r = required_balance(tx)
      BY <2>8
    <3>. QED
      BY <1>3, <2>6, <2>7, <3>1, <3>2
  <2>10. TotalBalance(h) < MaxU64
    BY <1>3, <2>6, <2>7, WidthAssumption
  <2>11. apply_transaction(h, tx).ok
    BY <2>3, <2>6, <2>9, <2>10, PaymentApplies
  <2>12. Applied(h, q, tx.sender, tx.nonce)
    BY <2>1, <2>3, <2>4, <2>6, <2>11, TransactionApplied
  <2>13. Unspent(f, q, txs, i)
    BY <2>1, <2>2, <2>12, UnspentStep
  <2>. QED
    BY <2>1, <2>2, <2>4, <2>11, <2>13
<1>6. k \in 0..k
  OBVIOUS
<1>7. k \in S
  <2>. HIDE DEF S
  <2>. QED
    BY <1>4, <1>5, <1>6, UpTo
<1>. QED
  BY <1>2, <1>7

-----------------------------------------------------------------------------
(***************************************************************************)
(* Replays.  The invariant says what nodes send one another and what the   *)
(* chains hold.  A resent genesis block is covered: it carries nothing.    *)
(***************************************************************************)
\* A block whose Merkle root is the one of the transactions sent with it; only one
\* of height zero goes without check_transactions, and it has none.
IsRegular(m) ==
    /\ m.transactions \in Seq(Transaction)
    /\ m.block.contents = tx_hashes(m.transactions)
    /\ m.block.index \in Nat
    /\ m.block.index = 0 => m.transactions = <<>>

\* An epoch block commits to hashes of blocks, and comes with a coinbase.
IsEpoch(m) ==
    /\ \A i \in DOMAIN m.block.contents : m.block.contents[i].leaf = "block"
    /\ \E coinbase : m.transactions = <<coinbase>> /\ coinbase.type = "Coinbase"

\* A transaction whose nonce the accounts f have used up.
IsUsed(f, leaf) ==
    \E tx \in Transaction : leaf = TxLeaf(tx) /\ NonceOf(f, tx.sender) > tx.nonce

\* Everything sent is a block that was mined.
Messages ==
    /\ \E S : blocks \in Seq(S)
    /\ \A m \in sent :
          /\ m.block.hash \in 1..Len(blocks)
          /\ blocks[m.block.hash] = m.block
          /\ m.block.merkle_root = m.block.contents
          /\ IsRegular(m) \/ IsEpoch(m)

\* Every transaction on a node's chain has its nonce used up in the node's accounts.
Chains ==
    /\ tip = [n \in Node |-> tip[n]]
    /\ chain = [n \in Node |-> chain[n]]
    /\ accounts = [n \in Node |-> accounts[n]]
    /\ \A n \in Node :
          /\ tip[n].height \in Nat
          /\ IsAccountMap(accounts[n])
          /\ TotalBalance(accounts[n]) <= TotalBalance(Start)
          /\ \A h \in DOMAIN chain[n] :
                /\ chain[n][h] \in 1..Len(blocks)
                /\ \A i \in DOMAIN blocks[chain[n][h]].contents :
                      IsUsed(accounts[n], blocks[chain[n][h]].contents[i])

\* The inductive invariant.
ReplayInv == Messages /\ Chains /\ NoReplay

\* Init: the chains hold the genesis block.
LEMMA ReplayInvInit ==
    ASSUME Init
    PROVE  ReplayInv
<1>1. /\ GenesisBlock.hash = 1 /\ GenesisBlock.index = 0 /\ GenesisBlock.contents = <<>>
      /\ GenesisBlock.merkle_root = <<>>
  BY DEF GenesisBlock, root_of
<1>2. /\ tip = [n \in Node |-> advance(GenesisTip, GenesisBlock)]
      /\ chain = [n \in Node |-> [h \in {0} |-> 1]]
      /\ accounts = [n \in Node |-> Start] /\ blocks = <<GenesisBlock>>
      /\ \A m \in sent : m = [block |-> GenesisBlock, transactions |-> <<>>]
  BY <1>1 DEF Init
<1>3. advance(GenesisTip, GenesisBlock).height = 0
  BY <1>1 DEF advance
<1>4. blocks \in Seq({GenesisBlock}) /\ Len(blocks) = 1 /\ blocks[1] = GenesisBlock
  BY <1>2
<1>5. ASSUME NEW m \in sent
      PROVE  /\ m.block.hash \in 1..Len(blocks) /\ blocks[m.block.hash] = m.block
             /\ m.block.merkle_root = m.block.contents /\ IsRegular(m)
  <2>1. m.block = GenesisBlock /\ m.transactions = <<>>
    BY <1>2
  <2>2. tx_hashes(<<>>) = <<>> /\ <<>> \in Seq(Transaction)
    BY DEF tx_hashes
  <2>. QED
    BY <1>1, <1>4, <2>1, <2>2 DEF IsRegular
<1>6. Messages
  BY <1>4, <1>5 DEF Messages
<1>7. \A n \in Node : \A h \in DOMAIN chain[n] :
         chain[n][h] = 1 /\ DOMAIN blocks[chain[n][h]].contents = {}
  BY <1>1, <1>2, <1>4
<1>8. Chains
  <2>1. TotalBalance(Start) \in Nat /\ IsAccountMap(Start)
    BY RulesAssumption, TotalNat
  <2>2. \A n \in Node : tip[n].height = 0 /\ accounts[n] = Start
    BY <1>2, <1>3
  <2>3. /\ tip = [n \in Node |-> tip[n]] /\ chain = [n \in Node |-> chain[n]]
        /\ accounts = [n \in Node |-> accounts[n]]
    BY <1>2
  <2>. QED
    BY <1>4, <1>7, <2>1, <2>2, <2>3 DEF Chains
<1>9. NoReplay
  BY <1>7 DEF NoReplay
<1>. QED
  BY <1>6, <1>8, <1>9 DEF ReplayInv

\* Mining a block changes no chain, and the blocks mined before it keep their numbers.
LEMMA ReplayBroadcast ==
    ASSUME ReplayInv, NEW b, NEW txs, Broadcast(b, txs), b.hash = Len(blocks) + 1,
           b.merkle_root = b.contents, NEW m, m = [block |-> b, transactions |-> txs],
           IsRegular(m) \/ IsEpoch(m)
    PROVE  ReplayInv'
<1>1. /\ blocks' = Append(blocks, b) /\ sent' = sent \cup {m}
      /\ UNCHANGED <<clock, tip, accounts, chain>>
  BY DEF Broadcast
<1>2. PICK S : blocks \in Seq(S)
  BY DEF ReplayInv, Messages
<1>3. Len(blocks) \in Nat
  BY <1>2
<1>4. /\ blocks' \in Seq(S \cup {b}) /\ Len(blocks') = Len(blocks) + 1
      /\ blocks'[Len(blocks) + 1] = b /\ \A i \in 1..Len(blocks) : blocks'[i] = blocks[i]
  BY <1>1, <1>2
<1>5. \A i \in 1..Len(blocks) : i \in 1..Len(blocks')
  BY <1>3, <1>4
<1>6. Messages'
  <2>1. ASSUME NEW s \in sent'
        PROVE  /\ s.block.hash \in 1..Len(blocks') /\ blocks'[s.block.hash] = s.block
               /\ s.block.merkle_root = s.block.contents /\ (IsRegular(s) \/ IsEpoch(s))
    <3>1. CASE s \in sent
      BY <1>4, <1>5, <3>1 DEF ReplayInv, Messages
    <3>2. CASE s = m
      <4>1. s.block = b /\ Len(blocks) + 1 \in 1..Len(blocks')
        BY <1>3, <1>4, <3>2
      <4>. QED
        BY <1>4, <3>2, <4>1
    <3>. QED
      BY <1>1, <3>1, <3>2
  <2>. QED
    BY <1>4, <2>1 DEF Messages
<1>7. \A n \in Node : \A h \in DOMAIN chain[n] :
         chain[n][h] \in 1..Len(blocks) /\ blocks'[chain[n][h]] = blocks[chain[n][h]]
  BY <1>4 DEF ReplayInv, Chains
<1>8. Chains'
  BY <1>1, <1>5, <1>7 DEF ReplayInv, Chains
<1>9. NoReplay'
  BY <1>1, <1>7 DEF ReplayInv, NoReplay
<1>. QED
  BY <1>6, <1>8, <1>9 DEF ReplayInv

\* No epoch block is accepted, whoever sent it: check_merkle_root compares its root,
\* over block hashes, with the root over the coinbase that check_coinbase asks for.
LEMMA EpochRefused ==
    ASSUME Messages, NEW n \in Node, NEW m \in sent, accepts(n, m)
    PROVE  IsRegular(m)
<1>1. m.block.contents = tx_hashes(m.transactions)
  BY DEF Messages, accepts, validate_block_rules, check_merkle_root, root_of
<1>2. ASSUME IsEpoch(m) PROVE FALSE
  <2>1. PICK c : m.transactions = <<c>> /\ c.type = "Coinbase"
    BY <1>2 DEF IsEpoch
  <2>2. 1 \in DOMAIN tx_hashes(<<c>>) /\ tx_hashes(<<c>>)[1] = tx_hash(c)
    BY DEF tx_hashes
  <2>3. tx_hash(c).leaf = "coinbase"
    BY <2>1 DEF tx_hash, CoinbaseLeaf
  <2>. QED
    BY <1>1, <1>2, <2>1, <2>2, <2>3 DEF IsEpoch
<1>. QED
  BY <1>2 DEF Messages

\* What check_transactions has compared, in the terms of the invariant.
LEMMA AcceptedFresh ==
    ASSUME Chains, NEW n \in Node, NEW m \in sent, accepts(n, m), IsRegular(m),
           NEW j \in DOMAIN m.transactions
    PROVE  /\ m.block.contents[j] = TxLeaf(m.transactions[j])
           /\ m.transactions[j] \in Transaction
           /\ ~IsUsed(accounts[n], m.block.contents[j])
           /\ \A i \in DOMAIN m.transactions :
                 m.block.contents[i] = m.block.contents[j] => i = j
           /\ m.transactions[j].sender \in DOMAIN accounts[n] =>
                 /\ NonceOf(accounts[n], m.transactions[j].sender) = m.transactions[j].nonce
                 /\ BalanceOf(accounts[n], m.transactions[j].sender)
                      >= required_balance(m.transactions[j])
<1> DEFINE txs == m.transactions
           tx == txs[j]
           f == accounts[n]
<1>1. txs \in Seq(Transaction) /\ txs # <<>>
  BY DEF IsRegular
<1>2. \A i \in DOMAIN txs : txs[i] \in Transaction /\ txs[i].type # "Coinbase"
  <2>1. \A i \in DOMAIN txs : txs[i] \in Transaction
    BY <1>1
  <2>. QED
    BY <2>1 DEF Transaction, TransactionType
<1>3. \A i \in DOMAIN txs : m.block.contents[i] = TxLeaf(txs[i]) /\ tx_hash(txs[i]) = TxLeaf(txs[i])
  BY <1>2 DEF IsRegular, tx_hashes, tx_hash
<1>4. check_transactions(txs, f)
  BY <1>1 DEF accepts, validate_block_rules, IsRegular
<1>5. /\ \A i \in DOMAIN txs : i # j => tx_hash(txs[i]) # tx_hash(txs[j])
      /\ tx.sender \in DOMAIN f => /\ f[tx.sender].balance >= required_balance(tx)
                                   /\ f[tx.sender].nonce = tx.nonce
  BY <1>2, <1>4 DEF check_transactions
<1>6. tx.sender \in DOMAIN f => /\ NonceOf(f, tx.sender) = tx.nonce
                                /\ BalanceOf(f, tx.sender) >= required_balance(tx)
  BY <1>5 DEF NonceOf, BalanceOf, get_or_create_account
<1>7. ASSUME IsUsed(f, m.block.contents[j]) PROVE FALSE
  <2>1. PICK t \in Transaction : m.block.contents[j] = TxLeaf(t) /\ NonceOf(f, t.sender) > t.nonce
    BY <1>7 DEF IsUsed
  <2>2. t = tx
    <3>1. TxLeaf(t) = TxLeaf(tx) /\ TxLeaf(t).of = t /\ TxLeaf(tx).of = tx
      BY <1>3, <2>1 DEF TxLeaf
    <3>. QED
      BY <3>1, Zenon
  <2>3. tx.nonce \in Nat /\ NonceOf(f, tx.sender) > tx.nonce
    BY <2>1, <2>2 DEF Transaction
  <2>4. tx.sender \notin DOMAIN f
    <3>1. PICK x, y : x = tx.nonce /\ y = NonceOf(f, tx.sender)
      OBVIOUS
    <3>2. x \in Nat /\ y > x /\ (tx.sender \in DOMAIN f => y = x)
      BY <1>6, <2>3, <3>1
    <3>. QED
      BY <3>2
  <2>5. NonceOf(f, tx.sender) = 0
    BY <2>4 DEF NonceOf, get_or_create_account, NewAccount
  <2>. QED
    BY <2>3, <2>5
<1>. QED
  BY <1>2, <1>3, <1>5, <1>6, <1>7

\* A node that takes a block: its transactions are new to the node's chain, and
\* afterwards their nonces are used up.
LEMMA ReplayReceive ==
    ASSUME ReplayInv, NEW n \in Node, NEW m \in sent, ReceiveBlock(n, m)
    PROVE  ReplayInv'
<1> DEFINE txs == m.transactions
           c == m.block.contents
           f == accounts[n]
           g == ApplyAll(f, txs).accts
           x == m.block.index
           old == chain[n]
           new == [h \in DOMAIN old \cup {x} |-> IF h = x THEN m.block.hash ELSE old[h]]
<1>1. /\ accepts(n, m) /\ ApplyAll(f, txs).ok
      /\ accounts' = [accounts EXCEPT ![n] = g]
      /\ tip' = [tip EXCEPT ![n] = advance(tip[n], m.block)]
      /\ chain' = [chain EXCEPT ![n] = new]
      /\ UNCHANGED <<clock, blocks, sent>>
  BY DEF ReceiveBlock
<1>2. IsRegular(m)
  BY <1>1, EpochRefused DEF ReplayInv
<1>3. /\ tip = [k \in Node |-> tip[k]] /\ chain = [k \in Node |-> chain[k]]
      /\ accounts = [k \in Node |-> accounts[k]]
      /\ IsAccountMap(f) /\ TotalBalance(f) <= TotalBalance(Start)
  BY DEF ReplayInv, Chains
<1>4. txs \in Seq(Transaction) /\ c = tx_hashes(txs) /\ DOMAIN c = DOMAIN txs /\ x \in Nat
  BY <1>2 DEF IsRegular, tx_hashes
<1>5. UsedUp(f, g, txs, Len(txs))
  BY <1>1, <1>3, <1>4, BlockUsesNonces
<1>6. m.block.hash \in 1..Len(blocks) /\ blocks[m.block.hash] = m.block
  BY DEF ReplayInv, Messages
<1>7. /\ accounts'[n] = g /\ chain'[n] = new /\ tip'[n] = advance(tip[n], m.block)
      /\ \A k \in Node : k # n =>
            accounts'[k] = accounts[k] /\ chain'[k] = chain[k] /\ tip'[k] = tip[k]
      /\ tip' = [k \in Node |-> tip'[k]] /\ chain' = [k \in Node |-> chain'[k]]
      /\ accounts' = [k \in Node |-> accounts'[k]]
  BY <1>1, <1>3
<1>8. ASSUME NEW j \in DOMAIN c
      PROVE  /\ j \in DOMAIN txs /\ c[j] = TxLeaf(txs[j]) /\ txs[j] \in Transaction
             /\ ~IsUsed(f, c[j]) /\ \A i \in DOMAIN c : c[i] = c[j] => i = j
  BY <1>1, <1>2, <1>4, AcceptedFresh DEF ReplayInv
<1>9. ASSUME NEW leaf, IsUsed(f, leaf)
      PROVE  IsUsed(g, leaf)
  <2>1. PICK tx \in Transaction : leaf = TxLeaf(tx) /\ NonceOf(f, tx.sender) > tx.nonce
    BY <1>9 DEF IsUsed
  <2>2. PICK p, q, r : p = NonceOf(f, tx.sender) /\ q = NonceOf(g, tx.sender) /\ r = tx.nonce
    OBVIOUS
  <2>3. p \in Nat /\ q \in Nat /\ r \in Nat /\ q >= p /\ p > r
    <3>1. p \in Nat
      BY <1>3, <2>2, LoadedNumbers
    <3>2. q \in Nat
      <4>1. IsAccountMap(g)
        BY <1>5 DEF UsedUp
      <4>. HIDE DEF g
      <4>. QED
        BY <2>2, <4>1, LoadedNumbers
    <3>3. r \in Nat
      BY <2>2 DEF Transaction
    <3>4. q >= p
      BY <1>5, <2>2 DEF UsedUp
    <3>. QED
      BY <2>1, <2>2, <3>1, <3>2, <3>3, <3>4
  <2>4. NonceOf(g, tx.sender) > tx.nonce
    BY <2>2, <2>3
  <2>. QED
    BY <2>1, <2>4 DEF IsUsed
<1>10. ASSUME NEW j \in DOMAIN c
       PROVE  IsUsed(g, c[j])
  <2>1. j \in 1..Len(txs)
    BY <1>4, <1>8
  <2>2. NonceOf(g, txs[j].sender) > txs[j].nonce
    BY <1>5, <2>1 DEF UsedUp
  <2>. QED
    BY <1>8, <2>2 DEF IsUsed
<1>. HIDE DEF f, g, c, txs, x, old
<1>11. \A h \in DOMAIN new : /\ h = x \/ (h # x /\ h \in DOMAIN old)
                             /\ h = x => new[h] = m.block.hash
                             /\ h # x => new[h] = old[h]
  OBVIOUS
<1>. HIDE DEF new
<1>12. /\ \A h \in DOMAIN old : /\ old[h] \in 1..Len(blocks)
                                /\ \A i \in DOMAIN blocks[old[h]].contents :
                                      IsUsed(f, blocks[old[h]].contents[i])
       /\ \A h, k \in DOMAIN old :
             \A i \in DOMAIN blocks[old[h]].contents, j \in DOMAIN blocks[old[k]].contents :
                blocks[old[h]].contents[i] = blocks[old[k]].contents[j] => h = k /\ i = j
  BY DEF ReplayInv, Chains, NoReplay, old, f
<1>13. \A h \in DOMAIN new : /\ new[h] \in 1..Len(blocks)
                             /\ \A i \in DOMAIN blocks[new[h]].contents :
                                   IsUsed(g, blocks[new[h]].contents[i])
  <2>1. ASSUME NEW h \in DOMAIN new
        PROVE  /\ new[h] \in 1..Len(blocks)
               /\ \A i \in DOMAIN blocks[new[h]].contents :
                     IsUsed(g, blocks[new[h]].contents[i])
    <3>1. CASE h = x
      <4>1. blocks[new[h]].contents = c /\ new[h] \in 1..Len(blocks)
        BY <1>6, <1>11, <3>1 DEF c
      <4>. QED
        BY <1>10, <4>1
    <3>2. CASE h # x
      BY <1>9, <1>11, <1>12, <3>2
    <3>. QED
      BY <3>1, <3>2
  <2>. QED
    BY <2>1
<1>14. Chains'
  <2>1. ASSUME NEW k \in Node
        PROVE  /\ tip'[k].height \in Nat /\ IsAccountMap(accounts'[k])
               /\ TotalBalance(accounts'[k]) <= TotalBalance(Start)
               /\ \A h \in DOMAIN chain'[k] :
                     /\ chain'[k][h] \in 1..Len(blocks)
                     /\ \A i \in DOMAIN blocks[chain'[k][h]].contents :
                           IsUsed(accounts'[k], blocks[chain'[k][h]].contents[i])
    <3>1. CASE k # n
      BY <1>7, <3>1 DEF ReplayInv, Chains
    <3>2. CASE k = n
      <4>1. tip'[n].height = x
        BY <1>7 DEF advance, x
      <4>2. IsAccountMap(g) /\ TotalBalance(g) <= TotalBalance(Start)
        <5>1. IsAccountMap(g) /\ TotalBalance(g) <= TotalBalance(f)
          BY <1>5 DEF UsedUp
        <5>2. TotalBalance(g) \in Nat /\ TotalBalance(f) \in Nat /\ TotalBalance(Start) \in Nat
          BY <1>3, <5>1, TotalNat, RulesAssumption
        <5>. QED
          BY <1>3, <5>1, <5>2
      <4>. QED
        BY <1>4, <1>7, <1>13, <3>2, <4>1, <4>2
    <3>. QED
      BY <3>1, <3>2
  <2>. QED
    BY <1>1, <1>7, <2>1 DEF Chains
<1>15. ASSUME NEW h \in DOMAIN new, NEW k \in DOMAIN new,
              NEW i \in DOMAIN blocks[new[h]].contents, NEW j \in DOMAIN blocks[new[k]].contents,
              blocks[new[h]].contents[i] = blocks[new[k]].contents[j]
       PROVE  h = k /\ i = j
  <2>1. h = x => blocks[new[h]].contents = c
    BY <1>6, <1>11 DEF c
  <2>2. k = x => blocks[new[k]].contents = c
    BY <1>6, <1>11 DEF c
  <2>3. CASE h = x /\ k = x
    BY <1>8, <1>15, <2>1, <2>2, <2>3
  <2>4. CASE h = x /\ k # x
    BY <1>8, <1>11, <1>12, <1>15, <2>1, <2>4
  <2>5. CASE h # x /\ k = x
    BY <1>8, <1>11, <1>12, <1>15, <2>2, <2>5
  <2>6. CASE h # x /\ k # x
    BY <1>11, <1>12, <1>15, <2>6
  <2>. QED
    BY <2>3, <2>4, <2>5, <2>6
<1>16. NoReplay'
  <2>1. ASSUME NEW k \in Node, NEW a \in DOMAIN chain'[k], NEW h \in DOMAIN chain'[k],
               NEW i \in DOMAIN blocks[chain'[k][a]].contents,
               NEW j \in DOMAIN blocks[chain'[k][h]].contents,
               blocks[chain'[k][a]].contents[i] = blocks[chain'[k][h]].contents[j]
        PROVE  a = h /\ i = j
    <3>1. CASE k = n
      BY <1>7, <1>15, <2>1, <3>1
    <3>2. CASE k # n
      <4>1. PICK ch : ch = chain[k] /\ ch = chain'[k]
        BY <1>7, <3>2
      <4>2. \A p, q \in DOMAIN chain[k] :
               \A u \in DOMAIN blocks[chain[k][p]].contents, v \in DOMAIN blocks[chain[k][q]].contents :
                  blocks[chain[k][p]].contents[u] = blocks[chain[k][q]].contents[v] => p = q /\ u = v
        BY DEF ReplayInv, NoReplay
      <4>3. /\ a \in DOMAIN ch /\ h \in DOMAIN ch
            /\ i \in DOMAIN blocks[ch[a]].contents /\ j \in DOMAIN blocks[ch[h]].contents
            /\ blocks[ch[a]].contents[i] = blocks[ch[h]].contents[j]
        BY <2>1, <4>1
      <4>. QED
        BY <4>1, <4>2, <4>3
    <3>. QED
      BY <3>1, <3>2
  <2>. QED
    BY <1>1, <2>1 DEF NoReplay
<1>17. Messages'
  BY <1>1 DEF ReplayInv, Messages
<1>. QED
  BY <1>14, <1>16, <1>17 DEF ReplayInv

\* Every step keeps the invariant.
LEMMA ReplayInvStep ==
    ASSUME ReplayInv, [Next]_vars
    PROVE  ReplayInv'
<1>1. CASE UNCHANGED vars
  BY <1>1 DEF vars, ReplayInv, Messages, Chains, NoReplay
<1>2. CASE Tick
  BY <1>2 DEF Tick, ReplayInv, Messages, Chains, NoReplay
<1>3. ASSUME NEW n \in Node, NEW txs \in TxLists, ProduceMicroBlock(n, txs)
      PROVE  ReplayInv'
  <2> DEFINE b == produce_micro_block(tip[n], now(n), Len(blocks) + 1, txs)
  <2>1. /\ b.hash = Len(blocks) + 1 /\ b.merkle_root = b.contents
        /\ b.contents = tx_hashes(txs) /\ b.index = tip[n].height + 1
    BY DEF produce_micro_block, root_of
  <2>2. Broadcast(b, txs)
    BY <1>3 DEF ProduceMicroBlock
  <2>. HIDE DEF b
  <2>3. PICK m : m = [block |-> b, transactions |-> txs]
    OBVIOUS
  <2>4. tip[n].height \in Nat
    BY DEF ReplayInv, Chains
  <2>5. IsRegular(m)
    BY <2>1, <2>3, <2>4, TxListsAssumption DEF IsRegular
  <2>. QED
    BY <2>1, <2>2, <2>3, <2>5, ReplayBroadcast
<1>4. ASSUME NEW n \in Node, ProduceEpochBlock(n)
      PROVE  ReplayInv'
  <2> DEFINE b == produce_epoch_block(tip[n], now(n), Len(blocks) + 1, micro_block_hashes(n))
             cb == build_coinbase(b.epoch_index, b.hash)
  <2>1. /\ b.hash = Len(blocks) + 1 /\ b.merkle_root = b.contents
        /\ b.contents = micro_block_hashes(n)
    BY DEF produce_epoch_block, root_of
  <2>2. Broadcast(b, <<cb>>)
    BY <1>4 DEF ProduceEpochBlock
  <2>3. cb.type = "Coinbase"
    BY DEF build_coinbase
  <2>4. \A i \in DOMAIN micro_block_hashes(n) : micro_block_hashes(n)[i].leaf = "block"
    BY DEF micro_block_hashes, BlockLeaf
  <2>. HIDE DEF b, cb
  <2>5. PICK m : m = [block |-> b, transactions |-> <<cb>>]
    OBVIOUS
  <2>6. IsEpoch(m)
    BY <2>1, <2>3, <2>4, <2>5 DEF IsEpoch
  <2>. QED
    BY <2>1, <2>2, <2>5, <2>6, ReplayBroadcast
<1>. QED
  BY <1>1, <1>2, <1>3, <1>4, ReplayReceive DEF Next

\* Every transaction on a chain has used up its nonce, whatever is sent or resent.
THEOREM BlockRulesReplayInvariant == Spec => []ReplayInv
BY ReplayInvInit, ReplayInvStep, PTL DEF Spec

\* No transaction is in a node's chain twice, however often producers put it into
\* blocks and whatever peers send again, the genesis block included.
THEOREM BlockRulesNoReplay == Spec => []NoReplay
<1>1. ReplayInv => NoReplay
  BY DEF ReplayInv
<1>. QED
  BY <1>1, BlockRulesReplayInvariant, PTL

\* While the coins of genesis are fewer than a u64 can count, check_transactions
\* on the accounts before a block of payments is enough to apply it.
THEOREM BlockRulesPaymentBlocksApply ==
    ASSUME TotalBalance(Start) < MaxU64
    PROVE  Spec => []PaymentBlocksApply
<1>1. ASSUME ReplayInv, NEW n \in Node, NEW m \in sent, accepts(n, m),
             \A i \in DOMAIN m.transactions :
                /\ m.transactions[i].type \in {"Transfer", "Contract"}
                /\ m.transactions[i].sender \in DOMAIN accounts[n]
                /\ \A j \in DOMAIN m.transactions :
                      m.transactions[j].sender = m.transactions[i].sender => j = i
      PROVE  ApplyAll(accounts[n], m.transactions).ok
  <2>1. IsRegular(m)
    BY <1>1, EpochRefused DEF ReplayInv
  <2>2. \A i \in DOMAIN m.transactions :
           /\ NonceOf(accounts[n], m.transactions[i].sender) = m.transactions[i].nonce
           /\ BalanceOf(accounts[n], m.transactions[i].sender)
                >= required_balance(m.transactions[i])
    BY <1>1, <2>1, AcceptedFresh DEF ReplayInv
  <2>3. PICK f, txs : f = accounts[n] /\ txs = m.transactions
    OBVIOUS
  <2>4. IsAccountMap(f) /\ TotalBalance(f) < MaxU64 /\ txs \in Seq(Transaction)
    <3>1. IsAccountMap(f) /\ TotalBalance(f) <= TotalBalance(Start)
      BY <1>1, <2>3 DEF ReplayInv, Chains
    <3>2. TotalBalance(f) \in Nat /\ TotalBalance(Start) \in Nat
      BY <3>1, TotalNat, RulesAssumption
    <3>3. TotalBalance(f) < MaxU64
      BY <3>1, <3>2, WidthAssumption
    <3>. QED
      BY <2>1, <2>3, <3>1, <3>3 DEF IsRegular
  <2>5. ApplyAll(f, txs).ok
    BY <1>1, <2>2, <2>3, <2>4, PaymentBlockApplies
  <2>. QED
    BY <2>3, <2>5
<1>2. ReplayInv => PaymentBlocksApply
  BY <1>1 DEF PaymentBlocksApply
<1>. QED
  BY <1>2, BlockRulesReplayInvariant, PTL

-----------------------------------------------------------------------------
(***************************************************************************)
(* From epoch to epoch: EpochPolicy, with the rewards of this chain.       *)
(***************************************************************************)

\* What a truncated division leaves.
LEMMA Quotient ==
    ASSUME NEW d \in Int, NEW m \in Nat \ {0}
    PROVE  /\ d \div m \in Int
           /\ m * (d \div m) <= d
           /\ d < m * (d \div m) + m
  OBVIOUS

\* A quotient is on the side of a bound that the dividend is on.
LEMMA QuotientBounds ==
    ASSUME NEW d \in Int, NEW m \in Nat \ {0}, NEW c \in Int
    PROVE  /\ d <= m * (c - 1) => d \div m < c
           /\ d >= m * (c + 1) => d \div m > c
           /\ d = m * c => d \div m = c
<1>1. PICK q \in Int : q = d \div m
  BY Quotient
<1>2. m * q <= d /\ d < m * q + m
  BY <1>1, Quotient
<1>3. ASSUME d <= m * (c - 1) PROVE q < c
  <2>1. ASSUME q >= c PROVE FALSE
    <3>1. PICK e \in Nat : q = c + e
      BY <2>1
    <3>2. m * q = m * (c - 1) + m + m * e
      BY <3>1
    <3>3. m * e >= 0
      OBVIOUS
    <3>. QED
      BY <1>2, <1>3, <3>2, <3>3
  <2>. QED
    BY <2>1
<1>4. ASSUME d >= m * (c + 1) PROVE q > c
  <2>1. ASSUME q <= c PROVE FALSE
    <3>1. PICK e \in Nat : c = q + e
      BY <2>1
    <3>2. m * (c + 1) = m * q + m + m * e
      BY <3>1
    <3>3. m * e >= 0
      OBVIOUS
    <3>. QED
      BY <1>2, <1>4, <3>2, <3>3
  <2>. QED
    BY <2>1
<1>5. ASSUME d = m * c PROVE q = c
  <2>1. ASSUME q > c PROVE FALSE
    <3>1. PICK e \in Nat : q = c + 1 + e
      <4>1. q - c - 1 \in Nat /\ q = c + 1 + (q - c - 1)
        BY <2>1
      <4>. QED
        BY <4>1
    <3>2. m * q = m * c + m + m * e
      BY <3>1
    <3>3. m * e >= 0
      OBVIOUS
    <3>. QED
      BY <1>2, <1>5, <3>2, <3>3
  <2>2. ASSUME q < c PROVE FALSE
    <3>1. PICK e \in Nat : c = q + 1 + e
      <4>1. c - q - 1 \in Nat /\ c = q + 1 + (c - q - 1)
        BY <2>2
      <4>. QED
        BY <4>1
    <3>2. m * c = m * q + m + m * e
      BY <3>1
    <3>3. m * e >= 0
      OBVIOUS
    <3>. QED
      BY <1>2, <1>5, <3>2, <3>3
  <2>. QED
    BY <2>1, <2>2
<1>. QED
  BY <1>1, <1>3, <1>4, <1>5

\* The time between two blocks is bounded by the intervals between them.
LEMMA TimeAtMost ==
    ASSUME NEW T \in Seq(Nat), NEW f \in 1..Len(T), NEW m \in Nat, f + m = Len(T), NEW c \in Int,
           \A i \in 1..m : T[f + i] - T[f + i - 1] <= c
    PROVE  T[f + m] - T[f] <= m * c
<1> DEFINE S == {k \in 0..m : T[f + k] - T[f] <= k * c}
<1>1. \A k \in 0..m : f + k \in 1..Len(T) /\ T[f + k] \in Int
  <2>1. \A k \in 0..m : f + k \in 1..Len(T)
    OBVIOUS
  <2>. QED
    BY <2>1, ElementOfSeq
<1>2. 0 \in S
  <2>1. f + 0 = f /\ 0 * c = 0 /\ 0 \in 0..m /\ T[f] \in Int
    OBVIOUS
  <2>. QED
    BY <2>1
<1>3. ASSUME NEW i \in 1..m, i - 1 \in S
      PROVE  i \in S
  <2>1. i \in 0..m /\ i - 1 \in 0..m /\ f + (i - 1) = f + i - 1
    OBVIOUS
  <2>2. PICK x \in Int, y \in Int, z \in Int : x = T[f] /\ y = T[f + i - 1] /\ z = T[f + i]
    <3>1. T[f] \in Int
      OBVIOUS
    <3>2. T[f + i] \in Int /\ T[f + (i - 1)] \in Int
      BY <1>1, <2>1
    <3>. QED
      BY <2>1, <3>1, <3>2
  <2>3. PICK p \in Int : p = (i - 1) * c
    OBVIOUS
  <2>4. i * c = p + c
    BY <2>3
  <2>5. y - x <= p /\ z - y <= c
    BY <1>3, <2>1, <2>2, <2>3
  <2>6. z - x <= i * c
    BY <2>4, <2>5
  <2>. QED
    BY <2>1, <2>2, <2>6
<1>. HIDE DEF S
<1>4. \A i \in 0..m : i \in S
  BY <1>2, <1>3, UpTo
<1>. QED
  BY <1>4 DEF S

\* The same from below.
LEMMA TimeAtLeast ==
    ASSUME NEW T \in Seq(Nat), NEW f \in 1..Len(T), NEW m \in Nat, f + m = Len(T), NEW c \in Int,
           \A i \in 1..m : T[f + i] - T[f + i - 1] >= c
    PROVE  T[f + m] - T[f] >= m * c
<1> DEFINE S == {k \in 0..m : T[f + k] - T[f] >= k * c}
<1>1. \A k \in 0..m : f + k \in 1..Len(T) /\ T[f + k] \in Int
  <2>1. \A k \in 0..m : f + k \in 1..Len(T)
    OBVIOUS
  <2>. QED
    BY <2>1, ElementOfSeq
<1>2. 0 \in S
  <2>1. f + 0 = f /\ 0 * c = 0 /\ 0 \in 0..m /\ T[f] \in Int
    OBVIOUS
  <2>. QED
    BY <2>1
<1>3. ASSUME NEW i \in 1..m, i - 1 \in S
      PROVE  i \in S
  <2>1. i \in 0..m /\ i - 1 \in 0..m /\ f + (i - 1) = f + i - 1
    OBVIOUS
  <2>2. PICK x \in Int, y \in Int, z \in Int : x = T[f] /\ y = T[f + i - 1] /\ z = T[f + i]
    <3>1. T[f] \in Int
      OBVIOUS
    <3>2. T[f + i] \in Int /\ T[f + (i - 1)] \in Int
      BY <1>1, <2>1
    <3>. QED
      BY <2>1, <3>1, <3>2
  <2>3. PICK p \in Int : p = (i - 1) * c
    OBVIOUS
  <2>4. i * c = p + c
    BY <2>3
  <2>5. y - x >= p /\ z - y >= c
    BY <1>3, <2>1, <2>2, <2>3
  <2>6. z - x >= i * c
    BY <2>4, <2>5
  <2>. QED
    BY <2>1, <2>2, <2>6
<1>. HIDE DEF S
<1>4. \A i \in 0..m : i \in S
  BY <1>2, <1>3, UpTo
<1>. QED
  BY <1>4 DEF S

\* The blocks whose intervals count, of n.
Counted(n) == {i \in 2..n : i > n - DIFFICULTY_WINDOW + 1}

\* calculate_next_difficulty: the average over the window is on the side of the
\* target that all its intervals are on.
LEMMA NextDifficulty ==
    ASSUME NEW d \in MIN_DIFFICULTY..MAX_DIFFICULTY,
           NEW T \in Seq(Nat), Len(T) >= 2
    PROVE  LET interval(i) == T[i] - T[i - 1]
               seconds == EPOCH_BLOCK_TARGET_SECONDS
               new == calculate_next_difficulty(d, T, TRUE)
           IN  /\ new \in MIN_DIFFICULTY..MAX_DIFFICULTY
               /\ Counted(Len(T)) # {} =>
                    /\ (\A i \in Counted(Len(T)) : interval(i) < seconds)
                         => new = clamp(d + 1, MIN_DIFFICULTY, MAX_DIFFICULTY)
                    /\ (\A i \in Counted(Len(T)) : interval(i) > seconds)
                         => new = clamp(d - 1, MIN_DIFFICULTY, MAX_DIFFICULTY)
                    /\ (\A i \in Counted(Len(T)) : interval(i) = seconds) => new = d
<1>a. PICK seconds \in Nat : seconds = EPOCH_BLOCK_TARGET_SECONDS
  BY PolicyAssumption
<1>b. PICK n \in Nat : n = Len(T) /\ n >= 2
  BY LenProperties
<1>c. PICK w \in Nat : w = IF n < DIFFICULTY_WINDOW THEN n ELSE DIFFICULTY_WINDOW
  BY PolicyAssumption
<1>d. PICK f \in Int : f = n - w + 1
  OBVIOUS
<1> DEFINE recent == SubSeq(T, f, n)
           average == average_seconds(recent)
           next == IF average < seconds THEN d + 1
                   ELSE IF average > seconds THEN saturating_sub(d, 1)
                   ELSE d
           new == calculate_next_difficulty(d, T, TRUE)
<1>1. /\ DIFFICULTY_WINDOW \in Nat \ {0} /\ seconds \in Nat
      /\ MIN_DIFFICULTY \in Nat /\ MAX_DIFFICULTY \in Nat /\ MIN_DIFFICULTY <= MAX_DIFFICULTY
      /\ d \in Nat /\ MIN_DIFFICULTY <= d /\ d <= MAX_DIFFICULTY
  BY <1>a, PolicyAssumption
<1>2. new = IF n < 2 \/ Len(recent) = 1 THEN d
            ELSE clamp(next, MIN_DIFFICULTY, MAX_DIFFICULTY)
  BY <1>a, <1>b, <1>c, <1>d DEF calculate_next_difficulty
<1>3. n \in Nat /\ n >= 2 /\ w \in 1..n /\ w <= DIFFICULTY_WINDOW
  BY <1>1, <1>b, <1>c
<1>4. f \in 1..n /\ f + (w - 1) = n /\ n - f + 1 = w
  <2>1. n \in Nat /\ w \in Nat /\ w >= 1 /\ w <= n
    BY <1>3
  <2>. QED
    BY <1>d, <2>1
<1>5. Len(recent) = w /\ \A i \in 1..w : recent[i] = T[f + i - 1]
  <2>1. f \in Int /\ n \in Int /\ f <= n /\ \A i \in f..n : T[i] \in Nat
    <3>1. \A i \in f..n : i \in 1..n
      BY <1>4
    <3>. QED
      BY <1>b, <1>3, <1>4, <3>1, ElementOfSeq
  <2>. QED
    BY <1>4, <2>1, SubSeqProperties
<1>6. w # 1 => average = (T[n] - T[f]) \div (w - 1)
  <2>1. w \in 1..w /\ 1 \in 1..w /\ f + w - 1 = n /\ f + 1 - 1 = f
    BY <1>3, <1>4
  <2>2. recent[w] = T[n] /\ recent[1] = T[f]
    BY <1>5, <2>1
  <2>3. recent # <<>> /\ Head(recent) = recent[1]
    <3>. HIDE DEF recent
    <3>. QED
      BY <1>3, <1>5
  <2>4. average = (recent[Len(recent)] - Head(recent)) \div (Len(recent) - 1)
    BY DEF average_seconds, Last
  <2>. HIDE DEF recent, average
  <2>. QED
    BY <1>5, <2>2, <2>3, <2>4
<1>. HIDE DEF recent, average, new
<1>7. new \in MIN_DIFFICULTY..MAX_DIFFICULTY
  <2>1. next \in Int
    BY <1>1 DEF saturating_sub
  <2>. HIDE DEF next
  <2>. QED
    BY <1>1, <1>2, <2>1 DEF clamp
<1>8. ASSUME Counted(n) # {}
      PROVE  w - 1 \in Nat \ {0} /\ \A i \in 1..(w - 1) : f + i \in Counted(n)
  <2>1. DIFFICULTY_WINDOW # 1
    BY <1>8, <1>3 DEF Counted
  <2>2. w # 1
    BY <1>1, <1>3, <2>1, <1>c
  <2>3. ASSUME NEW i \in 1..(w - 1)
        PROVE  f + i \in Counted(n)
    <3>1. f + i \in 2..n /\ f + i > n - DIFFICULTY_WINDOW + 1
      BY <1>1, <1>3, <1>d
    <3>. QED
      BY <3>1 DEF Counted
  <2>. QED
    BY <1>3, <2>2, <2>3
<1>9. T[n] - T[f] \in Int /\ \A i \in 1..n : T[i] \in Nat
  <2>1. \A i \in 1..n : T[i] \in Nat
    BY <1>b, ElementOfSeq
  <2>2. T[n] \in Nat /\ T[f] \in Nat
    BY <1>3, <1>4, <2>1
  <2>. QED
    BY <2>1, <2>2
<1>10. ASSUME Counted(n) # {}, \A i \in Counted(n) : T[i] - T[i - 1] < seconds
       PROVE  new = clamp(d + 1, MIN_DIFFICULTY, MAX_DIFFICULTY)
  <2>1. PICK m \in Nat \ {0} : m = w - 1
    BY <1>8, <1>10
  <2>2. f + m = n
    BY <1>4, <2>1
  <2>3. \A i \in 1..m : T[f + i] - T[f + i - 1] <= seconds - 1
    <3>1. \A i \in 1..m : /\ T[f + i] - T[f + i - 1] < seconds
                          /\ f + i \in 1..n /\ f + i - 1 \in 1..n
      <4>1. \A i \in 1..m : f + i \in 1..n /\ f + i - 1 \in 1..n
        BY <1>3, <1>4, <2>2
      <4>2. \A i \in 1..m : f + i \in Counted(n)
        BY <1>8, <1>10, <2>1
      <4>3. ASSUME NEW i \in 1..m
            PROVE  T[f + i] - T[f + i - 1] < seconds
        <5>1. PICK j : j = f + i
          OBVIOUS
        <5>2. j \in Counted(n)
          BY <4>2, <5>1
        <5>. QED
          BY <1>10, <5>1, <5>2
      <4>. QED
        BY <4>1, <4>3
    <3>2. \A i \in 1..m : T[f + i] \in Nat /\ T[f + i - 1] \in Nat
      BY <1>9, <3>1
    <3>3. ASSUME NEW i \in 1..m
          PROVE  T[f + i] - T[f + i - 1] <= seconds - 1
      <4>1. PICK x \in Nat, y \in Nat : x = T[f + i] /\ y = T[f + i - 1]
        BY <3>2
      <4>2. x - y < seconds
        BY <3>1, <4>1
      <4>3. x - y <= seconds - 1
        BY <4>2
      <4>. QED
        BY <4>1, <4>3
    <3>. QED
      BY <3>3
  <2>4. PICK g \in 1..Len(T), D \in Int, c \in Int : g = f /\ D = T[n] - T[f] /\ c = seconds
    BY <1>1, <1>4, <1>9, <1>b
  <2>5. D <= m * (c - 1)
    <3>1. c - 1 \in Int /\ g + m = Len(T) /\ \A i \in 1..m : T[g + i] - T[g + i - 1] <= c - 1
      BY <2>2, <2>3, <2>4, <1>b
    <3>2. T[g + m] - T[g] <= m * (c - 1)
      BY <3>1, TimeAtMost
    <3>. QED
      BY <2>2, <2>4, <3>2
  <2>6. D \div m < c
    BY <2>5, QuotientBounds
  <2>7. average < seconds
    BY <1>6, <2>1, <2>4, <2>6
  <2>. QED
    BY <1>2, <1>3, <1>5, <2>1, <2>7
<1>11. ASSUME Counted(n) # {}, \A i \in Counted(n) : T[i] - T[i - 1] > seconds
       PROVE  new = clamp(d - 1, MIN_DIFFICULTY, MAX_DIFFICULTY)
  <2>1. PICK m \in Nat \ {0} : m = w - 1
    BY <1>8, <1>11
  <2>2. f + m = n
    BY <1>4, <2>1
  <2>3. \A i \in 1..m : T[f + i] - T[f + i - 1] >= seconds + 1
    <3>1. \A i \in 1..m : /\ T[f + i] - T[f + i - 1] > seconds
                          /\ f + i \in 1..n /\ f + i - 1 \in 1..n
      <4>1. \A i \in 1..m : f + i \in 1..n /\ f + i - 1 \in 1..n
        BY <1>3, <1>4, <2>2
      <4>2. \A i \in 1..m : f + i \in Counted(n)
        BY <1>8, <1>11, <2>1
      <4>3. ASSUME NEW i \in 1..m
            PROVE  T[f + i] - T[f + i - 1] > seconds
        <5>1. PICK j : j = f + i
          OBVIOUS
        <5>2. j \in Counted(n)
          BY <4>2, <5>1
        <5>. QED
          BY <1>11, <5>1, <5>2
      <4>. QED
        BY <4>1, <4>3
    <3>2. \A i \in 1..m : T[f + i] \in Nat /\ T[f + i - 1] \in Nat
      BY <1>9, <3>1
    <3>3. ASSUME NEW i \in 1..m
          PROVE  T[f + i] - T[f + i - 1] >= seconds + 1
      <4>1. PICK x \in Nat, y \in Nat : x = T[f + i] /\ y = T[f + i - 1]
        BY <3>2
      <4>2. x - y > seconds
        BY <3>1, <4>1
      <4>3. x - y >= seconds + 1
        BY <4>2
      <4>. QED
        BY <4>1, <4>3
    <3>. QED
      BY <3>3
  <2>4. PICK g \in 1..Len(T), D \in Int, c \in Int : g = f /\ D = T[n] - T[f] /\ c = seconds
    BY <1>1, <1>4, <1>9, <1>b
  <2>5. D >= m * (c + 1)
    <3>1. c + 1 \in Int /\ g + m = Len(T) /\ \A i \in 1..m : T[g + i] - T[g + i - 1] >= c + 1
      BY <2>2, <2>3, <2>4, <1>b
    <3>2. T[g + m] - T[g] >= m * (c + 1)
      BY <3>1, TimeAtLeast
    <3>. QED
      BY <2>2, <2>4, <3>2
  <2>6. D \div m > c /\ D \div m \in Int
    BY <2>5, QuotientBounds, Quotient
  <2>7. average > seconds /\ ~(average < seconds)
    BY <1>1, <1>6, <2>1, <2>4, <2>6
  <2>8. new = clamp(saturating_sub(d, 1), MIN_DIFFICULTY, MAX_DIFFICULTY)
    BY <1>2, <1>3, <1>5, <2>1, <2>7
  <2>. QED
    BY <1>1, <2>8 DEF clamp, saturating_sub
<1>12. ASSUME Counted(n) # {}, \A i \in Counted(n) : T[i] - T[i - 1] = seconds
       PROVE  new = d
  <2>1. PICK m \in Nat \ {0} : m = w - 1
    BY <1>8, <1>12
  <2>2. f + m = n
    BY <1>4, <2>1
  <2>3. \A i \in 1..m : T[f + i] - T[f + i - 1] >= seconds /\ T[f + i] - T[f + i - 1] <= seconds
    <3>1. \A i \in 1..m : f + i \in Counted(n)
      BY <1>8, <1>12, <2>1
    <3>2. ASSUME NEW i \in 1..m
          PROVE  T[f + i] - T[f + i - 1] >= seconds /\ T[f + i] - T[f + i - 1] <= seconds
      <4>1. PICK j : j = f + i
        OBVIOUS
      <4>2. T[j] - T[j - 1] = seconds
        BY <1>12, <3>1, <4>1
      <4>3. PICK x \in Nat : x = T[f + i] - T[f + i - 1]
        BY <4>1, <4>2
      <4>4. x = seconds
        BY <4>1, <4>2, <4>3
      <4>. QED
        BY <4>3, <4>4
    <3>. QED
      BY <3>2
  <2>4. PICK g \in 1..Len(T), D \in Int, c \in Int : g = f /\ D = T[n] - T[f] /\ c = seconds
    BY <1>1, <1>4, <1>9, <1>b
  <2>5. D = m * c
    <3>1. /\ g + m = Len(T)
          /\ \A i \in 1..m : T[g + i] - T[g + i - 1] >= c
          /\ \A i \in 1..m : T[g + i] - T[g + i - 1] <= c
      BY <2>2, <2>3, <2>4, <1>b
    <3>2. T[g + m] - T[g] >= m * c /\ T[g + m] - T[g] <= m * c
      BY <3>1, TimeAtLeast, TimeAtMost
    <3>3. PICK p \in Int : p = m * c
      OBVIOUS
    <3>4. D = T[g + m] - T[g]
      BY <2>2, <2>4
    <3>5. D >= p /\ D <= p
      BY <3>2, <3>3, <3>4
    <3>. QED
      BY <3>3, <3>5
  <2>6. D \div m = c
    BY <2>5, QuotientBounds
  <2>7. average = seconds
    BY <1>6, <2>1, <2>4, <2>6
  <2>8. new = clamp(d, MIN_DIFFICULTY, MAX_DIFFICULTY)
    BY <1>1, <1>2, <1>3, <1>5, <2>1, <2>7
  <2>. QED
    BY <1>1, <2>8 DEF clamp
<1>. QED
  BY <1>7, <1>10, <1>11, <1>12, <1>a, <1>b DEF new

\* The epoch blocks have timestamps, and the difficulty is within its limits.
Paced ==
    /\ timestamps \in Seq(Nat) /\ Len(timestamps) >= 1
    /\ difficulty \in MIN_DIFFICULTY..MAX_DIFFICULTY

\* An epoch block adds its timestamp and sets the next difficulty.
LEMMA PacedBlock ==
    ASSUME Paced, NEW interval \in Intervals, NEW utilization \in Utilizations,
           EpochBlock(interval, utilization)
    PROVE  /\ timestamps' \in Seq(Nat) /\ Len(timestamps') >= 2
           /\ difficulty' = calculate_next_difficulty(difficulty, timestamps', TRUE)
           /\ Paced'
<1>1. PICK time \in Nat : time = Last(timestamps) + interval
  <2>1. interval \in Nat
    BY PolicyAssumption
  <2>2. timestamps[Len(timestamps)] \in Nat
    BY DEF Paced
  <2>3. Last(timestamps) = timestamps[Len(timestamps)]
    BY DEF Last
  <2>. QED
    BY <2>1, <2>2, <2>3
<1>2. /\ timestamps' = Append(timestamps, time)
      /\ difficulty' = calculate_next_difficulty(difficulty, timestamps', TRUE)
  BY <1>1 DEF EpochBlock
<1>3. timestamps' \in Seq(Nat) /\ Len(timestamps') >= 2
  BY <1>2 DEF Paced
<1>4. PICK T \in Seq(Nat) : T = timestamps' /\ Len(T) >= 2
  BY <1>3
<1>5. calculate_next_difficulty(difficulty, T, TRUE) \in MIN_DIFFICULTY..MAX_DIFFICULTY
  BY <1>4, NextDifficulty DEF Paced
<1>6. difficulty' \in MIN_DIFFICULTY..MAX_DIFFICULTY
  BY <1>2, <1>4, <1>5
<1>7. Len(timestamps') >= 1
  <2>1. PICK n \in Nat : n = Len(timestamps')
    BY <1>3
  <2>. QED
    BY <1>3, <2>1
<1>. QED
  BY <1>2, <1>3, <1>6, <1>7 DEF Paced

\* For every window, target and range, the difficulty rises (or is at its
\* maximum) when all blocks of the window were fast, falls when all were slow,
\* and stays when all were on target.
THEOREM EpochPolicyDifficultyFollowsWindow ==
    PolicySpec => DifficultyFollowsWindow
<1> DEFINE Answer ==
             height' # height =>
               LET n == Len(timestamps')
                   last == {i \in 2..n : i > n - DIFFICULTY_WINDOW + 1}
                   interval(i) == timestamps'[i] - timestamps'[i - 1]
                   seconds == EPOCH_BLOCK_TARGET_SECONDS
               IN  last # {} =>
                     /\ (\A i \in last : interval(i) < seconds)
                           => difficulty' = clamp(difficulty + 1, MIN_DIFFICULTY, MAX_DIFFICULTY)
                     /\ (\A i \in last : interval(i) > seconds)
                           => difficulty' = clamp(difficulty - 1, MIN_DIFFICULTY, MAX_DIFFICULTY)
                     /\ (\A i \in last : interval(i) = seconds) => difficulty' = difficulty
<1>1. PolicyInit => Paced
  <2>1. <<0>> \in Seq(Nat) /\ Len(<<0>>) = 1
    OBVIOUS
  <2>. QED
    BY <2>1, PolicyAssumption DEF PolicyInit, Paced
<1>2. Paced /\ [PolicyNext]_policy_vars => Paced'
  <2>. SUFFICES ASSUME Paced, [PolicyNext]_policy_vars
                PROVE  Paced'
    OBVIOUS
  <2>1. CASE UNCHANGED <<timestamps, difficulty>>
    BY <2>1 DEF Paced
  <2>2. ASSUME NEW interval \in Intervals, NEW utilization \in Utilizations,
               EpochBlock(interval, utilization)
        PROVE  Paced'
    BY <2>2, PacedBlock
  <2>. QED
    BY <2>1, <2>2 DEF PolicyNext, CollectFee, policy_vars
<1>3. Paced /\ [PolicyNext]_policy_vars => [Answer]_policy_vars
  <2>. SUFFICES ASSUME Paced, [PolicyNext]_policy_vars, height' # height
                PROVE  Answer
    BY DEF policy_vars
  <2>1. PICK interval \in Intervals, utilization \in Utilizations :
          EpochBlock(interval, utilization)
    BY DEF PolicyNext, CollectFee, policy_vars
  <2>2. /\ timestamps' \in Seq(Nat) /\ Len(timestamps') >= 2
        /\ difficulty' = calculate_next_difficulty(difficulty, timestamps', TRUE)
    BY <2>1, PacedBlock
  <2>3. PICK T \in Seq(Nat) : T = timestamps' /\ Len(T) >= 2
    BY <2>2
  <2>4. PICK new : new = calculate_next_difficulty(difficulty, T, TRUE)
    OBVIOUS
  <2>5. Counted(Len(T)) # {} =>
          /\ (\A i \in Counted(Len(T)) : T[i] - T[i - 1] < EPOCH_BLOCK_TARGET_SECONDS)
               => new = clamp(difficulty + 1, MIN_DIFFICULTY, MAX_DIFFICULTY)
          /\ (\A i \in Counted(Len(T)) : T[i] - T[i - 1] > EPOCH_BLOCK_TARGET_SECONDS)
               => new = clamp(difficulty - 1, MIN_DIFFICULTY, MAX_DIFFICULTY)
          /\ (\A i \in Counted(Len(T)) : T[i] - T[i - 1] = EPOCH_BLOCK_TARGET_SECONDS)
               => new = difficulty
    BY <2>3, <2>4, NextDifficulty DEF Paced
  <2>6. difficulty' = new /\ timestamps' = T
    BY <2>2, <2>3, <2>4
  <2>. QED
    BY <2>5, <2>6 DEF Counted
<1>. QED
  BY <1>1, <1>2, <1>3, PTL DEF PolicySpec, DifficultyFollowsWindow

-----------------------------------------------------------------------------
\* t[i] is c to the power of i, up to n.
IsTable(c, n, t) ==
    /\ t \in [0..n -> Nat] /\ t[0] = 1
    /\ \A i \in 0..n : i # n => t[i + 1] = c * t[i]

\* g[i] is c to the power of i.
IsPower(c, g) ==
    /\ g \in [Nat -> Nat] /\ g[0] = 1
    /\ \A i \in Nat : g[i + 1] = c * g[i]

\* There is a table of any length.
LEMMA TableExists ==
    ASSUME NEW c \in Nat, NEW n \in Nat
    PROVE  \E t : IsTable(c, n, t)
<1> DEFINE T == {m \in Nat : ~\E t : IsTable(c, m, t)}
<1>1. ASSUME T # {} PROVE FALSE
  <2>1. PICK m \in T : \A k \in T : m <= k
    <3>1. T \subseteq Nat
      OBVIOUS
    <3>. HIDE DEF T
    <3>. QED
      BY <1>1, <3>1, LeastNat
  <2>2. CASE m = 0
    <3>1. IsTable(c, 0, [i \in 0..0 |-> 1])
      BY DEF IsTable
    <3>. QED
      BY <2>1, <2>2, <3>1
  <2>3. CASE m # 0
    <3>1. PICK k \in Nat : m = k + 1
      <4>1. m \in Nat
        BY <2>1
      <4>2. m - 1 \in Nat /\ m = (m - 1) + 1
        BY <2>3, <4>1
      <4>. QED
        BY <4>2
    <3>2. PICK t : IsTable(c, k, t)
      <4>1. k \notin T
        BY <2>1, <3>1
      <4>. QED
        BY <4>1
    <3>3. PICK x \in Nat : x = c * t[k]
      BY <3>2 DEF IsTable
    <3> DEFINE u == [i \in 0..m |-> IF i = m THEN x ELSE t[i]]
    <3>4. u[m] = x /\ \A i \in 0..k : u[i] = t[i] /\ t[i] \in Nat
      BY <3>1, <3>2 DEF IsTable
    <3>a. u = [i \in 0..m |-> u[i]]
      OBVIOUS
    <3>5. \A i \in 0..m : i = m \/ i \in 0..k
      BY <3>1
    <3>. HIDE DEF u
    <3>6. u \in [0..m -> Nat] /\ u[0] = 1
      <4>1. \A i \in 0..m : u[i] \in Nat
        BY <3>4, <3>5
      <4>2. u \in [0..m -> Nat]
        BY <3>a, <4>1
      <4>3. u[0] = t[0]
        <5>1. 0 \in 0..k
          OBVIOUS
        <5>. QED
          BY <3>4, <5>1, Zenon
      <4>. QED
        BY <3>2, <4>2, <4>3 DEF IsTable
    <3>7. ASSUME NEW i \in 0..m, i # m PROVE u[i + 1] = c * u[i]
      <4>1. i \in 0..k /\ u[i] = t[i]
        BY <3>4, <3>5, <3>7
      <4>2. CASE i = k
        <5>1. u[i + 1] = x /\ u[i] = t[k]
          BY <3>1, <3>4, <4>1, <4>2
        <5>. QED
          BY <3>3, <5>1
      <4>3. CASE i # k
        <5>1. i + 1 \in 0..k
          BY <4>1, <4>3
        <5>2. t[i + 1] = c * t[i]
          BY <3>2, <4>1, <4>3 DEF IsTable
        <5>. QED
          BY <3>4, <4>1, <5>1, <5>2
      <4>. QED
        BY <4>2, <4>3
    <3>8. IsTable(c, m, u)
      BY <3>6, <3>7 DEF IsTable
    <3>. QED
      BY <2>1, <3>8
  <2>. QED
    BY <2>2, <2>3
<1>. QED
  BY <1>1

\* Two tables agree where both are defined.
LEMMA TablesAgree ==
    ASSUME NEW c \in Nat, NEW n \in Nat, NEW t, IsTable(c, n, t),
           NEW m \in Nat, NEW u, IsTable(c, m, u), n <= m
    PROVE  \A i \in 0..n : t[i] = u[i]
<1> DEFINE T == {i \in 0..n : t[i] # u[i]}
<1>1. ASSUME T # {} PROVE FALSE
  <2>1. PICK i \in T : \A k \in T : i <= k
    <3>1. T \subseteq Nat
      OBVIOUS
    <3>. HIDE DEF T
    <3>. QED
      BY <1>1, <3>1, LeastNat
  <2>2. i # 0
    BY <2>1 DEF IsTable
  <2>3. PICK k \in 0..n : i = k + 1 /\ k # n
    <3>1. i \in 0..n
      BY <2>1
    <3>2. i - 1 \in 0..n /\ i = (i - 1) + 1 /\ i - 1 # n
      BY <2>2, <3>1
    <3>. QED
      BY <3>2
  <2>4. t[k] = u[k]
    <3>1. k \notin T
      BY <2>1, <2>3
    <3>. QED
      BY <3>1
  <2>5. t[k + 1] = c * t[k]
    BY <2>3 DEF IsTable
  <2>6. u[k + 1] = c * u[k]
    <3>1. k \in 0..m /\ k # m
      BY <2>1, <2>3
    <3>. QED
      BY <3>1 DEF IsTable
  <2>. QED
    BY <2>1, <2>3, <2>4, <2>5, <2>6
<1>. QED
  BY <1>1

\* The powers of a number are a function on the natural numbers.
LEMMA PowerExists ==
    ASSUME NEW c \in Nat
    PROVE  \E g : IsPower(c, g)
<1> DEFINE t(n) == CHOOSE u : IsTable(c, n, u)
           g == [n \in Nat |-> t(n)[n]]
<1>1. \A n \in Nat : IsTable(c, n, t(n))
  BY TableExists
<1>. HIDE DEF t
<1>2. ASSUME NEW n \in Nat PROVE g[n] = t(n)[n] /\ g[n] \in Nat
  BY <1>1 DEF IsTable
<1>3. g \in [Nat -> Nat]
  BY <1>2
<1>4. ASSUME NEW n \in Nat PROVE g[n + 1] = c * g[n]
  <2>1. PICK m \in Nat : m = n + 1 /\ n <= m
    OBVIOUS
  <2>2. PICK u, w : u = t(n) /\ w = t(m) /\ IsTable(c, n, u) /\ IsTable(c, m, w)
    BY <1>1
  <2>3. u[n] = w[n]
    BY <2>1, <2>2, TablesAgree
  <2>4. w[n + 1] = c * w[n]
    <3>1. n \in 0..m /\ n # m
      BY <2>1
    <3>. QED
      BY <2>2, <3>1 DEF IsTable
  <2>5. g[n] = u[n] /\ g[m] = w[m]
    BY <1>2, <2>2
  <2>. HIDE DEF g
  <2>. QED
    BY <2>1, <2>3, <2>4, <2>5
<1>5. g[0] = 1
  BY <1>1, <1>2 DEF IsTable
<1>. HIDE DEF g
<1>6. IsPower(c, g)
  BY <1>3, <1>4, <1>5 DEF IsPower
<1>. QED
  BY <1>6

-----------------------------------------------------------------------------
\* An inequality between integers is kept by a factor, and one between
\* products follows for the other factors.
LEMMA Scaled ==
    ASSUME NEW a \in Int, NEW b \in Int, NEW c \in Nat, a <= b
    PROVE  a * c <= b * c
<1>1. PICK d \in Nat : b = a + d
  <2>1. b - a \in Nat /\ b = a + (b - a)
    OBVIOUS
  <2>. QED
    BY <2>1
<1>2. b * c = a * c + d * c /\ d * c \in Nat
  BY <1>1
<1>. QED
  BY <1>2

LEMMA Cancelled ==
    ASSUME NEW a \in Int, NEW b \in Int, NEW c \in Nat \ {0}, a * c <= b * c
    PROVE  a <= b
<1>1. ASSUME a > b PROVE FALSE
  <2>1. PICK d \in Nat : a = b + d + 1
    <3>1. a - b - 1 \in Nat /\ a = b + (a - b - 1) + 1
      BY <1>1
    <3>. QED
      BY <3>1
  <2>2. a * c = b * c + d * c + c /\ d * c \in Nat
    BY <2>1
  <2>. QED
    BY <2>2
<1>. QED
  BY <1>1

\* Powers of one sum of exponents.
LEMMA PowerOfSum ==
    ASSUME NEW c \in Nat, NEW g, IsPower(c, g), NEW s \in Nat, NEW e \in Nat
    PROVE  g[s + e] = g[s] * g[e]
<1> DEFINE T == {i \in Nat : g[s + i] # g[s] * g[i]}
<1>0. \A i \in Nat : g[i] \in Nat
  BY DEF IsPower
<1>1. ASSUME T # {} PROVE FALSE
  <2>1. PICK i \in T : \A k \in T : i <= k
    <3>1. T \subseteq Nat
      OBVIOUS
    <3>. HIDE DEF T
    <3>. QED
      BY <1>1, <3>1, LeastNat
  <2>2. CASE i = 0
    <3>1. g[0] = 1 /\ s + 0 = s
      BY DEF IsPower
    <3>. QED
      BY <1>0, <2>1, <2>2, <3>1
  <2>3. CASE i # 0
    <3>1. PICK k \in Nat : i = k + 1
      <4>1. i \in Nat
        BY <2>1
      <4>2. i - 1 \in Nat /\ i = (i - 1) + 1
        BY <2>3, <4>1
      <4>. QED
        BY <4>2
    <3>2. g[s + k] = g[s] * g[k]
      <4>1. k \notin T
        BY <2>1, <3>1
      <4>. QED
        BY <4>1
    <3>3. g[k + 1] = c * g[k]
      BY DEF IsPower
    <3>4. PICK j \in Nat : j = s + k /\ s + i = j + 1
      BY <3>1
    <3>5. g[j + 1] = c * g[j]
      BY DEF IsPower
    <3>6. PICK x \in Nat, y \in Nat : x = g[s] /\ y = g[k]
      BY <1>0
    <3>7. g[s + i] = c * (x * y) /\ g[i] = c * y
      BY <3>1, <3>2, <3>3, <3>4, <3>5, <3>6
    <3>8. c * (x * y) = x * (c * y)
      OBVIOUS
    <3>. QED
      BY <2>1, <3>6, <3>7, <3>8
  <2>. QED
    BY <2>2, <2>3
<1>. QED
  BY <1>1

\* A positive number has positive powers.
LEMMA PowerPositive ==
    ASSUME NEW c \in Nat \ {0}, NEW g, IsPower(c, g), NEW e \in Nat
    PROVE  g[e] \in Nat \ {0}
<1> DEFINE T == {i \in Nat : g[i] = 0}
<1>0. \A i \in Nat : g[i] \in Nat
  BY DEF IsPower
<1>1. ASSUME T # {} PROVE FALSE
  <2>1. PICK i \in T : \A k \in T : i <= k
    <3>1. T \subseteq Nat
      OBVIOUS
    <3>. HIDE DEF T
    <3>. QED
      BY <1>1, <3>1, LeastNat
  <2>2. i # 0
    BY <2>1 DEF IsPower
  <2>3. PICK k \in Nat : i = k + 1
    <3>1. i \in Nat
      BY <2>1
    <3>2. i - 1 \in Nat /\ i = (i - 1) + 1
      BY <2>2, <3>1
    <3>. QED
      BY <3>2
  <2>4. g[k] # 0
    BY <2>1, <2>3
  <2>5. g[k + 1] = c * g[k]
    BY DEF IsPower
  <2>6. PICK x \in Nat \ {0} : x = g[k]
    BY <1>0, <2>4
  <2>7. PICK c1 \in Nat, x1 \in Nat : c = c1 + 1 /\ x = x1 + 1
    <3>1. c - 1 \in Nat /\ c = (c - 1) + 1 /\ x - 1 \in Nat /\ x = (x - 1) + 1
      OBVIOUS
    <3>. QED
      BY <3>1
  <2>8. c * x = c1 * x1 + c1 + x1 + 1 /\ c1 * x1 \in Nat
    BY <2>7
  <2>. QED
    BY <2>1, <2>3, <2>5, <2>6, <2>8
<1>. QED
  BY <1>0, <1>1

-----------------------------------------------------------------------------
\* How the powers of n and of the number before it compare (Bernoulli).
LEMMA Bernoulli ==
    ASSUME NEW n \in Nat \ {0}, NEW a, IsPower(n, a), NEW b, IsPower(n - 1, b), NEW e \in Nat
    PROVE  /\ (n + e) * b[e] <= n * a[e]
           /\ (n - 1 - e) * a[e] <= (n - 1) * b[e]
<1> DEFINE Good(i) == /\ (n + i) * b[i] <= n * a[i]
                      /\ (n - 1 - i) * a[i] <= (n - 1) * b[i]
           T == {i \in Nat : ~Good(i)}
<1>0. \A i \in Nat : a[i] \in Nat /\ b[i] \in Nat
  BY DEF IsPower
<1>1. ASSUME T # {} PROVE FALSE
  <2>1. PICK i \in T : \A k \in T : i <= k
    <3>1. T \subseteq Nat
      OBVIOUS
    <3>. HIDE DEF T
    <3>. QED
      BY <1>1, <3>1, LeastNat
  <2>2. CASE i = 0
    <3>1. a[0] = 1 /\ b[0] = 1
      BY DEF IsPower
    <3>2. (n + 0) * 1 <= n * 1 /\ (n - 1 - 0) * 1 <= (n - 1) * 1
      OBVIOUS
    <3>. QED
      BY <2>1, <2>2, <3>1, <3>2
  <2>3. CASE i # 0
    <3>1. PICK k \in Nat : i = k + 1
      <4>1. i \in Nat
        BY <2>1
      <4>2. i - 1 \in Nat /\ i = (i - 1) + 1
        BY <2>3, <4>1
      <4>. QED
        BY <4>2
    <3>2. PICK x \in Nat, y \in Nat : x = a[k] /\ y = b[k]
      BY <1>0
    <3>3. (n + k) * y <= n * x /\ (n - 1 - k) * x <= (n - 1) * y
      <4>1. k \notin T
        BY <2>1, <3>1
      <4>. QED
        BY <3>2, <4>1
    <3>4. a[i] = n * x /\ b[i] = (n - 1) * y
      BY <3>1, <3>2 DEF IsPower
    <3>. HIDE DEF T, Good
    <3>5. (n + i) * ((n - 1) * y) <= n * (n * x)
      <4>1. (n + i) * ((n - 1) * y) = (n * (n + k) - k - 1) * y
        <5>1. (n + i) * (n - 1) = n * (n + k) - k - 1
          BY <3>1
        <5>2. (n + i) * ((n - 1) * y) = ((n + i) * (n - 1)) * y
          BY <3>1
        <5>. QED
          BY <5>1, <5>2
      <4>2. (n * (n + k) - k - 1) * y <= (n * (n + k)) * y
        <5>1. n * (n + k) - k - 1 \in Int /\ n * (n + k) \in Int
              /\ n * (n + k) - k - 1 <= n * (n + k)
          OBVIOUS
        <5>. QED
          BY <5>1, Scaled
      <4>3. (n * (n + k)) * y = ((n + k) * y) * n /\ n * (n * x) = (n * x) * n
        OBVIOUS
      <4>4. ((n + k) * y) * n <= (n * x) * n
        <5>1. (n + k) * y \in Int /\ n * x \in Int
          OBVIOUS
        <5>. QED
          BY <3>3, <5>1, Scaled
      <4>5. PICK p \in Int, q \in Int, r \in Int :
              /\ p = (n + i) * ((n - 1) * y) /\ q = (n * (n + k)) * y /\ r = n * (n * x)
        BY <3>1
      <4>. QED
        BY <4>1, <4>2, <4>3, <4>4, <4>5
    <3>6. (n - 1 - i) * (n * x) <= (n - 1) * ((n - 1) * y)
      <4>1. (n - 1 - i) * (n * x) = ((n - 1) * (n - 1 - k) - k - 1) * x
        <5>1. (n - 1 - i) * n = (n - 1) * (n - 1 - k) - k - 1
          BY <3>1
        <5>2. (n - 1 - i) * (n * x) = ((n - 1 - i) * n) * x
          BY <3>1
        <5>. QED
          BY <5>1, <5>2
      <4>2. ((n - 1) * (n - 1 - k) - k - 1) * x <= ((n - 1) * (n - 1 - k)) * x
        <5>1. (n - 1) * (n - 1 - k) - k - 1 \in Int /\ (n - 1) * (n - 1 - k) \in Int
              /\ (n - 1) * (n - 1 - k) - k - 1 <= (n - 1) * (n - 1 - k)
          OBVIOUS
        <5>. QED
          BY <5>1, Scaled
      <4>3. /\ ((n - 1) * (n - 1 - k)) * x = ((n - 1 - k) * x) * (n - 1)
            /\ (n - 1) * ((n - 1) * y) = ((n - 1) * y) * (n - 1)
        OBVIOUS
      <4>4. ((n - 1 - k) * x) * (n - 1) <= ((n - 1) * y) * (n - 1)
        <5>1. (n - 1 - k) * x \in Int /\ (n - 1) * y \in Int /\ n - 1 \in Nat
          OBVIOUS
        <5>. QED
          BY <3>3, <5>1, Scaled
      <4>5. PICK p \in Int, q \in Int, r \in Int :
              /\ p = (n - 1 - i) * (n * x) /\ q = ((n - 1) * (n - 1 - k)) * x
              /\ r = (n - 1) * ((n - 1) * y)
        BY <3>1
      <4>. QED
        BY <4>1, <4>2, <4>3, <4>4, <4>5
    <3>7. Good(i)
      BY <3>4, <3>5, <3>6 DEF Good
    <3>. QED
      BY <2>1, <3>7 DEF T
  <2>. QED
    BY <2>2, <2>3
<1>. QED
  BY <1>1

\* The fees of the epoch's transactions fit, and the multiplier is within its
\* limits.
Pooled ==
    /\ pool \in Seq(0..MaxU64)
    /\ multiplier \in ONE..(MAX_MULTIPLIER * ONE)

\* An adjustment by one unit of utilization moves the multiplier by one part in
\* Steps.
Steps == 8 * TARGET_UTILIZATION

\* What an adjustment makes of the multiplier: it stays within the limits, and
\* unless the result is ONE, it is at most the exact product.
LEMMA Adjusted ==
    ASSUME NEW u \in Utilizations,
           NEW m \in ONE..(MAX_MULTIPLIER * ONE),
           NEW new, new = adjust_base_fee_multiplier(u, m)
    PROVE  /\ new \in ONE..(MAX_MULTIPLIER * ONE)
           /\ new # ONE => new * Steps <= m * (Steps + (u - TARGET_UTILIZATION))
<1>1. PICK one \in Nat \ {0}, max \in Nat \ {0}, half \in Nat \ {0}, x \in Nat :
        one = ONE /\ max = MAX_MULTIPLIER /\ half = TARGET_UTILIZATION /\ x = u
  BY PolicyAssumption, OneAssumption DEF ONE
<1>2. PICK top \in Nat : top = max * one /\ top >= one
  <2>1. PICK e \in Nat : max = e + 1
    <3>1. max - 1 \in Nat /\ max = (max - 1) + 1
      OBVIOUS
    <3>. QED
      BY <3>1
  <2>2. max * one = e * one + one /\ e * one \in Nat
    BY <2>1
  <2>. QED
    BY <2>2
<1>3. PICK n \in Nat : n = m /\ n >= one /\ n <= top
  BY <1>1, <1>2
<1>4. PICK k \in Nat \ {0}, p \in Nat : k = 8 * half /\ p = n * (7 * half + x)
  OBVIOUS
<1>5. PICK q \in Nat : q = p \div k
  OBVIOUS
<1>6. k * q <= p
  BY <1>5, Quotient
<1>7. new = clamp(q, one, top)
  BY <1>1, <1>2, <1>3, <1>4, <1>5 DEF adjust_base_fee_multiplier
<1>8. new \in one..top /\ (new # one => new <= q)
  BY <1>2, <1>7 DEF clamp
<1>9. PICK w \in Nat : w = new
  BY <1>8
<1>10. w # one => w * k <= p
  <2>1. ASSUME w # one PROVE w * k <= p
    <3>1. w * k <= q * k
      BY <1>8, <1>9, <2>1, Scaled
    <3>. QED
      BY <1>6, <3>1
  <2>. QED
    BY <2>1
<1>11. p = n * (k + (x - half))
  BY <1>4
<1>. QED
  BY <1>1, <1>2, <1>3, <1>4, <1>8, <1>9, <1>10, <1>11 DEF Steps

\* At genesis no fees have been collected.
LEMMA PooledInit ==
    ASSUME PolicyInit
    PROVE  Pooled
<1>1. pool = <<>> /\ multiplier = ONE
  BY DEF PolicyInit
<1>2. PICK one \in Nat \ {0}, max \in Nat \ {0} : one = ONE /\ max = MAX_MULTIPLIER
  BY PolicyAssumption, OneAssumption DEF ONE
<1>3. one \in one..(max * one)
  <2>1. PICK e \in Nat : max = e + 1
    <3>1. max - 1 \in Nat /\ max = (max - 1) + 1
      OBVIOUS
    <3>. QED
      BY <3>1
  <2>2. max * one = e * one + one /\ e * one \in Nat
    BY <2>1
  <2>. QED
    BY <2>2
<1>4. pool \in Seq(0..MaxU64)
  BY <1>1
<1>. QED
  BY <1>1, <1>2, <1>3, <1>4 DEF Pooled

\* A fee that is collected is a number of units that fits.
LEMMA FeeFits ==
    ASSUME Pooled, NEW type \in DOMAIN BaseFee, NEW overpay \in Overpay,
           NEW floor \in {minimum_fee(type), effective_minimum_fee(type, multiplier)},
           CollectFee(type, floor + overpay)
    PROVE  floor + overpay \in 0..MaxU64
<1>1. PICK one \in Nat \ {0}, base \in Nat, o \in Nat, max \in Nat, high \in Nat :
        /\ one = ONE /\ base = BaseFee[type] /\ o = overpay /\ max = MaxU64
        /\ high = MAX_MULTIPLIER * ONE
  BY PolicyAssumption, OneAssumption, WidthAssumption DEF ONE
<1>2. PICK m \in Nat : m = multiplier
  BY <1>1 DEF Pooled
<1>3. PICK x \in Nat : x = (base * m) \div one
  <2>1. PICK p \in Nat : p = base * m
    OBVIOUS
  <2>. QED
    BY <2>1
<1>4. floor \in Nat
  BY <1>1, <1>2, <1>3 DEF effective_minimum_fee, minimum_fee
<1>5. floor + overpay <= MaxU64
  BY DEF CollectFee
<1>. QED
  BY <1>1, <1>4, <1>5

\* The actions keep the pool and the multiplier within their limits.
LEMMA PooledStep ==
    ASSUME Pooled, [PolicyNext]_policy_vars
    PROVE  Pooled'
<1>1. CASE UNCHANGED <<pool, multiplier>>
  BY <1>1 DEF Pooled, ONE
<1>2. ASSUME NEW type \in DOMAIN BaseFee, NEW overpay \in Overpay,
             NEW floor \in {minimum_fee(type), effective_minimum_fee(type, multiplier)},
             CollectFee(type, floor + overpay)
      PROVE  Pooled'
  <2>1. PICK fee \in 0..MaxU64 : fee = floor + overpay
    BY <1>2, FeeFits
  <2>2. pool' = Append(pool, fee) /\ multiplier' = multiplier
    BY <1>2, <2>1 DEF CollectFee
  <2>3. pool' \in Seq(0..MaxU64)
    BY <2>2 DEF Pooled
  <2>. QED
    BY <2>2, <2>3 DEF Pooled, ONE
<1>3. ASSUME NEW interval \in Intervals, NEW utilization \in Utilizations,
             EpochBlock(interval, utilization)
      PROVE  Pooled'
  <2>1. pool' = <<>> /\ multiplier' = adjust_base_fee_multiplier(utilization, multiplier)
    BY <1>3 DEF EpochBlock
  <2>2. PICK new : new = adjust_base_fee_multiplier(utilization, multiplier)
    OBVIOUS
  <2>3. new \in ONE..(MAX_MULTIPLIER * ONE)
    BY <2>2, Adjusted DEF Pooled
  <2>4. pool' \in Seq(0..MaxU64)
    BY <2>1
  <2>5. multiplier' \in ONE..(MAX_MULTIPLIER * ONE)
    BY <2>1, <2>2, <2>3
  <2>. QED
    BY <2>4, <2>5 DEF Pooled, ONE
<1>. QED
  BY <1>1, <1>2, <1>3 DEF PolicyNext, policy_vars

\* The powers of Steps and of the number before it.
Up == CHOOSE a : IsPower(Steps, a)
Down == CHOOSE b : IsPower(Steps - 1, b)

\* They are positive, and adding exponents multiplies them.
LEMMA UpAndDown ==
    /\ Steps \in Nat /\ Steps >= 8
    /\ IsPower(Steps, Up) /\ IsPower(Steps - 1, Down)
    /\ \A e \in Nat : Up[e] \in Nat \ {0} /\ Down[e] \in Nat \ {0}
    /\ \A s \in Nat, e \in Nat : Up[s + e] = Up[s] * Up[e] /\ Down[s + e] = Down[s] * Down[e]
<1>1. PICK n \in Nat, m \in Nat \ {0} : n = Steps /\ n >= 8 /\ m = Steps - 1
  BY PolicyAssumption DEF Steps
<1>2. IsPower(n, Up) /\ IsPower(m, Down)
  BY <1>1, PowerExists DEF Up, Down
<1>3. \A e \in Nat : Up[e] \in Nat \ {0}
  <2>1. n \in Nat \ {0}
    BY <1>1
  <2>. QED
    BY <1>2, <2>1, PowerPositive
<1>4. \A e \in Nat : Down[e] \in Nat \ {0}
  BY <1>2, PowerPositive
<1>5. \A s \in Nat, e \in Nat : Up[s + e] = Up[s] * Up[e]
  BY <1>2, PowerOfSum
<1>6. \A s \in Nat, e \in Nat : Down[s + e] = Down[s] * Down[e]
  BY <1>2, PowerOfSum
<1>. QED
  BY <1>1, <1>2, <1>3, <1>4, <1>5, <1>6

\* The powers one unit apart.
LEMMA UpAgainstDown ==
    ASSUME NEW e \in Nat
    PROVE  /\ (Steps + e) * Down[e] <= Steps * Up[e]
           /\ (Steps - 1 - e) * Up[e] <= (Steps - 1) * Down[e]
           /\ Up[e + 1] = Steps * Up[e] /\ Down[e + 1] = (Steps - 1) * Down[e]
<1>1. PICK n \in Nat \ {0} : n = Steps
  BY UpAndDown
<1>2. IsPower(n, Up) /\ IsPower(n - 1, Down)
  BY <1>1, UpAndDown
<1>3. (n + e) * Down[e] <= n * Up[e] /\ (n - 1 - e) * Up[e] <= (n - 1) * Down[e]
  BY <1>2, Bernoulli
<1>. QED
  BY <1>1, <1>2, <1>3 DEF IsPower

\* m is at most (Steps / (Steps - 1))^s times one.
Within(m, one, s) == m * Down[s] <= one * Up[s]

\* An epoch above the target: a rise by e parts in Steps is at most e times a
\* rise by a factor of Steps / (Steps - 1).
LEMMA Rise ==
    ASSUME NEW m \in Nat, NEW one \in Nat, NEW s \in Nat, Within(m, one, s),
           NEW e \in Nat, NEW w \in Nat, w * Steps <= m * (Steps + e)
    PROVE  Within(w, one, s + e)
<1>1. PICK n \in Nat \ {0} : n = Steps
  BY UpAndDown
<1>2. PICK a \in Nat, b \in Nat, c \in Nat, d \in Nat :
        a = Up[s] /\ b = Down[s] /\ c = Up[e] /\ d = Down[e]
  BY UpAndDown
<1>3. Up[s + e] = a * c /\ Down[s + e] = b * d
  BY <1>2, UpAndDown
<1>4. m * b <= one * a /\ w * n <= m * (n + e)
  BY <1>1, <1>2 DEF Within
<1>5. (n + e) * d <= n * c
  BY <1>1, <1>2, UpAgainstDown
<1>6. (w * n) * (b * d) <= (m * (n + e)) * (b * d)
  <2>1. w * n \in Int /\ m * (n + e) \in Int /\ b * d \in Nat
    OBVIOUS
  <2>. QED
    BY <1>4, <2>1, Scaled
<1>7. (m * b) * ((n + e) * d) <= (one * a) * ((n + e) * d)
  <2>1. m * b \in Int /\ one * a \in Int /\ (n + e) * d \in Nat
    OBVIOUS
  <2>. QED
    BY <1>4, <2>1, Scaled
<1>8. ((n + e) * d) * (one * a) <= (n * c) * (one * a)
  <2>1. (n + e) * d \in Int /\ n * c \in Int /\ one * a \in Nat
    OBVIOUS
  <2>. QED
    BY <1>5, <2>1, Scaled
<1>9. /\ (w * n) * (b * d) = (w * (b * d)) * n
      /\ (m * (n + e)) * (b * d) = (m * b) * ((n + e) * d)
      /\ (one * a) * ((n + e) * d) = ((n + e) * d) * (one * a)
      /\ (n * c) * (one * a) = (one * (a * c)) * n
  <2>1. PICK k \in Nat : k = n + e
    OBVIOUS
  <2>2. (m * k) * (b * d) = (m * b) * (k * d) /\ (one * a) * (k * d) = (k * d) * (one * a)
    OBVIOUS
  <2>. QED
    BY <2>1, <2>2
<1>10. (w * (b * d)) * n <= (one * (a * c)) * n
  <2>1. PICK p \in Int, q \in Int, r \in Int, t \in Int :
          /\ p = (w * n) * (b * d) /\ q = (m * (n + e)) * (b * d)
          /\ r = (one * a) * ((n + e) * d) /\ t = (n * c) * (one * a)
    OBVIOUS
  <2>2. p <= q
    BY <1>6, <2>1
  <2>3. q <= r
    BY <1>7, <1>9, <2>1
  <2>4. r <= t
    BY <1>8, <1>9, <2>1
  <2>5. p <= t
    BY <2>2, <2>3, <2>4
  <2>. QED
    BY <1>9, <2>1, <2>5
<1>11. w * (b * d) <= one * (a * c)
  <2>1. w * (b * d) \in Int /\ one * (a * c) \in Int
    OBVIOUS
  <2>. QED
    BY <1>10, <2>1, Cancelled
<1>. QED
  BY <1>3, <1>11 DEF Within

\* An epoch below the target: a fall by k parts in Steps takes back at least k
\* times such a rise.
LEMMA Fall ==
    ASSUME NEW m \in Nat, NEW one \in Nat, NEW k \in Nat \ {0}, k <= Steps,
           NEW r \in Nat, Within(m, one, r + k),
           NEW w \in Nat, w * Steps <= m * (Steps - k)
    PROVE  Within(w, one, r)
<1>1. PICK n \in Nat \ {0}, g \in Nat : n = Steps /\ g = Steps - k
  BY UpAndDown
<1>2. PICK j \in Nat : k = j + 1
  <2>1. k - 1 \in Nat /\ k = (k - 1) + 1
    OBVIOUS
  <2>. QED
    BY <2>1
<1>3. PICK a \in Nat, b \in Nat, c \in Nat, d \in Nat \ {0} :
        a = Up[r] /\ b = Down[r] /\ c = Up[j] /\ d = Down[k]
  BY UpAndDown
<1>4. Up[k] = n * c
  BY <1>1, <1>2, <1>3, UpAgainstDown
<1>5. Up[r + k] = a * (n * c) /\ Down[r + k] = b * d
  <2>1. k \in Nat
    OBVIOUS
  <2>2. Up[r + k] = Up[r] * Up[k] /\ Down[r + k] = Down[r] * Down[k]
    BY <2>1, UpAndDown
  <2>. QED
    BY <1>3, <1>4, <2>2
<1>6. m * (b * d) <= one * (a * (n * c)) /\ w * n <= m * g
  BY <1>1, <1>5 DEF Within
<1>7. g * c <= d
  <2>1. (Steps - 1 - j) * Up[j] <= (Steps - 1) * Down[j] /\ Down[j + 1] = (Steps - 1) * Down[j]
    BY UpAgainstDown
  <2>2. Steps - 1 - j = g
    BY <1>1, <1>2
  <2>. QED
    BY <1>2, <1>3, <2>1, <2>2
<1>8. (w * n) * (b * d) <= (m * g) * (b * d)
  <2>1. w * n \in Int /\ m * g \in Int /\ b * d \in Nat
    OBVIOUS
  <2>. QED
    BY <1>6, <2>1, Scaled
<1>9. (m * (b * d)) * g <= (one * (a * (n * c))) * g
  <2>1. m * (b * d) \in Int /\ one * (a * (n * c)) \in Int
    OBVIOUS
  <2>. QED
    BY <1>6, <2>1, Scaled
<1>10. (g * c) * ((one * a) * n) <= d * ((one * a) * n)
  <2>1. g * c \in Int /\ d \in Int /\ (one * a) * n \in Nat
    OBVIOUS
  <2>. QED
    BY <1>7, <2>1, Scaled
<1>11. /\ (w * n) * (b * d) = (w * b) * (n * d)
       /\ (m * g) * (b * d) = (m * (b * d)) * g
       /\ (one * (a * (n * c))) * g = (g * c) * ((one * a) * n)
       /\ d * ((one * a) * n) = (one * a) * (n * d)
  OBVIOUS
<1>12. (w * b) * (n * d) <= (one * a) * (n * d)
  <2>1. PICK p \in Int, q \in Int, x \in Int, y \in Int :
          /\ p = (w * n) * (b * d) /\ q = (m * g) * (b * d)
          /\ x = (one * (a * (n * c))) * g /\ y = d * ((one * a) * n)
    OBVIOUS
  <2>2. p <= q
    BY <1>8, <2>1
  <2>3. q <= x
    BY <1>9, <1>11, <2>1
  <2>4. x <= y
    BY <1>10, <1>11, <2>1
  <2>5. p <= y
    BY <2>2, <2>3, <2>4
  <2>. QED
    BY <1>11, <2>1, <2>5
<1>13. w * b <= one * a
  <2>1. w * b \in Int /\ one * a \in Int /\ n * d \in Nat \ {0}
    <3>1. PICK n1 \in Nat, d1 \in Nat : n = n1 + 1 /\ d = d1 + 1
      <4>1. n - 1 \in Nat /\ n = (n - 1) + 1 /\ d - 1 \in Nat /\ d = (d - 1) + 1
        OBVIOUS
      <4>. QED
        BY <4>1
    <3>2. n * d = n1 * d1 + n1 + d1 + 1 /\ n1 * d1 \in Nat
      BY <3>1
    <3>. QED
      BY <3>2
  <2>. QED
    BY <1>12, <2>1, Cancelled
<1>. QED
  BY <1>3, <1>13 DEF Within

\* The multiplier is at most what surplus rises by one unit of utilization make
\* of ONE, each taken as a factor of Steps / (Steps - 1).  (The multiplier itself
\* is not a function of surplus: rises and falls of one size do not cancel out.)
Backed == surplus \in Nat /\ Within(multiplier, ONE, surplus)

\* Every step keeps the multiplier backed.
LEMMA BackedStep ==
    ASSUME Pooled, Backed, [PolicyNext]_policy_vars
    PROVE  Backed'
<1>0. \A m, one, s : Within(m, one, s)' = (m' * Down[s'] <= one' * Up[s'])
  BY DEF Within, Up, Down, Steps, IsPower
<1>1. CASE UNCHANGED <<multiplier, surplus>>
  BY <1>1 DEF Backed, Within, Up, Down, Steps, IsPower, ONE
<1>2. ASSUME NEW interval \in Intervals, NEW utilization \in Utilizations,
             EpochBlock(interval, utilization)
      PROVE  Backed'
  <2>1. PICK new : new = adjust_base_fee_multiplier(utilization, multiplier)
    OBVIOUS
  <2>2. /\ new \in ONE..(MAX_MULTIPLIER * ONE)
        /\ new # ONE =>
             new * Steps <= multiplier * (Steps + (utilization - TARGET_UTILIZATION))
    BY <2>1, Adjusted DEF Pooled
  <2>3. PICK one \in Nat \ {0}, m \in Nat, w \in Nat, s \in Nat :
          one = ONE /\ m = multiplier /\ w = new /\ s = surplus
    <3>1. ONE \in Nat \ {0} /\ MAX_MULTIPLIER * ONE \in Nat
      BY PolicyAssumption, OneAssumption DEF ONE
    <3>2. multiplier \in Nat
      BY <3>1 DEF Pooled
    <3>3. new \in Nat
      BY <2>2, <3>1
    <3>. QED
      BY <3>1, <3>2, <3>3 DEF Backed
  <2>4. PICK e \in Int : e = utilization - TARGET_UTILIZATION /\ Steps + e >= 0
    BY PolicyAssumption DEF Steps
  <2>5. multiplier' = w /\ surplus' = IF w = one THEN 0 ELSE s + e
    <3>1. surplus' = IF new = ONE THEN 0 ELSE surplus + utilization - TARGET_UTILIZATION
      BY <1>2, <2>1 DEF EpochBlock
    <3>2. s + e = surplus + utilization - TARGET_UTILIZATION
      BY <2>3, <2>4, PolicyAssumption
    <3>. QED
      BY <1>2, <2>1, <2>3, <3>1, <3>2 DEF EpochBlock
  <2>6. Within(m, one, s) /\ (w # one => w * Steps <= m * (Steps + e)) /\ w >= one
    BY <2>2, <2>3, <2>4 DEF Backed
  <2>7. surplus' \in Nat /\ Within(w, one, surplus')
    <3>1. CASE w = one
      <4>1. Up[0] = 1 /\ Down[0] = 1
        BY UpAndDown DEF IsPower
      <4>2. Within(one, one, 0)
        BY <4>1 DEF Within
      <4>. QED
        BY <2>5, <3>1, <4>2
    <3>2. CASE w # one /\ e >= 0
      <4>1. PICK d \in Nat : d = e
        BY <3>2
      <4>2. Within(w, one, s + d)
        BY <2>6, <3>2, <4>1, Rise
      <4>. QED
        BY <2>5, <3>2, <4>1, <4>2
    <3>3. CASE w # one /\ e < 0
      <4>1. PICK k \in Nat \ {0} : e = 0 - k /\ k <= Steps
        <5>0. PICK n \in Nat : n = Steps
          BY UpAndDown
        <5>1. 0 - e \in Nat \ {0} /\ e = 0 - (0 - e) /\ 0 - e <= n
          BY <2>4, <3>3, <5>0
        <5>. QED
          BY <5>0, <5>1
      <4>2. w * Steps <= m * (Steps - k)
        <5>1. Steps + e = Steps - k
          BY <4>1, UpAndDown
        <5>. QED
          BY <2>6, <3>3, <5>1
      <4>3. s >= k
        <5>1. ASSUME s < k PROVE FALSE
          <6>1. CASE s = 0
            <7>1. Up[0] = 1 /\ Down[0] = 1
              BY UpAndDown DEF IsPower
            <7>2. m <= one
              BY <2>6, <6>1, <7>1 DEF Within
            <7>3. PICK n \in Nat \ {0}, g \in Nat : n = Steps /\ g = Steps - k /\ g <= n
              BY <4>1, UpAndDown
            <7>4. m * g <= one * g
              BY <7>2, <7>3, Scaled
            <7>5. g * one <= n * one
              BY <7>3, Scaled
            <7>6. w * n <= one * n
              <8>1. PICK p \in Int, q \in Int, x \in Int, y \in Int :
                      p = w * n /\ q = m * g /\ x = one * g /\ y = one * n
                OBVIOUS
              <8>2. p <= q
                BY <4>2, <7>3, <8>1
              <8>3. q <= x
                BY <7>4, <8>1
              <8>4. x <= y
                BY <7>5, <8>1
              <8>. QED
                BY <8>1, <8>2, <8>3, <8>4
            <7>7. w <= one
              BY <7>3, <7>6, Cancelled
            <7>. QED
              BY <2>6, <3>3, <7>7
          <6>2. CASE s # 0
            <7>1. PICK l \in Nat \ {0} : l = s /\ 0 + l = s /\ l <= Steps /\ l <= k
              BY <4>1, <5>1, <6>2, UpAndDown
            <7>2. w * Steps <= m * (Steps - l)
              <8>1. PICK n \in Nat, g \in Nat, h \in Nat :
                      n = Steps /\ g = Steps - k /\ h = Steps - l /\ g <= h
                BY <4>1, <7>1, UpAndDown
              <8>2. g * m <= h * m
                BY <8>1, Scaled
              <8>3. PICK p \in Int, q \in Int, x \in Int : p = w * n /\ q = m * g /\ x = m * h
                OBVIOUS
              <8>4. p <= q /\ q <= x
                BY <4>2, <8>1, <8>2, <8>3
              <8>5. p <= x
                BY <8>4
              <8>. QED
                BY <8>1, <8>3, <8>5
            <7>3. Within(w, one, 0)
              <8>1. Within(m, one, 0 + l)
                BY <2>6, <7>1
              <8>. QED
                BY <7>1, <7>2, <8>1, Fall
            <7>4. w <= one
              <8>1. Up[0] = 1 /\ Down[0] = 1
                BY UpAndDown DEF IsPower
              <8>. QED
                BY <7>3, <8>1 DEF Within
            <7>. QED
              BY <2>6, <3>3, <7>4
          <6>. QED
            BY <6>1, <6>2
        <5>. QED
          BY <5>1
      <4>4. PICK r \in Nat : r = s - k /\ s = r + k /\ s + e = r
        <5>1. s - k \in Nat /\ s = (s - k) + k /\ s + e = s - k
          BY <4>1, <4>3
        <5>. QED
          BY <5>1
      <4>5. Within(w, one, r)
        <5>1. Within(m, one, r + k)
          BY <2>6, <4>4
        <5>. QED
          BY <4>1, <4>2, <5>1, Fall
      <4>. QED
        BY <2>5, <3>3, <4>4, <4>5
    <3>. QED
      BY <3>1, <3>2, <3>3
  <2>8. w * Down[surplus'] <= one * Up[surplus']
    BY <2>7 DEF Within
  <2>9. multiplier' = w /\ ONE' = one
    BY <2>3, <2>5 DEF ONE
  <2>. QED
    BY <2>7, <2>8, <2>9 DEF Backed, Within, Up, Down, Steps, IsPower
<1>. QED
  BY <1>1, <1>2 DEF PolicyNext, CollectFee, policy_vars

\* The multiplier stays within its limits, and is above 1 only while the epochs
\* since it was 1 were more than half full on average, for every limit and
\* however finely utilization is measured.
THEOREM EpochPolicyMultiplierFallsBack ==
    PolicySpec => []MultiplierFallsBack
<1>1. PolicyInit => Pooled /\ Backed
  <2>. SUFFICES ASSUME PolicyInit
                PROVE  Backed
    BY PooledInit
  <2>1. multiplier = ONE /\ surplus = 0
    BY DEF PolicyInit
  <2>2. Up[0] = 1 /\ Down[0] = 1
    BY UpAndDown DEF IsPower
  <2>3. PICK one \in Nat : one = ONE
    BY OneAssumption DEF ONE
  <2>4. Within(one, one, 0)
    BY <2>2 DEF Within
  <2>. QED
    BY <2>1, <2>3, <2>4 DEF Backed
<1>2. Pooled /\ Backed /\ [PolicyNext]_policy_vars => Pooled' /\ Backed'
  BY PooledStep, BackedStep
<1>3. Pooled /\ Backed => MultiplierFallsBack
  <2>. SUFFICES ASSUME Pooled, Backed, multiplier > ONE, surplus = 0
                PROVE  FALSE
    BY DEF MultiplierFallsBack, Pooled, Backed
  <2>1. Up[0] = 1 /\ Down[0] = 1
    BY UpAndDown DEF IsPower
  <2>2. PICK one \in Nat, m \in Nat : one = ONE /\ m = multiplier
    <3>1. ONE \in Nat /\ MAX_MULTIPLIER * ONE \in Nat
      BY PolicyAssumption, OneAssumption DEF ONE
    <3>2. multiplier \in Nat
      BY <3>1 DEF Pooled
    <3>. QED
      BY <3>1, <3>2
  <2>3. m * Down[0] <= one * Up[0]
    BY <2>2 DEF Backed, Within
  <2>. QED
    BY <2>1, <2>2, <2>3
<1>. QED
  BY <1>1, <1>2, <1>3, PTL DEF PolicySpec

-----------------------------------------------------------------------------
\* The reward after q halvings.
Half(q) == IF q < REWARD_BITS THEN GENESIS_BLOCK_REWARD \div 2^q ELSE 0

\* Each halving leaves at most half, however it is rounded.
LEMMA HalfStep ==
    ASSUME NEW q \in Nat
    PROVE  Half(q) \in Nat /\ Half(q + 1) \in Nat /\ 2 * Half(q + 1) <= Half(q)
<1>1. PICK G \in Nat, B \in Nat : G = GENESIS_BLOCK_REWARD /\ B = REWARD_BITS
  BY RewardAssumption
<1>2. ASSUME NEW n \in Nat, n < B
      PROVE  2^n \in Nat \ {0} /\ 2^(n + 1) = 2 * 2^n
  <2>1. n \in 0..REWARD_BITS
    BY <1>1, <1>2
  <2>. QED
    BY <2>1, PowerAssumption
<1>3. CASE q >= B
  <2>1. Half(q) = 0 /\ Half(q + 1) = 0
    BY <1>1, <1>3 DEF Half
  <2>. QED
    BY <2>1
<1>4. CASE q < B
  <2>1. PICK p \in Nat \ {0} : p = 2^q
    BY <1>2, <1>4
  <2>2. PICK a \in Nat : a = G \div p
    OBVIOUS
  <2>3. p * a <= G /\ G < p * a + p
    BY <2>2, Quotient
  <2>4. Half(q) = a
    BY <1>1, <1>4, <2>1, <2>2 DEF Half
  <2>5. CASE q + 1 >= B
    <3>1. Half(q + 1) = 0
      BY <1>1, <2>5 DEF Half
    <3>. QED
      BY <2>4, <3>1
  <2>6. CASE q + 1 < B
    <3>1. 2^(q + 1) = 2 * p
      BY <1>2, <1>4, <2>1
    <3>2. PICK d \in Nat \ {0} : d = 2 * p
      OBVIOUS
    <3>3. PICK b \in Nat : b = G \div d
      OBVIOUS
    <3>4. d * b <= G
      BY <3>3, Quotient
    <3>5. Half(q + 1) = b
      BY <1>1, <2>6, <3>1, <3>2, <3>3 DEF Half
    <3>6. ASSUME 2 * b > a PROVE FALSE
      <4>1. PICK e \in Nat : 2 * b = a + 1 + e
        <5>1. 2 * b - a - 1 \in Nat /\ 2 * b = a + 1 + (2 * b - a - 1)
          BY <3>6
        <5>. QED
          BY <5>1
      <4>2. p * (2 * b) = p * a + p + p * e /\ p * e >= 0
        BY <4>1
      <4>3. d * b = p * (2 * b)
        BY <3>2
      <4>. QED
        BY <2>3, <3>4, <4>2, <4>3
    <3>. QED
      BY <2>4, <3>5, <3>6
  <2>. QED
    BY <2>5, <2>6
<1>. QED
  BY <1>1, <1>3, <1>4

\* The quotient of a number given by quotient and remainder.
LEMMA QuotientOf ==
    ASSUME NEW q \in Nat, NEW m \in Nat \ {0}, NEW r \in 0..(m - 1)
    PROVE  q * m + r \in Nat /\ (q * m + r) \div m = q
<1>1. PICK p \in Nat : p = m * q
  OBVIOUS
<1>2. PICK d \in Nat : d = q * m + r /\ d = p + r
  BY <1>1
<1>3. PICK k \in Nat : k = d \div m
  OBVIOUS
<1>4. m * k <= d /\ d < m * k + m
  BY <1>3, Quotient
<1>5. ASSUME k > q PROVE FALSE
  <2>1. PICK e \in Nat : k = q + 1 + e
    <3>1. k - q - 1 \in Nat /\ k = q + 1 + (k - q - 1)
      BY <1>5
    <3>. QED
      BY <3>1
  <2>2. m * k = p + m + m * e /\ m * e >= 0
    BY <1>1, <2>1
  <2>. QED
    BY <1>2, <1>4, <2>2
<1>6. ASSUME k < q PROVE FALSE
  <2>1. PICK e \in Nat : q = k + 1 + e
    <3>1. q - k - 1 \in Nat /\ q = k + 1 + (q - k - 1)
      BY <1>6
    <3>. QED
      BY <3>1
  <2>2. p = m * k + m + m * e /\ m * e >= 0
    BY <1>1, <2>1
  <2>. QED
    BY <1>2, <1>4, <2>2
<1>. QED
  BY <1>2, <1>3, <1>5, <1>6

\* The reward of a block by its place between two halvings.
LEMMA RewardOf ==
    ASSUME NEW q \in Nat, NEW r \in 0..(HALVING_INTERVAL - 1),
           NEW h, h = q * HALVING_INTERVAL + r
    PROVE  h \in Nat /\ calculate_block_reward(h) = Half(q)
<1>1. PICK m \in Nat \ {0} : m = HALVING_INTERVAL
  BY RewardAssumption
<1>2. h \in Nat /\ h \div m = q
  BY <1>1, QuotientOf
<1>. QED
  BY <1>1, <1>2 DEF calculate_block_reward, Half

\* Every block has such a place.
LEMMA PlaceOf ==
    ASSUME NEW h \in Nat
    PROVE  \E q \in Nat, r \in 0..(HALVING_INTERVAL - 1) : h = q * HALVING_INTERVAL + r
<1>1. PICK m \in Nat \ {0} : m = HALVING_INTERVAL
  BY RewardAssumption
<1>2. PICK q \in Nat : q = h \div m
  OBVIOUS
<1>3. PICK p \in Nat : p = m * q /\ p = q * m
  OBVIOUS
<1>4. p <= h /\ h < p + m
  BY <1>2, <1>3, Quotient
<1>5. PICK r \in 0..(m - 1) : r = h - p
  BY <1>4
<1>6. h = q * m + r
  BY <1>3, <1>5
<1>. QED
  BY <1>1, <1>6

\* Rewards are numbers, also after the last halving.
LEMMA RewardIsNat ==
    ASSUME NEW h \in Nat
    PROVE  calculate_block_reward(h) \in Nat
<1>1. PICK q \in Nat, r \in 0..(HALVING_INTERVAL - 1) : h = q * HALVING_INTERVAL + r
  BY PlaceOf
<1>. QED
  BY <1>1, RewardOf, HalfStep

\* The table that calculate_mined_supply is defined by.
IsSupply(f) ==
    f = [i \in Nat |->
           IF i = 0 THEN saturating_add(0, calculate_block_reward(0))
           ELSE saturating_add(f[i - 1], calculate_block_reward(i))]

\* There is one: the sums of the rewards, cut off at MaxU64.
LEMMA SupplyExists ==
    \E f : IsSupply(f)
<1> DEFINE R == [i \in Nat |-> calculate_block_reward(i)]
           S(i) == SumFunctionOnSet(R, 0..i)
           f == [i \in Nat |-> IF S(i) <= MaxU64 THEN S(i) ELSE MaxU64]
<1>1. PICK max \in Nat : max = MaxU64
  BY WidthAssumption
<1>2. \A i \in Nat : R[i] = calculate_block_reward(i) /\ R[i] \in Nat
  BY RewardIsNat
<1>. HIDE DEF R
<1>3. ASSUME NEW i \in Nat
      PROVE  S(i) \in Nat
  <2>1. IsFiniteSet(0..i)
    BY FS_Interval
  <2>2. \A x \in 0..i : R[x] \in Nat
    BY <1>2
  <2>. QED
    BY <2>1, <2>2, SumNat
<1>4. S(0) = R[0]
  <2>1. IsFiniteSet(0..0) /\ 0 \in 0..0 /\ (0..0) \ {0} = {}
    <3>1. 0 \in Int
      OBVIOUS
    <3>2. IsFiniteSet(0..0)
      BY <3>1, FS_Interval
    <3>. QED
      BY <3>2
  <2>2. \A x \in 0..0 : R[x] \in Int
    BY <1>2
  <2>3. SumFunctionOnSet(R, 0..0) = R[0] + SumFunctionOnSet(R, {})
    BY <2>1, <2>2, SumRemove
  <2>. QED
    BY <1>2, <2>3, SumEmpty
<1>5. ASSUME NEW i \in Nat, NEW j \in Nat, i = j + 1
      PROVE  S(i) = S(j) + R[i]
  <2>1. IsFiniteSet(0..i) /\ i \in 0..i /\ (0..i) \ {i} = 0..j
    <3>1. IsFiniteSet(0..i)
      BY FS_Interval
    <3>. QED
      BY <1>5, <3>1
  <2>2. \A x \in 0..i : R[x] \in Int
    BY <1>2
  <2>3. SumFunctionOnSet(R, 0..i) = R[i] + SumFunctionOnSet(R, 0..j)
    <3>1. PICK T : T = 0..i
      OBVIOUS
    <3>2. IsFiniteSet(T) /\ i \in T /\ T \ {i} = 0..j /\ \A x \in T : R[x] \in Int
      BY <2>1, <2>2, <3>1
    <3>3. SumFunctionOnSet(R, T) = R[i] + SumFunctionOnSet(R, T \ {i})
      BY <3>2, SumRemove
    <3>. QED
      BY <3>1, <3>2, <3>3
  <2>. QED
    BY <1>2, <1>3, <2>3
<1>. HIDE DEF S
<1>6. ASSUME NEW i \in Nat
      PROVE  f[i] = IF S(i) <= max THEN S(i) ELSE max
  BY <1>1
<1>7. ASSUME NEW i \in Nat
      PROVE  f[i] = IF i = 0 THEN saturating_add(0, calculate_block_reward(0))
                    ELSE saturating_add(f[i - 1], calculate_block_reward(i))
  <2>. HIDE DEF f
  <2>1. CASE i = 0
    <3>1. PICK x \in Nat : x = R[0] /\ x = S(0) /\ x = calculate_block_reward(0)
      BY <1>2, <1>4
    <3>2. f[0] = IF x <= max THEN x ELSE max
      BY <1>6, <3>1
    <3>3. saturating_add(0, x) = IF x <= max THEN x ELSE max
      BY <1>1 DEF saturating_add, U64
    <3>. QED
      BY <2>1, <3>1, <3>2, <3>3
  <2>2. CASE i # 0
    <3>1. PICK j \in Nat : j = i - 1 /\ i = j + 1
      BY <2>2
    <3>2. PICK x \in Nat, s \in Nat, t \in Nat :
            x = R[i] /\ x = calculate_block_reward(i) /\ s = S(j) /\ t = S(i)
      BY <1>2, <1>3
    <3>3. t = s + x
      <4>1. S(i) = S(j) + R[i]
        BY <1>5, <3>1, Zenon
      <4>. QED
        BY <3>2, <4>1
    <3>4. f[i] = (IF t <= max THEN t ELSE max) /\ f[j] = (IF s <= max THEN s ELSE max)
      BY <1>6, <3>2
    <3>5. f[i] = saturating_add(f[j], x)
      BY <1>1, <3>3, <3>4 DEF saturating_add, U64
    <3>. QED
      BY <2>2, <3>1, <3>2, <3>5
  <2>. QED
    BY <2>1, <2>2
<1>8. f = [i \in Nat |-> f[i]]
  OBVIOUS
<1>. HIDE DEF f
<1>9. IsSupply(f)
  BY <1>7, <1>8 DEF IsSupply
<1>. QED
  BY <1>9

\* Each height adds its reward.
LEMMA SupplyStep ==
    /\ calculate_mined_supply(0)
         = saturating_add(0, calculate_block_reward(0))
    /\ \A h \in Nat :
         calculate_mined_supply(h + 1)
           = saturating_add(calculate_mined_supply(h),
                                   calculate_block_reward(h + 1))
<1> DEFINE f == CHOOSE g : IsSupply(g)
<1>1. IsSupply(f)
  BY SupplyExists
<1>2. \A h : calculate_mined_supply(h) = f[h]
  BY DEF calculate_mined_supply, IsSupply
<1>. HIDE DEF f
<1>3. \A i \in Nat : f[i] = IF i = 0 THEN saturating_add(0, calculate_block_reward(0))
                            ELSE saturating_add(f[i - 1], calculate_block_reward(i))
  BY <1>1 DEF IsSupply
<1>4. f[0] = saturating_add(0, calculate_block_reward(0))
  BY <1>3
<1>5. ASSUME NEW h \in Nat
      PROVE  f[h + 1] = saturating_add(f[h], calculate_block_reward(h + 1))
  <2>1. PICK i \in Nat : i = h + 1 /\ i # 0 /\ i - 1 = h
    OBVIOUS
  <2>2. f[i] = saturating_add(f[i - 1], calculate_block_reward(i))
    BY <1>3, <2>1
  <2>. QED
    BY <2>1, <2>2
<1>. QED
  BY <1>2, <1>4, <1>5

-----------------------------------------------------------------------------
\* The whole schedule, with twice the first interval's rewards as its cap, fits
\* the integers of the program.
CapFits == 2 * HALVING_INTERVAL * GENESIS_BLOCK_REWARD <= MaxU64

\* What the rewards of this height would add, paid until the interval ends and
\* for one interval more, leaves the coins below the cap.  (A halving leaves
\* enough of it, since the next interval pays at most half as much a block.)
Minted ==
    /\ height \in Nat /\ credited \in Nat
    /\ calculate_mined_supply(height) = credited
    /\ \E q \in Nat, r \in 0..(HALVING_INTERVAL - 1) :
         /\ height = q * HALVING_INTERVAL + r
         /\ credited + (2 * HALVING_INTERVAL - r - 1) * Half(q)
              <= 2 * HALVING_INTERVAL * GENESIS_BLOCK_REWARD

\* The next place and what it pays.
LEMMA NextPlace ==
    ASSUME NEW q \in Nat, NEW r \in 0..(HALVING_INTERVAL - 1),
           NEW c \in Nat, NEW cap \in Nat,
           c + (2 * HALVING_INTERVAL - r - 1) * Half(q) <= cap
    PROVE  \E p \in Nat, s \in 0..(HALVING_INTERVAL - 1) :
             /\ q * HALVING_INTERVAL + r + 1 = p * HALVING_INTERVAL + s
             /\ (c + Half(p)) + (2 * HALVING_INTERVAL - s - 1) * Half(p) <= cap
<1>1. PICK m \in Nat \ {0} : m = HALVING_INTERVAL
  BY RewardAssumption
<1>2. PICK a \in Nat, b \in Nat : a = Half(q) /\ b = Half(q + 1) /\ 2 * b <= a
  BY HalfStep
<1>3. r \in Nat /\ r <= m - 1
  BY <1>1
<1>4. CASE r + 1 < m
  <2>1. PICK s \in 0..(m - 1) : s = r + 1
    BY <1>3, <1>4
  <2>2. PICK k \in Nat : k = 2 * m - s - 1 /\ 2 * m - r - 1 = k + 1
    BY <2>1
  <2>3. (k + 1) * a = a + k * a /\ k * a \in Nat
    OBVIOUS
  <2>4. (c + a) + k * a <= cap
    BY <1>1, <1>2, <2>2, <2>3
  <2>5. PICK p \in Nat : p = q * m
    OBVIOUS
  <2>6. p + r + 1 = p + s
    BY <1>3, <2>1
  <2>. QED
    BY <1>1, <1>2, <2>1, <2>2, <2>4, <2>5, <2>6
<1>5. CASE r + 1 = m
  <2>1. 2 * m - r - 1 = m
    BY <1>3, <1>5
  <2>2. c + m * a <= cap
    BY <1>1, <1>2, <2>1
  <2>3. PICK d \in Nat : a = 2 * b + d
    <3>1. a - 2 * b \in Nat /\ a = 2 * b + (a - 2 * b)
      BY <1>2
    <3>. QED
      BY <3>1
  <2>4. m * a = 2 * (m * b) + m * d /\ m * d \in Nat /\ m * b \in Nat
    BY <2>3
  <2>5. (2 * m - 0 - 1) * b = 2 * (m * b) - b
    OBVIOUS
  <2>6. (c + b) + (2 * m - 0 - 1) * b <= cap
    <3>1. PICK x \in Nat, y \in Nat, z \in Int :
            x = m * b /\ y = m * d /\ z = (2 * m - 0 - 1) * b
      BY <2>4, <2>5
    <3>2. c + 2 * x + y <= cap /\ z = 2 * x - b
      BY <2>2, <2>4, <2>5, <3>1
    <3>3. c + b + z <= cap
      BY <3>2
    <3>. QED
      BY <3>1, <3>3
  <2>7. q * m + r + 1 = (q + 1) * m + 0
    <3>1. PICK p \in Nat : p = q * m /\ (q + 1) * m = p + m
      OBVIOUS
    <3>. QED
      BY <1>3, <1>5, <3>1
  <2>8. q + 1 \in Nat /\ 0 \in 0..(m - 1)
    OBVIOUS
  <2>. QED
    BY <1>1, <1>2, <2>6, <2>7, <2>8
<1>. QED
  BY <1>3, <1>4, <1>5

\* An epoch block mints its reward within the cap.
LEMMA MintedBlock ==
    ASSUME CapFits, Minted, NEW interval \in Intervals, NEW utilization \in Utilizations,
           EpochBlock(interval, utilization)
    PROVE  Minted'
<1>1. PICK m \in Nat \ {0}, G \in Nat, max \in Nat :
        m = HALVING_INTERVAL /\ G = GENESIS_BLOCK_REWARD /\ max = MaxU64
  BY WidthAssumption, RewardAssumption
<1>2. PICK cap \in Nat : cap = 2 * HALVING_INTERVAL * GENESIS_BLOCK_REWARD /\ cap <= max
  <2>1. 2 * m * G \in Nat
    OBVIOUS
  <2>. QED
    BY <1>1, <2>1 DEF CapFits
<1>3. PICK h \in Nat, c \in Nat : h = height /\ c = credited
  BY DEF Minted
<1>4. PICK q \in Nat, r \in 0..(HALVING_INTERVAL - 1) :
        /\ h = q * HALVING_INTERVAL + r
        /\ c + (2 * HALVING_INTERVAL - r - 1) * Half(q) <= cap
  BY <1>2, <1>3 DEF Minted
<1>5. PICK p \in Nat, s \in 0..(HALVING_INTERVAL - 1) :
        /\ q * HALVING_INTERVAL + r + 1 = p * HALVING_INTERVAL + s
        /\ (c + Half(p)) + (2 * HALVING_INTERVAL - s - 1) * Half(p) <= cap
  BY <1>4, NextPlace
<1>6. PICK R \in Nat : R = Half(p)
  BY HalfStep
<1>7. h + 1 \in Nat /\ h + 1 = p * HALVING_INTERVAL + s
  BY <1>4, <1>5
<1>8. calculate_block_reward(h + 1) = R
  BY <1>6, <1>7, RewardOf
<1>9. height' = h + 1 /\ credited' = c + R
  BY <1>3, <1>8 DEF EpochBlock
<1>10. c + R <= max
  <2>1. PICK k \in Nat : k = 2 * HALVING_INTERVAL - s - 1
    BY <1>1
  <2>2. PICK x \in Nat : x = k * R
    OBVIOUS
  <2>3. (c + R) + x <= cap
    BY <1>5, <1>6, <2>1, <2>2
  <2>. QED
    BY <1>2, <2>3
<1>11. calculate_mined_supply(h + 1) = c + R
  <2>1. calculate_mined_supply(h) = c
    BY <1>3 DEF Minted
  <2>2. calculate_mined_supply(h + 1) = saturating_add(c, R)
    BY <1>8, <2>1, SupplyStep
  <2>. QED
    BY <1>1, <1>10, <2>2 DEF saturating_add, U64
<1>12. PICK j \in Nat, d \in Nat : j = h + 1 /\ d = c + R
  OBVIOUS
<1>13. height' = j /\ credited' = d
  BY <1>9, <1>12
<1>14. calculate_mined_supply(height)' = calculate_mined_supply(height')
  BY DEF calculate_mined_supply, saturating_add, U64, calculate_block_reward
<1>15. Half(p)' = Half(p)
  BY DEF Half
<1>16. /\ j = p * HALVING_INTERVAL + s
       /\ d + (2 * HALVING_INTERVAL - s - 1) * Half(p)
            <= 2 * HALVING_INTERVAL * GENESIS_BLOCK_REWARD
  BY <1>2, <1>5, <1>6, <1>7, <1>12
<1>17. calculate_mined_supply(height)' = credited'
  BY <1>11, <1>12, <1>13, <1>14
<1>. QED
  BY <1>13, <1>16, <1>17 DEF Minted, Half

\* For every schedule whose cap fits the integers of the program: the supply
\* that calculate_mined_supply reports is what the epoch blocks have credited,
\* and stays within the cap.
THEOREM EpochPolicySupplyIsSumOfRewards ==
    ASSUME CapFits
    PROVE  PolicySpec => []SupplyIsSumOfRewards
<1>1. PolicyInit => Minted
  <2>. SUFFICES ASSUME PolicyInit
                PROVE  Minted
    OBVIOUS
  <2>1. PICK m \in Nat \ {0}, G \in Nat, max \in Nat :
          m = HALVING_INTERVAL /\ G = GENESIS_BLOCK_REWARD /\ max = MaxU64
    BY WidthAssumption, RewardAssumption
  <2>2. 0 = 0 * HALVING_INTERVAL + 0 /\ 0 \in 0..(HALVING_INTERVAL - 1)
    BY <2>1
  <2>3. PICK R \in Nat : R = Half(0) /\ calculate_block_reward(0) = R
    BY <2>2, RewardOf, HalfStep
  <2>4. R <= G
    <3>1. 2^0 = 1
      BY PowerAssumption
    <3>2. R = G \/ R = 0
      BY <2>1, <2>3, <3>1 DEF Half
    <3>. QED
      BY <3>2
  <2>5. PICK x \in Nat, y \in Nat : x = m * R /\ y = m * G
    OBVIOUS
  <2>6. x <= y /\ G <= y
    <3>1. PICK d \in Nat : G = R + d
      <4>1. G - R \in Nat /\ G = R + (G - R)
        BY <2>4
      <4>. QED
        BY <4>1
    <3>2. PICK e \in Nat : m = e + 1
      <4>1. m - 1 \in Nat /\ m = (m - 1) + 1
        OBVIOUS
      <4>. QED
        BY <4>1
    <3>3. m * G = m * R + m * d /\ m * d \in Nat
      BY <3>1
    <3>4. m * G = e * G + G /\ e * G \in Nat
      BY <3>2
    <3>. QED
      BY <2>5, <3>3, <3>4
  <2>7. R + (2 * m - 0 - 1) * R <= 2 * m * G
    <3>1. (2 * m - 0 - 1) * R = 2 * x - R
      BY <2>5
    <3>2. 2 * m * G = 2 * y
      BY <2>5
    <3>. QED
      BY <2>6, <3>1, <3>2
  <2>8. R <= max
    <3>1. 2 * y <= max
      BY <2>1, <2>5 DEF CapFits
    <3>. QED
      BY <2>4, <2>6, <3>1
  <2>9. height = 0 /\ credited = R
    BY <2>3 DEF PolicyInit
  <2>10. calculate_mined_supply(0) = R
    <3>1. calculate_mined_supply(0) = saturating_add(0, R)
      BY <2>3, SupplyStep
    <3>. QED
      BY <2>1, <2>8, <3>1 DEF saturating_add, U64
  <2>11. credited + (2 * HALVING_INTERVAL - 0 - 1) * Half(0)
           <= 2 * HALVING_INTERVAL * GENESIS_BLOCK_REWARD
    BY <2>1, <2>3, <2>7, <2>9
  <2>. QED
    BY <2>2, <2>9, <2>10, <2>11 DEF Minted
<1>2. Minted /\ [PolicyNext]_policy_vars => Minted'
  <2>. SUFFICES ASSUME Minted, [PolicyNext]_policy_vars
                PROVE  Minted'
    OBVIOUS
  <2>1. CASE UNCHANGED <<height, credited>>
    <3>1. calculate_mined_supply(height)' = calculate_mined_supply(height)
      BY <2>1 DEF calculate_mined_supply, saturating_add, U64, calculate_block_reward
    <3>. QED
      BY <2>1, <3>1 DEF Minted, Half
  <2>2. ASSUME NEW interval \in Intervals, NEW utilization \in Utilizations,
               EpochBlock(interval, utilization)
        PROVE  Minted'
    BY <2>2, MintedBlock
  <2>. QED
    BY <2>1, <2>2 DEF PolicyNext, CollectFee, policy_vars
<1>3. Minted => SupplyIsSumOfRewards
  <2>. SUFFICES ASSUME Minted
                PROVE  credited <= 2 * HALVING_INTERVAL * GENESIS_BLOCK_REWARD
    BY DEF SupplyIsSumOfRewards, Minted
  <2>1. PICK m \in Nat \ {0}, G \in Nat :
          m = HALVING_INTERVAL /\ G = GENESIS_BLOCK_REWARD
    BY RewardAssumption
  <2>2. PICK cap \in Nat : cap = 2 * HALVING_INTERVAL * GENESIS_BLOCK_REWARD
    <3>1. 2 * m * G \in Nat
      OBVIOUS
    <3>. QED
      BY <2>1, <3>1
  <2>3. PICK q \in Nat, r \in 0..(HALVING_INTERVAL - 1) :
          credited + (2 * HALVING_INTERVAL - r - 1) * Half(q) <= cap
    <3>1. PICK q \in Nat, r \in 0..(HALVING_INTERVAL - 1) :
            credited + (2 * HALVING_INTERVAL - r - 1) * Half(q)
              <= 2 * HALVING_INTERVAL * GENESIS_BLOCK_REWARD
      BY Zenon DEF Minted
    <3>. QED
      BY <2>2, <3>1
  <2>4. PICK k \in Nat, R \in Nat : k = 2 * HALVING_INTERVAL - r - 1 /\ R = Half(q)
    <3>1. 2 * HALVING_INTERVAL - r - 1 \in Nat
      BY <2>1
    <3>2. Half(q) \in Nat
      BY HalfStep
    <3>. QED
      BY <3>1, <3>2
  <2>5. PICK x \in Nat, c \in Nat : x = k * R /\ c = credited
    <3>1. credited \in Nat
      BY DEF Minted
    <3>. QED
      BY <3>1
  <2>6. c + x <= cap
    BY <2>3, <2>4, <2>5
  <2>. QED
    BY <2>2, <2>5, <2>6
<1>. QED
  BY <1>1, <1>2, <1>3, PTL DEF PolicySpec

-----------------------------------------------------------------------------
\* A number that fits does not wrap around.
LEMMA NoWrap ==
    ASSUME NEW n \in Nat, n <= MaxU64
    PROVE  Wrapped(n) = n
<1>1. PICK max \in Nat : max = MaxU64
  BY WidthAssumption
<1>2. n % (max + 1) = n
  BY <1>1
<1>. QED
  BY <1>1, <1>2 DEF Wrapped

\* h adds f up over every subset of S, element by element, as total_fees does.
WrappedSums(h, f, S) ==
    h = [s \in SUBSET S |-> IF s = {} THEN 0 ELSE Wrapped(f[Pick(s)] + h[s \ {Pick(s)}])]

\* total_fees is the last entry of such a table.
LEMMA TotalByDefinition ==
    ASSUME NEW txs
    PROVE  total_fees(txs)
             = (CHOOSE h : WrappedSums(h, txs, DOMAIN txs))[DOMAIN txs]
  BY DEF total_fees, FoldSeq, FoldFunction, FoldFunctionOnSet,
         MapThenFoldSet, WrappedSums, Pick

\* Wrapping around is taking the remainder: at most the number itself, and the
\* same whether a term was wrapped around before or not.
LEMMA WrappedTerm ==
    ASSUME NEW a \in Nat, NEW b \in Nat
    PROVE  /\ Wrapped(b) \in 0..MaxU64 /\ Wrapped(b) <= b
           /\ Wrapped(a + Wrapped(b)) = Wrapped(a + b)
<1>1. PICK m \in Nat \ {0} : m = MaxU64 + 1
  BY WidthAssumption
<1>2. ASSUME NEW n \in Nat
      PROVE  \E q \in Nat, r \in 0..(m - 1) : n = m * q + r /\ n % m = r
  <2>1. PICK q \in Nat : q = n \div m
    OBVIOUS
  <2>2. n % m \in 0..(m - 1) /\ n = m * (n \div m) + (n % m)
    OBVIOUS
  <2>. QED
    BY <2>1, <2>2
<1>3. PICK q \in Nat, r \in 0..(m - 1) : b = m * q + r /\ b % m = r
  BY <1>2
<1>4. PICK p \in Nat, x \in 0..(m - 1) : a + r = m * p + x /\ (a + r) % m = x
  <2>1. a + r \in Nat
    OBVIOUS
  <2>. QED
    BY <1>2, <2>1
<1>5. PICK k \in Nat, y \in 0..(m - 1) : a + b = m * k + y /\ (a + b) % m = y
  <2>1. a + b \in Nat
    OBVIOUS
  <2>. QED
    BY <1>2, <2>1
<1>6. x = y
  <2>1. PICK l \in Nat : l = p + q
    OBVIOUS
  <2>2. a + b = m * l + x
    <3>1. m * l = m * p + m * q
      BY <2>1
    <3>. QED
      BY <1>3, <1>4, <3>1
  <2>3. m * l + x = m * k + y
    BY <1>5, <2>2
  <2>4. /\ l * m + x \in Nat /\ (l * m + x) \div m = l
        /\ k * m + y \in Nat /\ (k * m + y) \div m = k
    BY QuotientOf
  <2>5. l * m + x = k * m + y
    BY <2>3
  <2>6. l = k
    BY <2>4, <2>5
  <2>. QED
    BY <2>3, <2>6
<1>7. Wrapped(b) = r
  BY <1>1, <1>3 DEF Wrapped
<1>8. Wrapped(a + r) = x /\ Wrapped(a + b) = y
  BY <1>1, <1>4, <1>5 DEF Wrapped
<1>9. r <= b
  <2>1. m * q \in Nat
    OBVIOUS
  <2>. QED
    BY <1>3, <2>1
<1>. QED
  BY <1>1, <1>6, <1>7, <1>8, <1>9, WidthAssumption

LEMMA WrappedAtMost ==
    \A n \in Nat : Wrapped(n) \in Nat /\ Wrapped(n) <= n
<1>1. ASSUME NEW n \in Nat PROVE Wrapped(n) \in Nat /\ Wrapped(n) <= n
  <2>1. 0 \in Nat /\ MaxU64 \in Nat
    BY WidthAssumption
  <2>2. Wrapped(n) \in 0..MaxU64 /\ Wrapped(n) <= n
    BY <2>1, WrappedTerm
  <2>. QED
    BY <2>1, <2>2
<1>. QED
  BY <1>1

\* Fees are added up in any order, wrapping around.
LEMMA TotalIsSum ==
    ASSUME NEW txs \in Seq(Nat)
    PROVE  total_fees(txs) = Wrapped(SumFunction(txs))
<1>1. PICK S : S = DOMAIN txs
  OBVIOUS
<1>2. IsFiniteSet(S) /\ \A x \in S : txs[x] \in Nat
  <2>1. DOMAIN txs = 1..Len(txs) /\ Len(txs) \in Nat /\ 1 \in Int
    OBVIOUS
  <2>2. IsFiniteSet(DOMAIN txs)
    BY <2>1, FS_Interval
  <2>. QED
    BY <1>1, <2>2
<1> DEFINE h == [s \in SUBSET S |-> Wrapped(SumFunctionOnSet(txs, s))]
           Step(k, s) == IF s = {} THEN 0 ELSE Wrapped(txs[Pick(s)] + k[s \ {Pick(s)}])
<1>5. ASSUME NEW s \in SUBSET S
      PROVE  h[s] = Step(h, s)
  <2>1. h[{}] = 0
    <3>1. Wrapped(0) = 0
      BY NoWrap, WidthAssumption
    <3>. QED
      BY <3>1, SumEmpty
  <2>2. CASE s = {}
    BY <2>1, <2>2
  <2>3. CASE s # {}
    <3>1. PICK p : p = Pick(s)
      OBVIOUS
    <3>2. p \in s
      BY <2>3, <3>1 DEF Pick
    <3>3. PICK r \in SUBSET S : r = s \ {p}
      OBVIOUS
    <3>4. IsFiniteSet(s) /\ \A x \in s : txs[x] \in Int
      BY <1>2, FS_Subset
    <3>5. SumFunctionOnSet(txs, s) = txs[p] + SumFunctionOnSet(txs, r)
      BY <3>2, <3>3, <3>4, SumRemove
    <3>6. SumFunctionOnSet(txs, r) \in Nat /\ txs[p] \in Nat
      BY <1>2, <3>2, SumSubset
    <3>7. PICK n \in Nat, k \in Nat : n = SumFunctionOnSet(txs, r) /\ k = txs[p]
      BY <3>6
    <3>8. Wrapped(k + Wrapped(n)) = Wrapped(k + n)
      BY <3>7, WrappedTerm
    <3>9. h[s] = Wrapped(SumFunctionOnSet(txs, s)) /\ h[r] = Wrapped(SumFunctionOnSet(txs, r))
      OBVIOUS
    <3>. HIDE DEF h
    <3>10. h[s] = Wrapped(k + n) /\ h[r] = Wrapped(n)
      BY <3>5, <3>7, <3>9
    <3>. QED
      BY <2>3, <3>1, <3>3, <3>7, <3>8, <3>10
  <2>. QED
    BY <2>2, <2>3
<1>6. WrappedSums(h, txs, S)
  <2>1. h = [s \in SUBSET S |-> h[s]]
    OBVIOUS
  <2>. HIDE DEF h
  <2>2. h = [s \in SUBSET S |-> Step(h, s)]
    <3>. HIDE DEF Step
    <3>. QED
      BY <1>5, <2>1
  <2>. QED
    BY <2>2 DEF WrappedSums
<1>7. h[S] = Wrapped(SumFunction(txs))
  BY <1>1 DEF SumFunction
<1>. HIDE DEF h
<1>8. PICK k : k = CHOOSE g : WrappedSums(g, txs, S)
  OBVIOUS
<1>9. WrappedSums(k, txs, S)
  BY <1>6, <1>8
<1>10. \A s \in SUBSET S : k[s] = Step(k, s)
  <2>1. k = [s \in SUBSET S |-> Step(k, s)]
    BY <1>9 DEF WrappedSums
  <2>. HIDE DEF Step
  <2>. QED
    BY <2>1, Zenon
<1> DEFINE T == {s \in SUBSET S : k[s] # h[s]}
<1>11. ASSUME T # {} PROVE FALSE
  <2>1. PICK m \in T : \A t \in SUBSET m : t \in T => t = m
    <3>1. T \subseteq SUBSET S
      OBVIOUS
    <3>. HIDE DEF T
    <3>. QED
      BY <1>2, <1>11, <3>1, LeastSubset
  <2>2. m \in SUBSET S /\ k[m] # h[m]
    BY <2>1
  <2>3. m # {}
    BY <1>5, <1>10, <2>2
  <2>4. PICK r \in SUBSET S : r = m \ {Pick(m)} /\ r \in SUBSET m /\ r # m
    <3>1. Pick(m) \in m
      BY <2>3 DEF Pick
    <3>2. /\ m \ {Pick(m)} \in SUBSET S /\ m \ {Pick(m)} \in SUBSET m
          /\ m \ {Pick(m)} # m
      BY <2>2, <3>1
    <3>. QED
      BY <3>2, Zenon
  <2>5. k[r] = h[r]
    BY <2>1, <2>4
  <2>6. Step(k, m) = Step(h, m)
    <3>1. k[m \ {Pick(m)}] = h[m \ {Pick(m)}]
      BY <2>4, <2>5, Zenon
    <3>. QED
      BY <3>1, Zenon
  <2>. HIDE DEF Step
  <2>. QED
    BY <1>5, <1>10, <2>2, <2>6
<1>12. k[S] = h[S]
  BY <1>11
<1>. QED
  BY <1>1, <1>7, <1>8, <1>12, TotalByDefinition

\* The parts of a fee: they add up to it, the treasury's is at most what
\* apply_fee_split pays, and the validators' is at most two fifths; where no
\* product wraps around they are that, rounded down.
IsSplit(fee, b, v, t) ==
    /\ calculate_fee_split(fee) = [burn |-> b, validators |-> v, treasury |-> t]
    /\ b + v + t = fee
    /\ t <= treasury_share(fee) /\ 10 * treasury_share(fee) <= fee
    /\ 5 * v <= 2 * fee
    /\ 5000 * fee <= MaxU64 => t = treasury_share(fee) /\ 2 * fee <= 5 * v + 4

\* Every fee that fits has such parts.
LEMMA SplitOf ==
    ASSUME NEW fee \in 0..MaxU64
    PROVE  \E b \in Nat, v \in Nat, t \in Nat : IsSplit(fee, b, v, t)
<1>1. PICK top \in Nat, u \in Nat : top = MaxU64 /\ u = fee \div 10
  BY WidthAssumption
<1>2. PICK x \in Nat, y \in Nat, z \in Nat :
        x = Wrapped(fee * 5000) /\ y = Wrapped(fee * 4000) /\ z = Wrapped(fee * 1000)
  <2>1. fee * 5000 \in Nat /\ fee * 4000 \in Nat /\ fee * 1000 \in Nat
    OBVIOUS
  <2>2. Wrapped(fee * 5000) \in Nat /\ Wrapped(fee * 4000) \in Nat /\ Wrapped(fee * 1000) \in Nat
    BY <1>1, <2>1, WrappedTerm
  <2>. QED
    BY <2>2
<1>3. /\ x <= fee * 5000 /\ y <= fee * 4000 /\ z <= fee * 1000
      /\ 5000 * fee <= top => x = fee * 5000 /\ y = fee * 4000 /\ z = fee * 1000
  <2>1. PICK i \in Nat, j \in Nat, k \in Nat :
          i = fee * 5000 /\ j = fee * 4000 /\ k = fee * 1000
    OBVIOUS
  <2>2. x <= i /\ y <= j /\ z <= k
    BY <1>2, <2>1, WrappedTerm
  <2>3. ASSUME 5000 * fee <= top PROVE x = i /\ y = j /\ z = k
    <3>1. i <= MaxU64 /\ j <= MaxU64 /\ k <= MaxU64
      BY <1>1, <2>1, <2>3
    <3>. QED
      BY <1>2, <2>1, <3>1, NoWrap
  <2>. QED
    BY <2>1, <2>2, <2>3
<1>4. PICK b \in Nat, v \in Nat, t \in Nat :
        b = x \div 10000 /\ v = y \div 10000 /\ t = z \div 10000
  <2>1. x \div 10000 \in Nat /\ y \div 10000 \in Nat /\ z \div 10000 \in Nat
    OBVIOUS
  <2>. QED
    BY <2>1
<1>5. /\ calculate_burn_amount(fee) = b
      /\ calculate_validator_amount(fee) = v
      /\ calculate_treasury_amount(fee) = t
      /\ treasury_share(fee) = u
  BY <1>1, <1>2, <1>4 DEF calculate_burn_amount, calculate_validator_amount,
                    calculate_treasury_amount, Share, treasury_share
<1>6. /\ b + v + t <= fee
      /\ t <= u /\ 10 * u <= fee
      /\ 5 * v <= 2 * fee
      /\ 5000 * fee <= top => t = u /\ 2 * fee <= 5 * v + 4
  <2>1. PICK ten \in Nat \ {0}, all \in Nat \ {0} : ten = 10 /\ all = 10000
    OBVIOUS
  <2>2. /\ all * b <= x
        /\ all * v <= y /\ y < all * v + all
        /\ all * t <= z /\ z < all * t + all
        /\ ten * u <= fee /\ fee < ten * u + ten
    <3>1. b = x \div all /\ v = y \div all /\ t = z \div all /\ u = fee \div ten
      BY <1>1, <1>4, <2>1
    <3>. QED
      BY <3>1, Quotient
  <2>3. /\ 10000 * b <= x
        /\ 10000 * v <= y /\ y < 10000 * v + 10000
        /\ 10000 * t <= z /\ z < 10000 * t + 10000
        /\ 10 * u <= fee /\ fee < 10 * u + 10
    BY <2>1, <2>2
  <2>. QED
    BY <1>3, <2>3
<1>7. PICK c \in Nat : c = fee - v - t
  <2>1. fee - v - t \in Nat
    BY <1>6
  <2>. QED
    BY <2>1
<1>8. saturating_sub(saturating_sub(saturating_sub(fee, b), v), t)
        = fee - b - v - t
  BY <1>6 DEF saturating_sub
<1>9. Wrapped(b + (fee - b - v - t)) = c
  <2>1. b + (fee - b - v - t) = c /\ c <= MaxU64
    BY <1>1, <1>7
  <2>2. Wrapped(c) = c
    BY <2>1, NoWrap
  <2>. QED
    BY <2>1, <2>2
<1>10. calculate_fee_split(fee) = [burn |-> c, validators |-> v, treasury |-> t]
  BY <1>5, <1>8, <1>9 DEF calculate_fee_split
<1>11. c + v + t = fee
  BY <1>6, <1>7
<1>12. IsSplit(fee, c, v, t)
  BY <1>1, <1>5, <1>6, <1>10, <1>11 DEF IsSplit
<1>. QED
  BY <1>12

\* The validators' share of any fees is at most two fifths of them, and that,
\* rounded down, where no product wraps around.
LEMMA ShareOf ==
    ASSUME NEW txs \in Seq(Nat), NEW P \in Nat, P = SumFunction(txs)
    PROVE  \E w \in Nat :
             /\ w = calculate_validator_fee_share(total_fees(txs))
             /\ 5 * w <= 2 * P
             /\ 40 * P <= MaxU64 => 2 * P <= 5 * w + 4
<1>1. PICK top \in Nat : top = MaxU64
  BY WidthAssumption
<1>2. PICK x \in Nat : x = total_fees(txs) /\ x <= P /\ (P <= top => x = P)
  <2>1. total_fees(txs) = Wrapped(P)
    BY TotalIsSum
  <2>2. Wrapped(P) \in Nat /\ Wrapped(P) <= P
    BY <1>1, WrappedTerm
  <2>3. P <= top => Wrapped(P) = P
    BY <1>1, NoWrap
  <2>. QED
    BY <2>1, <2>2, <2>3
<1>3. PICK z \in Nat : z = x * 40
  OBVIOUS
<1>4. PICK y \in Nat : y = Wrapped(z) /\ y <= z /\ (z <= top => y = z)
  <2>1. Wrapped(z) \in Nat /\ Wrapped(z) <= z
    BY WrappedAtMost
  <2>2. z <= top => Wrapped(z) = z
    BY <1>1, NoWrap
  <2>. QED
    BY <2>1, <2>2
<1>5. PICK w \in Nat : w = y \div 100
  OBVIOUS
<1>6. 100 * w <= y /\ y < 100 * w + 100
  BY <1>5
<1>7. calculate_validator_fee_share(x) = w
  BY <1>3, <1>4, <1>5 DEF calculate_validator_fee_share
<1>8. 5 * w <= 2 * P
  BY <1>2, <1>3, <1>4, <1>6
<1>9. 40 * P <= top => 2 * P <= 5 * w + 4
  <2>1. ASSUME 40 * P <= top PROVE 2 * P <= 5 * w + 4
    <3>1. x = P
      BY <1>2, <2>1
    <3>2. y = 40 * P
      BY <1>3, <1>4, <2>1, <3>1
    <3>. QED
      BY <1>6, <3>2
  <2>. QED
    BY <2>1
<1>. QED
  BY <1>1, <1>2, <1>7, <1>8, <1>9

\* What is paid is what was quoted, up to rounding.
Agreed(n, V, T, v, t, P) ==
    t = T /\ 5 * (v - V) <= 2 * P /\ 2 * P <= 5 * (v + n - V)

\* The books of all epochs and P, the fees of this one that the validators have
\* not been paid their share of.  The share is rounded once an epoch, the quoted
\* one at every fee.
Books(C, n, V, T, b, v, t, P) ==
    /\ fees = [collected |-> C, count |-> n, validators |-> V, treasury |-> T]
    /\ quoted = [burn |-> b, validators |-> v, treasury |-> t]
    /\ P = SumFunction(pool)
    /\ b + v + t = C /\ t <= T /\ 10 * T <= C
    /\ 5 * V <= 2 * (C - P)
    /\ ~wrapped => Agreed(n, V, T, v, t, P)

Booked ==
    \E C \in Nat, n \in Nat, V \in Nat, T \in Nat, b \in Nat, v \in Nat, t \in Nat, P \in Nat :
       Books(C, n, V, T, b, v, t, P)

\* Appending a fee adds it to the sum.
LEMMA SumAppended ==
    ASSUME NEW txs \in Seq(Nat), NEW fee \in Nat
    PROVE  /\ SumFunction(txs) \in Nat
           /\ SumFunction(Append(txs, fee)) = SumFunction(txs) + fee
<1>1. PICK n \in Nat : n = Len(txs)
  OBVIOUS
<1>2. DOMAIN txs = 1..n /\ \A x \in DOMAIN txs : txs[x] \in Nat
  BY <1>1
<1>3. IsFiniteSet(DOMAIN txs)
  <2>1. 1 \in Int /\ n \in Int
    OBVIOUS
  <2>. QED
    BY <1>2, <2>1, FS_Interval
<1>4. PICK g : g = Append(txs, fee)
  OBVIOUS
<1>5. PICK D, E, a : D = DOMAIN g /\ E = DOMAIN txs /\ a = n + 1
  OBVIOUS
<1>6. /\ IsFiniteSet(D) /\ IsFiniteSet(E) /\ a \in D /\ D \ {a} = E
      /\ g[a] = fee /\ (\A x \in E : g[x] = txs[x]) /\ \A x \in D : g[x] \in Int
  <2>1. g \in Seq(Nat) /\ Len(g) = n + 1
    BY <1>1, <1>4
  <2>2. D = 1..(n + 1) /\ E = 1..n
    BY <1>2, <1>5, <2>1
  <2>3. IsFiniteSet(D)
    <3>1. 1 \in Int /\ n + 1 \in Int
      OBVIOUS
    <3>. QED
      BY <2>2, <3>1, FS_Interval
  <2>4. a \in D /\ D \ {a} = E
    BY <1>5, <2>2
  <2>5. g[a] = fee /\ \A x \in E : g[x] = txs[x]
    BY <1>1, <1>4, <1>5, <2>2
  <2>6. \A x \in D : g[x] \in Int
    BY <2>1, <2>2
  <2>. QED
    BY <1>3, <1>5, <2>3, <2>4, <2>5, <2>6
<1>7. SumFunction(g) = fee + SumFunction(txs)
  <2>1. SumFunctionOnSet(g, D) = fee + SumFunctionOnSet(g, E)
    BY <1>6, SumRemove
  <2>2. SumFunctionOnSet(g, E) = SumFunctionOnSet(txs, E)
    BY <1>6, SumSame
  <2>. QED
    BY <1>5, <2>1, <2>2 DEF SumFunction
<1>8. SumFunction(txs) \in Nat
  BY <1>2, <1>3, SumNat DEF SumFunction
<1>. QED
  BY <1>4, <1>7, <1>8

\* The products of the fee's shares do not wrap around.
Exact(fee) == 5000 * fee <= MaxU64

\* A fee after which no product has wrapped around did not wrap around itself.
LEMMA FeeDidNotWrap ==
    ASSUME NEW type, NEW fee \in 0..MaxU64, CollectFee(type, fee), ~wrapped'
    PROVE  ~wrapped /\ Exact(fee)
<1>1. PICK x, max : x = 5000 * fee /\ max = MaxU64
  OBVIOUS
<1>2. wrapped' = (wrapped \/ x > max)
  BY <1>1 DEF CollectFee
<1>3. ~wrapped /\ ~(x > max)
  BY <1>2, Zenon
<1>4. ~(x > max) => Exact(fee)
  BY <1>1, WidthAssumption DEF Exact
<1>. QED
  BY <1>3, <1>4, Zenon

\* A transaction's fee is entered into the books.
LEMMA BookedFee ==
    ASSUME Pooled, Booked, NEW type \in DOMAIN BaseFee,
           NEW fee \in 0..MaxU64, CollectFee(type, fee)
    PROVE  Booked'
<1>a. ~wrapped' => ~wrapped /\ Exact(fee)
  BY FeeDidNotWrap
<1>1. PICK b1 \in Nat, v1 \in Nat, t1 \in Nat : IsSplit(fee, b1, v1, t1)
  BY SplitOf
<1>2. PICK C \in Nat, n \in Nat, V \in Nat, T \in Nat, b \in Nat, v \in Nat, t \in Nat, P \in Nat :
        Books(C, n, V, T, b, v, t, P)
  BY DEF Booked
<1>3. PICK T1 \in Nat, F \in Nat : T1 = treasury_share(fee) /\ F = fee
  <2>1. fee \in Nat /\ fee \div 10 \in Nat
    BY WidthAssumption
  <2>. QED
    BY <2>1 DEF treasury_share
<1>b. ~wrapped' => Agreed(n, V, T, v, t, P) /\ Exact(F)
  <2>1. ~wrapped => Agreed(n, V, T, v, t, P)
    BY <1>2, Zenon DEF Books
  <2>2. F = fee
    BY <1>3
  <2>. QED
    BY <1>a, <2>1, <2>2, Zenon
<1>4. /\ fees.collected = C /\ fees.count = n /\ fees.validators = V /\ fees.treasury = T
      /\ quoted.burn = b /\ quoted.validators = v /\ quoted.treasury = t
  BY <1>2 DEF Books
<1>5. /\ pool' = Append(pool, F)
      /\ fees' = [collected |-> C + F, count |-> n + 1, validators |-> V, treasury |-> T + T1]
      /\ quoted' = [burn |-> b + b1, validators |-> v + v1, treasury |-> t + t1]
  <2>1. /\ pool' = Append(pool, fee)
        /\ fees' = [collected |-> fees.collected + fee, count |-> fees.count + 1,
                    validators |-> fees.validators,
                    treasury |-> fees.treasury + treasury_share(fee)]
        /\ quoted' = [burn |-> quoted.burn + calculate_fee_split(fee).burn,
                      validators |-> quoted.validators + calculate_fee_split(fee).validators,
                      treasury |-> quoted.treasury + calculate_fee_split(fee).treasury]
    BY DEF CollectFee
  <2>2. /\ calculate_fee_split(fee).burn = b1
        /\ calculate_fee_split(fee).validators = v1
        /\ calculate_fee_split(fee).treasury = t1
    BY <1>1 DEF IsSplit
  <2>. QED
    BY <1>3, <1>4, <2>1, <2>2, Zenon
<1>6. P + F = SumFunction(pool')
  <2>1. pool \in Seq(Nat)
    BY WidthAssumption DEF Pooled
  <2>2. SumFunction(Append(pool, F)) = SumFunction(pool) + F
    BY <2>1, SumAppended
  <2>. QED
    BY <1>2, <1>5, <2>2 DEF Books
<1>7. /\ b + v + t = C /\ t <= T /\ 10 * T <= C
      /\ 5 * V <= 2 * (C - P)
  BY <1>2 DEF Books
<1>8. /\ b1 + v1 + t1 = F /\ t1 <= T1 /\ 10 * T1 <= F /\ 5 * v1 <= 2 * F
      /\ 5000 * F <= MaxU64 => t1 = T1 /\ 2 * F <= 5 * v1 + 4
  BY <1>1, <1>3 DEF IsSplit
<1>9. PICK C2 \in Nat, n2 \in Nat, T2 \in Nat, b2 \in Nat, v2 \in Nat, t2 \in Nat, P2 \in Nat :
        /\ C2 = C + F /\ n2 = n + 1 /\ T2 = T + T1 /\ P2 = P + F
        /\ b2 = b + b1 /\ v2 = v + v1 /\ t2 = t + t1
  OBVIOUS
<1>10. /\ b2 + v2 + t2 = C2 /\ t2 <= T2 /\ 10 * T2 <= C2
       /\ 5 * V <= 2 * (C2 - P2)
  BY <1>7, <1>8, <1>9
<1>11. ~wrapped' => Agreed(n2, V, T2, v2, t2, P2)
  <2>1. ASSUME Agreed(n, V, T, v, t, P), Exact(F)
        PROVE  Agreed(n2, V, T2, v2, t2, P2)
    BY <1>8, <1>9, <2>1 DEF Agreed, Exact
  <2>. QED
    BY <1>b, <2>1, Zenon
<1>12. Books(C2, n2, V, T2, b2, v2, t2, P2)'
  BY <1>5, <1>6, <1>9, <1>10, <1>11, Zenon DEF Books, Agreed
<1>. QED
  BY <1>12, Zenon DEF Booked

\* An epoch block pays the validators their share of the epoch's fees.
LEMMA BookedBlock ==
    ASSUME Pooled, Booked, NEW interval \in Intervals, NEW utilization \in Utilizations,
           EpochBlock(interval, utilization)
    PROVE  Booked'
<1>1. PICK C \in Nat, n \in Nat, V \in Nat, T \in Nat, b \in Nat, v \in Nat, t \in Nat, P \in Nat :
        Books(C, n, V, T, b, v, t, P)
  BY DEF Booked
<1>2. P = SumFunction(pool)
  BY <1>1 DEF Books
<1>3. PICK w \in Nat :
        /\ w = calculate_validator_fee_share(total_fees(pool))
        /\ 5 * w <= 2 * P
        /\ 40 * P <= MaxU64 => 2 * P <= 5 * w + 4
  <2>1. pool \in Seq(Nat)
    BY WidthAssumption DEF Pooled
  <2>. QED
    BY <1>2, <2>1, ShareOf
<1>4. fees = [collected |-> C, count |-> n, validators |-> V, treasury |-> T]
  BY <1>1 DEF Books
<1>5. /\ pool' = <<>>
      /\ fees' = [collected |-> C, count |-> n, validators |-> V + w, treasury |-> T]
      /\ quoted' = quoted
  BY <1>3, <1>4 DEF EpochBlock
<1>6. 0 = SumFunction(pool')
  <2>1. DOMAIN pool' = {}
    BY <1>5
  <2>. QED
    BY <2>1, SumEmpty DEF SumFunction
<1>7. PICK W \in Nat : W = V + w
  OBVIOUS
<1>8. /\ b + v + t = C /\ t <= T /\ 10 * T <= C
      /\ 5 * W <= 2 * (C - 0)
  <2>1. /\ b + v + t = C /\ t <= T /\ 10 * T <= C
        /\ 5 * V <= 2 * (C - P)
    BY <1>1 DEF Books
  <2>. QED
    BY <1>3, <1>7, <2>1
<1>9. ~wrapped' => Agreed(n, W, T, v, t, 0)
  <2>. SUFFICES ASSUME ~wrapped' PROVE Agreed(n, W, T, v, t, 0)
    OBVIOUS
  <2>1. ~wrapped /\ ~(40 * P > MaxU64)
    BY <1>2, Zenon DEF EpochBlock
  <2>2. 2 * P <= 5 * w + 4
    BY <1>3, <2>1, WidthAssumption
  <2>3. t = T /\ 5 * (v - V) <= 2 * P /\ 2 * P <= 5 * (v + n - V)
    BY <1>1, <2>1, Zenon DEF Books, Agreed
  <2>. QED
    BY <1>3, <1>7, <2>2, <2>3 DEF Agreed
<1>10. quoted = [burn |-> b, validators |-> v, treasury |-> t]
  BY <1>1 DEF Books
<1>11. Books(C, n, W, T, b, v, t, 0)'
  BY <1>5, <1>6, <1>7, <1>8, <1>9, <1>10, Zenon DEF Books, Agreed
<1>12. 0 \in Nat
  OBVIOUS
<1>. QED
  BY <1>11, <1>12, Zenon DEF Booked

\* What the books show when an epoch is closed.
LEMMA BooksClose ==
    ASSUME Booked
    PROVE  QuotedIsPaid
<1>1. PICK C \in Nat, n \in Nat, V \in Nat, T \in Nat, b \in Nat, v \in Nat, t \in Nat, P \in Nat :
        Books(C, n, V, T, b, v, t, P)
  BY DEF Booked
<1>2. /\ fees.collected = C /\ fees.count = n /\ fees.validators = V /\ fees.treasury = T
      /\ quoted.burn = b /\ quoted.validators = v /\ quoted.treasury = t
  BY <1>1 DEF Books
<1>3. /\ b + v + t = C /\ t <= T /\ 10 * T <= C
      /\ 5 * V <= 2 * (C - P)
  BY <1>1 DEF Books
<1>4. ~wrapped => Agreed(n, V, T, v, t, P)
  BY <1>1, Zenon DEF Books
<1>5. pool = <<>> => P = 0
  <2>1. pool = <<>> => DOMAIN pool = {}
    OBVIOUS
  <2>. QED
    BY <1>1, <2>1, SumEmpty DEF Books, SumFunction
<1>6. P = 0 => 2 * (V + T) <= C
  BY <1>3
<1>7. Agreed(n, V, T, v, t, P) => t = T /\ (P = 0 => v <= V /\ V <= v + n)
  BY DEF Agreed
<1>. QED
  BY <1>2, <1>3, <1>4, <1>5, <1>6, <1>7, Zenon DEF QuotedIsPaid

\* For all fees that fit an integer of the program, whether or not the products
\* of their shares do: the parts that are quoted add up to the fees collected,
\* the treasury is paid at least what is quoted, and the payouts are at most
\* half of the fees.  As long as no product has wrapped around, the treasury is
\* paid what is quoted, and the validators at least that and at most one unit
\* per transaction more.
THEOREM EpochPolicyQuotedIsPaid ==
    PolicySpec => []QuotedIsPaid
<1>1. PolicyInit => Pooled /\ Booked
  <2>. SUFFICES ASSUME PolicyInit
                PROVE  Booked
    BY PooledInit
  <2>1. /\ pool = <<>>
        /\ fees = [collected |-> 0, count |-> 0, validators |-> 0, treasury |-> 0]
        /\ quoted = [burn |-> 0, validators |-> 0, treasury |-> 0]
    BY DEF PolicyInit
  <2>2. 0 = SumFunction(pool)
    <3>1. DOMAIN pool = {}
      BY <2>1
    <3>. QED
      BY <3>1, SumEmpty DEF SumFunction
  <2>3. Books(0, 0, 0, 0, 0, 0, 0, 0)
    BY <2>1, <2>2 DEF Books, Agreed
  <2>. QED
    BY <2>3 DEF Booked
<1>2. Pooled /\ Booked /\ [PolicyNext]_policy_vars => Pooled' /\ Booked'
  <2>. SUFFICES ASSUME Pooled, Booked, [PolicyNext]_policy_vars
                PROVE  Booked'
    BY PooledStep
  <2>1. CASE UNCHANGED <<pool, fees, quoted, wrapped>>
    <3>1. PICK C \in Nat, n \in Nat, V \in Nat, T \in Nat, b \in Nat, v \in Nat, t \in Nat, P \in Nat :
            Books(C, n, V, T, b, v, t, P)
      BY DEF Booked
    <3>2. Books(C, n, V, T, b, v, t, P)'
      BY <2>1, <3>1, Zenon DEF Books, Agreed
    <3>. QED
      BY <3>2, Zenon DEF Booked
  <2>2. ASSUME NEW type \in DOMAIN BaseFee, NEW overpay \in Overpay,
               NEW floor \in {minimum_fee(type), effective_minimum_fee(type, multiplier)},
               CollectFee(type, floor + overpay)
        PROVE  Booked'
    <3>1. PICK fee \in 0..MaxU64 : fee = floor + overpay
      BY <2>2, FeeFits
    <3>2. CollectFee(type, fee)
      BY <2>2, <3>1
    <3>. QED
      BY <3>2, BookedFee
  <2>3. ASSUME NEW interval \in Intervals, NEW utilization \in Utilizations,
               EpochBlock(interval, utilization)
        PROVE  Booked'
    BY <2>3, BookedBlock
  <2>. QED
    BY <2>1, <2>2, <2>3 DEF PolicyNext, policy_vars
<1>3. Booked => QuotedIsPaid
  BY BooksClose
<1>. QED
  BY <1>1, <1>2, <1>3, PTL DEF PolicySpec

-----------------------------------------------------------------------------
(***************************************************************************)
(* The roots of blocks: Merkle.                                            *)
(***************************************************************************)
\* s is a list of n elements.
IsList(s, n) ==
    n \in Nat /\ Len(s) = n /\ DOMAIN s = 1..n /\ s = [i \in 1..n |-> s[i]]

\* Its elements are different.
Distinct(s, n) == \A i \in 1..n, j \in 1..n : s[i] = s[j] => i = j

\* A function on 1..n is a list.
LEMMA ListOf ==
    ASSUME NEW n \in Nat, NEW s, s = [i \in 1..n |-> s[i]]
    PROVE  IsList(s, n)
<1> DEFINE R == {s[i] : i \in 1..n}
<1>1. s \in [1..n -> R]
  <2>1. \A i \in 1..n : s[i] \in R
    OBVIOUS
  <2>2. [i \in 1..n |-> s[i]] \in [1..n -> R]
    BY <2>1
  <2>. HIDE DEF R
  <2>. QED
    BY <2>2
<1>. HIDE DEF R
<1>2. Len(s) = n /\ DOMAIN s = 1..n
  BY <1>1
<1>. QED
  BY <1>2 DEF IsList

\* Two lists of one length are equal if their elements are.
LEMMA ListsEqual ==
    ASSUME NEW n, NEW s, NEW t, IsList(s, n), IsList(t, n), \A i \in 1..n : s[i] = t[i]
    PROVE  s = t
  BY DEF IsList

\* One element is added at the end.
Extended(t, s, x) == t = s \o <<x>>

\* The result is a list that is one element longer.
LEMMA ListAppended ==
    ASSUME NEW n \in Nat, NEW s, IsList(s, n), NEW x, NEW t, Extended(t, s, x)
    PROVE  IsList(t, n + 1) /\ (\A i \in 1..n : t[i] = s[i]) /\ t[n + 1] = x
<1> DEFINE R == {s[i] : i \in 1..n} \cup {x}
<1>1. s \in Seq(R) /\ x \in R
  <2>1. \A i \in 1..n : s[i] \in R
    OBVIOUS
  <2>2. x \in R
    OBVIOUS
  <2>3. [i \in 1..n |-> s[i]] \in [1..n -> R]
    BY <2>1
  <2>. HIDE DEF R
  <2>4. s \in [1..n -> R]
    BY <2>3 DEF IsList
  <2>. QED
    BY <2>2, <2>4
<1>. HIDE DEF R
<1>3. Len(s) = n
  BY DEF IsList
<1>4. t \in Seq(R) /\ Len(t) = n + 1 /\ (\A i \in 1..n : t[i] = s[i]) /\ t[n + 1] = x
  BY <1>1, <1>3 DEF Extended
<1>5. n + 1 \in Nat /\ t = [i \in 1..(n + 1) |-> t[i]]
  BY <1>4
<1>6. IsList(t, n + 1)
  BY <1>5, ListOf
<1>. QED
  BY <1>4, <1>6

\* The layer above a list: half as long, rounded up, each node the pair of two
\* neighbours or of the last node and itself.
LEMMA NextLayer ==
    ASSUME NEW n \in Nat \ {0}, NEW s, IsList(s, n)
    PROVE  \E m \in Nat \ {0} :
             /\ n = 2 * m \/ n = 2 * m - 1
             /\ IsList(build_next_layer(s), m)
             /\ \A k \in 1..m :
                  build_next_layer(s)[k]
                    = hash_pair(s[2 * k - 1], IF 2 * k - 1 < n THEN s[2 * k] ELSE s[2 * k - 1])
<1>1. PICK m \in Nat \ {0} : m = (n + 1) \div 2 /\ (n = 2 * m \/ n = 2 * m - 1)
  OBVIOUS
<1>2. PICK t : t = build_next_layer(s)
  OBVIOUS
<1>3. Len(s) = n
  BY DEF IsList
<1>4. t = [k \in 1..m |-> hash_pair(s[2 * k - 1], right_of(s, 2 * k - 1))]
  BY <1>1, <1>2, <1>3 DEF build_next_layer
<1>5. \A k \in 1..m : t[k] = hash_pair(s[2 * k - 1], right_of(s, 2 * k - 1))
  BY <1>4
<1>6. t = [k \in 1..m |-> t[k]]
  BY <1>4, <1>5
<1>7. IsList(t, m)
  BY <1>6, ListOf
<1>8. \A k \in 1..m : right_of(s, 2 * k - 1) = IF 2 * k - 1 < n THEN s[2 * k] ELSE s[2 * k - 1]
  <2>1. ASSUME NEW k \in 1..m
        PROVE  2 * k - 1 + 1 = 2 * k
    OBVIOUS
  <2>. QED
    BY <1>3, <2>1 DEF right_of
<1>. QED
  BY <1>1, <1>2, <1>5, <1>7, <1>8

\* A parent determines its children, left and right.
LEMMA PairParts ==
    ASSUME NEW a, NEW b, NEW c, NEW d, hash_pair(a, b) = hash_pair(c, d)
    PROVE  a = c /\ b = d
  BY DEF hash_pair

\* Without repetitions there are none in the layer above.
LEMMA NextDistinct ==
    ASSUME NEW n \in Nat \ {0}, NEW s, IsList(s, n), Distinct(s, n)
    PROVE  \E m \in Nat \ {0} : IsList(build_next_layer(s), m) /\ Distinct(build_next_layer(s), m)
<1>1. PICK m \in Nat \ {0} :
        /\ n = 2 * m \/ n = 2 * m - 1
        /\ IsList(build_next_layer(s), m)
        /\ \A k \in 1..m :
             build_next_layer(s)[k]
               = hash_pair(s[2 * k - 1], IF 2 * k - 1 < n THEN s[2 * k] ELSE s[2 * k - 1])
  BY NextLayer
<1>2. ASSUME NEW i \in 1..m, NEW j \in 1..m, build_next_layer(s)[i] = build_next_layer(s)[j]
      PROVE  i = j
  <2>1. s[2 * i - 1] = s[2 * j - 1]
    BY <1>1, <1>2, PairParts
  <2>2. 2 * i - 1 \in 1..n /\ 2 * j - 1 \in 1..n
    BY <1>1
  <2>3. 2 * i - 1 = 2 * j - 1
    BY <2>1, <2>2 DEF Distinct
  <2>. QED
    BY <2>3
<1>. QED
  BY <1>1, <1>2 DEF Distinct

\* Lists without repetitions that have the same layer above them are equal.
LEMMA NextDetermines ==
    ASSUME NEW n \in Nat \ {0}, NEW s, IsList(s, n), Distinct(s, n),
           NEW l \in Nat \ {0}, NEW t, IsList(t, l), Distinct(t, l),
           build_next_layer(s) = build_next_layer(t)
    PROVE  s = t
<1>1. PICK u : u = build_next_layer(s) /\ u = build_next_layer(t)
  OBVIOUS
<1>2. PICK m \in Nat \ {0} :
        /\ n = 2 * m \/ n = 2 * m - 1
        /\ IsList(u, m)
        /\ \A k \in 1..m :
             u[k] = hash_pair(s[2 * k - 1], IF 2 * k - 1 < n THEN s[2 * k] ELSE s[2 * k - 1])
  BY <1>1, NextLayer
<1>3. PICK p \in Nat \ {0} :
        /\ l = 2 * p \/ l = 2 * p - 1
        /\ IsList(u, p)
        /\ \A k \in 1..p :
             u[k] = hash_pair(t[2 * k - 1], IF 2 * k - 1 < l THEN t[2 * k] ELSE t[2 * k - 1])
  BY <1>1, NextLayer
<1>4. m = p
  BY <1>2, <1>3 DEF IsList
<1>5. ASSUME NEW k \in 1..m
      PROVE  /\ s[2 * k - 1] = t[2 * k - 1]
             /\ (IF 2 * k - 1 < n THEN s[2 * k] ELSE s[2 * k - 1])
                  = (IF 2 * k - 1 < l THEN t[2 * k] ELSE t[2 * k - 1])
  <2>1. PICK x, y, v, w :
          /\ v = s[2 * k - 1] /\ w = t[2 * k - 1]
          /\ x = IF 2 * k - 1 < n THEN s[2 * k] ELSE s[2 * k - 1]
          /\ y = IF 2 * k - 1 < l THEN t[2 * k] ELSE t[2 * k - 1]
    OBVIOUS
  <2>2. u[k] = hash_pair(v, x)
    BY <1>2, <2>1
  <2>3. u[k] = hash_pair(w, y)
    BY <1>3, <1>4, <2>1
  <2>4. v = w /\ x = y
    <3>1. hash_pair(v, x) = hash_pair(w, y)
      BY <2>2, <2>3
    <3>. QED
      BY <3>1, PairParts
  <2>. QED
    BY <2>1, <2>4
<1>6. m \in 1..m /\ (2 * m - 1 < n <=> n = 2 * m) /\ (2 * m - 1 < l <=> l = 2 * m)
  BY <1>2, <1>3, <1>4
<1>7. n = l
  <2>1. ASSUME n = 2 * m, l = 2 * m - 1
        PROVE  FALSE
    <3>1. s[2 * m] = s[2 * m - 1]
      BY <1>5, <1>6, <2>1
    <3>2. 2 * m \in 1..n /\ 2 * m - 1 \in 1..n /\ 2 * m # 2 * m - 1
      BY <2>1
    <3>. QED
      BY <3>1, <3>2 DEF Distinct
  <2>2. ASSUME l = 2 * m, n = 2 * m - 1
        PROVE  FALSE
    <3>1. t[2 * m] = t[2 * m - 1]
      BY <1>5, <1>6, <2>2
    <3>2. 2 * m \in 1..l /\ 2 * m - 1 \in 1..l /\ 2 * m # 2 * m - 1
      BY <2>2
    <3>. QED
      BY <3>1, <3>2 DEF Distinct
  <2>. QED
    BY <1>2, <1>3, <1>4, <2>1, <2>2
<1>8. ASSUME NEW i \in 1..n
      PROVE  s[i] = t[i]
  <2>1. PICK k \in 1..m : i = 2 * k - 1 \/ (i = 2 * k /\ 2 * k - 1 < n)
    <3>1. (i + 1) \div 2 \in 1..m
      BY <1>2
    <3>2. \/ i = 2 * ((i + 1) \div 2) - 1
          \/ i = 2 * ((i + 1) \div 2) /\ 2 * ((i + 1) \div 2) - 1 < n
      BY <1>2
    <3>. QED
      BY <3>1, <3>2
  <2>. QED
    BY <1>5, <1>7, <2>1
<1>. QED
  BY <1>7, <1>8, ListsEqual

-----------------------------------------------------------------------------
\* One iteration of the loop of compute_merkle_root, if there is one.
Above(s) == IF Len(s) > 1 THEN build_next_layer(s) ELSE s

\* The layers that compute_merkle_root is defined by, and the first n of them.
IsLayers(f, hashes) == f = [n \in Nat |-> IF n = 0 THEN hashes ELSE Above(f[n - 1])]

Ladder(g, hashes, n) == g[0] = hashes /\ \A i \in 1..n : g[i] = Above(g[i - 1])

\* The first n layers exist, one after the other.
LEMMA LadderExists ==
    ASSUME NEW hashes, NEW n \in Nat
    PROVE  \E g : Ladder(g, hashes, n)
<1> DEFINE S == {i \in 0..n : \E g : Ladder(g, hashes, i)}
<1>1. 0 \in S
  <2>1. PICK g : g = [i \in {0} |-> hashes]
    OBVIOUS
  <2>2. Ladder(g, hashes, 0)
    BY <2>1 DEF Ladder
  <2>. QED
    BY <2>2
<1>2. ASSUME NEW i \in 1..n, i - 1 \in S
      PROVE  i \in S
  <2>1. PICK g : Ladder(g, hashes, i - 1)
    BY <1>2
  <2>2. PICK top : top = Above(g[i - 1])
    OBVIOUS
  <2>3. PICK h : h = [j \in 0..i |-> IF j = i THEN top ELSE g[j]]
    OBVIOUS
  <2>4. h[i] = top /\ \A j \in 0..(i - 1) : h[j] = g[j]
    BY <2>3
  <2>5. h[0] = hashes
    BY <2>1, <2>4 DEF Ladder
  <2>6. ASSUME NEW j \in 1..i
        PROVE  h[j] = Above(h[j - 1])
    <3>1. h[j - 1] = g[j - 1]
      BY <2>4
    <3>2. CASE j = i
      BY <2>2, <2>4, <3>1, <3>2
    <3>3. CASE j # i
      <4>1. j \in 1..(i - 1) /\ j \in 0..(i - 1)
        BY <3>3
      <4>2. h[j] = g[j] /\ g[j] = Above(g[j - 1])
        BY <2>1, <2>4, <4>1 DEF Ladder
      <4>. QED
        BY <3>1, <4>2
    <3>. QED
      BY <3>2, <3>3
  <2>7. Ladder(h, hashes, i)
    BY <2>5, <2>6 DEF Ladder
  <2>8. i \in 0..n
    OBVIOUS
  <2>. QED
    BY <2>7, <2>8
<1>. HIDE DEF S
<1>3. \A i \in 0..n : i \in S
  BY <1>1, <1>2, UpTo
<1>4. n \in S
  BY <1>3
<1>. QED
  BY <1>4 DEF S

\* Ladders agree as far as both go.
LEMMA LaddersAgree ==
    ASSUME NEW hashes, NEW n \in Nat, NEW m \in Nat, n <= m, NEW g, NEW h,
           Ladder(g, hashes, n), Ladder(h, hashes, m)
    PROVE  g[n] = h[n]
<1> DEFINE S == {i \in 0..n : g[i] = h[i]}
<1>1. 0 \in S
  BY DEF Ladder
<1>2. ASSUME NEW i \in 1..n, i - 1 \in S
      PROVE  i \in S
  <2>1. g[i - 1] = h[i - 1] /\ i \in 1..m /\ i \in 0..n
    BY <1>2
  <2>2. g[i] = h[i]
    BY <2>1 DEF Ladder
  <2>. QED
    BY <2>1, <2>2
<1>. HIDE DEF S
<1>3. \A i \in 0..n : i \in S
  BY <1>1, <1>2, UpTo
<1>4. n \in S
  BY <1>3
<1>. QED
  BY <1>4 DEF S

\* All of them exist: the n-th is the last of the first n.
LEMMA LayersExist ==
    ASSUME NEW hashes
    PROVE  \E f : IsLayers(f, hashes)
<1> DEFINE G(n) == CHOOSE g : Ladder(g, hashes, n)
           f == [n \in Nat |-> G(n)[n]]
           e == [n \in Nat |-> IF n = 0 THEN hashes ELSE Above(f[n - 1])]
<1>1. \A n \in Nat : Ladder(G(n), hashes, n)
  BY LadderExists
<1>2. \A n \in Nat : f[n] = G(n)[n]
  OBVIOUS
<1>. HIDE DEF G
<1>3. ASSUME NEW n \in Nat
      PROVE  f[n] = e[n]
  <2>. HIDE DEF f
  <2>1. CASE n = 0
    BY <1>1, <1>2, <2>1 DEF Ladder
  <2>2. CASE n # 0
    <3>1. PICK j \in Nat : j = n - 1 /\ j <= n
      BY <2>2
    <3>2. PICK g, h : g = G(j) /\ h = G(n)
      OBVIOUS
    <3>3. g[j] = h[j]
      BY <1>1, <3>1, <3>2, LaddersAgree
    <3>4. h[n] = Above(h[n - 1])
      BY <1>1, <2>2, <3>2 DEF Ladder
    <3>5. f[n] = h[n] /\ f[n - 1] = g[j]
      BY <1>2, <3>1, <3>2
    <3>. QED
      BY <2>2, <3>1, <3>3, <3>4, <3>5
  <2>. QED
    BY <2>1, <2>2
<1>4. f = e
  BY <1>3
<1>. HIDE DEF f
<1>5. IsLayers(f, hashes)
  BY <1>4 DEF IsLayers
<1>. QED
  BY <1>5

\* The layers, iteration by iteration.
LEMMA LayersStep ==
    ASSUME NEW hashes
    PROVE  /\ layers(hashes)[0] = hashes
           /\ \A n \in Nat : layers(hashes)[n + 1] = Above(layers(hashes)[n])
<1> DEFINE f == CHOOSE g : IsLayers(g, hashes)
<1>1. IsLayers(f, hashes)
  BY LayersExist
<1>2. layers(hashes) = f
  BY DEF layers, IsLayers, Above
<1>. HIDE DEF f
<1>3. \A n \in Nat : f[n] = IF n = 0 THEN hashes ELSE Above(f[n - 1])
  BY <1>1 DEF IsLayers
<1>4. f[0] = hashes
  BY <1>3
<1>5. ASSUME NEW n \in Nat
      PROVE  f[n + 1] = Above(f[n])
  <2>1. PICK i \in Nat : i = n + 1 /\ i # 0 /\ i - 1 = n
    OBVIOUS
  <2>2. f[i] = Above(f[i - 1])
    BY <1>3, <2>1
  <2>. QED
    BY <2>1, <2>2
<1>. QED
  BY <1>2, <1>4, <1>5

\* Each iteration makes the layer shorter.
LEMMA AboveShorter ==
    ASSUME NEW n \in Nat \ {0}, NEW s, IsList(s, n)
    PROVE  IF n = 1 THEN Above(s) = s
           ELSE /\ Above(s) = build_next_layer(s)
                /\ \E m \in Nat \ {0} : IsList(Above(s), m) /\ m < n
<1>1. Len(s) = n
  BY DEF IsList
<1>2. CASE n = 1
  BY <1>1, <1>2 DEF Above
<1>3. CASE n # 1
  <2>1. Above(s) = build_next_layer(s)
    BY <1>1, <1>3 DEF Above
  <2>2. PICK m \in Nat \ {0} : IsList(build_next_layer(s), m) /\ (n = 2 * m \/ n = 2 * m - 1)
    BY NextLayer
  <2>3. m < n
    BY <1>3, <2>2
  <2>. QED
    BY <1>3, <2>1, <2>2, <2>3
<1>. QED
  BY <1>2, <1>3

\* A single node stays.
LEMMA TopStays ==
    ASSUME NEW hashes, NEW n \in Nat, NEW m \in Nat, n <= m, Len(layers(hashes)[n]) = 1
    PROVE  layers(hashes)[m] = layers(hashes)[n]
<1>1. PICK f : f = layers(hashes)
  OBVIOUS
<1>2. \A i \in Nat : f[i + 1] = Above(f[i])
  BY <1>1, LayersStep
<1>3. PICK d \in Nat : m = n + d
  <2>1. m - n \in Nat /\ m = n + (m - n)
    OBVIOUS
  <2>. QED
    BY <2>1
<1> DEFINE S == {i \in 0..d : f[n + i] = f[n]}
<1>4. 0 \in S
  BY n + 0 = n
<1>5. ASSUME NEW i \in 1..d, i - 1 \in S
      PROVE  i \in S
  <2>1. PICK j \in Nat : j = n + (i - 1) /\ j + 1 = n + i
    <3>1. n + (i - 1) \in Nat /\ n + (i - 1) + 1 = n + i
      OBVIOUS
    <3>. QED
      BY <3>1
  <2>2. f[j] = f[n]
    BY <1>5, <2>1
  <2>3. f[j + 1] = Above(f[j])
    BY <1>2
  <2>4. Above(f[n]) = f[n]
    <3>1. PICK t : t = f[n] /\ Len(t) = 1
      BY <1>1
    <3>. QED
      BY <3>1 DEF Above
  <2>5. f[n + i] = f[n]
    BY <2>1, <2>2, <2>3, <2>4
  <2>6. i \in 0..d
    OBVIOUS
  <2>. QED
    BY <2>5, <2>6
<1>. HIDE DEF S
<1>6. \A i \in 0..d : i \in S
  BY <1>4, <1>5, UpTo
<1>7. d \in S
  BY <1>6
<1>. QED
  BY <1>1, <1>3, <1>7 DEF S

-----------------------------------------------------------------------------
\* g[i] is the hash that the first i siblings lead to, for i up to n.
PartialPath(g, leaf, path, n) ==
    /\ g[0] = leaf
    /\ \A i \in 1..n : g[i] = fold_sibling(g[i - 1], path[i])

\* h is the fold's table, over every subset of the indices 1..k.
PathTable(h, leaf, path, k) ==
    h = [s \in SUBSET (1..k) |-> IF s = {} THEN leaf ELSE fold_sibling(h[s \ {Max(s)}], path[Max(s)])]

\* path_hash is the last entry of such a table.
LEMMA PathByDefinition ==
    ASSUME NEW leaf, NEW k \in Nat, NEW path, DOMAIN path = 1..k
    PROVE  path_hash(leaf, path) = (CHOOSE h : PathTable(h, leaf, path, k))[1..k]
  BY DEF path_hash, FoldLeft, MapThenFoldSet, PathTable

\* There is a table.  Smallest counterexample: a size up to which the subsets
\* cannot be tabulated although they can up to the size below it.
LEMMA PathTableExists ==
    ASSUME NEW leaf, NEW k \in Nat, NEW path
    PROVE  \E h : PathTable(h, leaf, path, k)
<1> DEFINE S == 1..k
           Small(n) == {s \in SUBSET S : Cardinality(s) <= n}
           Entry(h, s) == IF s = {} THEN leaf ELSE fold_sibling(h[s \ {Max(s)}], path[Max(s)])
           Table(h, n) == h = [s \in Small(n) |-> Entry(h, s)]
           T == {n \in 0..k : ~ \E h : Table(h, n)}
<1>0. IsFiniteSet(S) /\ Cardinality(S) = k
  BY FS_Interval
<1>1. \A s \in SUBSET S : IsFiniteSet(s) /\ Cardinality(s) \in Nat /\ Cardinality(s) <= k
  <2>. HIDE DEF S
  <2>. QED
    BY <1>0, FS_Subset, FS_CardinalityType
<1>2. Small(k) = SUBSET S
  BY <1>1
<1>3. \A s \in SUBSET S : s # {} => /\ s \ {Max(s)} \in SUBSET S
                                   /\ Cardinality(s \ {Max(s)}) = Cardinality(s) - 1
  <2>1. ASSUME NEW s \in SUBSET S, s # {}
        PROVE  Max(s) \in s
    BY <2>1, LargestIndex
  <2>. HIDE DEF S
  <2>. QED
    BY <2>1, <1>1, FS_RemoveElement
<1>. HIDE DEF S
<1>4. T = {}
  <2>1. ASSUME T # {}
        PROVE  FALSE
    <3>1. PICK n \in T : \A j \in T : n <= j
      <4>1. T \subseteq Nat
        OBVIOUS
      <4>. HIDE DEF T
      <4>. QED
        BY <2>1, <4>1, LeastNat
    <3>2. n \in 0..k /\ n \in Nat
      BY <3>1
    <3>3. CASE n = 0
      <4> DEFINE h == [s \in Small(0) |-> leaf]
      <4>1. \A s \in Small(0) : s = {}
        BY <1>1, FS_EmptySet
      <4>2. h = [s \in Small(0) |-> Entry(h, s)]
        <5>1. \A s \in Small(0) : Entry(h, s) = leaf
          BY <4>1
        <5>. HIDE DEF Entry, Small
        <5>. QED
          BY <5>1
      <4>. HIDE DEF h, Entry, Small
      <4>. QED
        BY <4>2, <3>1, <3>3
    <3>4. CASE n # 0
      <4>1. n - 1 \in 0..k /\ n - 1 < n
        BY <3>2, <3>4
      <4>2. n - 1 \notin T
        <5>. HIDE DEF T
        <5>. QED
          BY <3>1, <4>1, <3>2
      <4>3. PICK g : Table(g, n - 1)
        BY <4>1, <4>2
      <4> DEFINE h == [s \in Small(n) |-> Entry(g, s)]
      <4>4. ASSUME NEW s \in Small(n - 1)
            PROVE  s \in Small(n) /\ h[s] = g[s]
        <5>1. s \in Small(n)
          BY <1>1, <3>2
        <5>2. g[s] = Entry(g, s)
          <6>. HIDE DEF Entry, Small
          <6>1. g = [t \in Small(n - 1) |-> Entry(g, t)]
            BY <4>3
          <6>. QED
            BY <6>1
        <5>. QED
          BY <5>1, <5>2
      <4>5. ASSUME NEW s \in Small(n)
            PROVE  Entry(h, s) = Entry(g, s)
        <5>1. CASE s = {}
          BY <5>1
        <5>2. CASE s # {}
          <6>1. s \ {Max(s)} \in Small(n - 1)
            BY <5>2, <1>1, <1>3, <3>2
          <6>2. h[s \ {Max(s)}] = g[s \ {Max(s)}]
            BY <6>1, <4>4
          <6>. HIDE DEF h, Small
          <6>. QED
            BY <6>2
        <5>. QED
          BY <5>1, <5>2
      <4>6. h = [s \in Small(n) |-> Entry(h, s)]
        <5> DEFINE e == [s \in Small(n) |-> Entry(h, s)]
        <5>1. \A s \in Small(n) : h[s] = e[s]
          BY <4>5
        <5>. HIDE DEF Entry, Small
        <5>. QED
          BY <5>1
      <4>. HIDE DEF h, Entry, Small
      <4>. QED
        BY <4>6, <3>1
    <3>. QED
      BY <3>3, <3>4
  <2>. QED
    BY <2>1
<1>5. PICK h : Table(h, k)
  <2>. HIDE DEF Table
  <2>1. k \in 0..k
    OBVIOUS
  <2>. QED
    BY <1>4, <2>1
<1>6. h = [s \in SUBSET S |-> Entry(h, s)]
  <2>. HIDE DEF Entry, Small
  <2>. QED
    BY <1>2, <1>5
<1>. QED
  BY <1>6 DEF PathTable, S

\* The entries of a table at the first i indices, for i up to k.
LEMMA PathPrefixes ==
    ASSUME NEW leaf, NEW k \in Nat, NEW path, NEW h, PathTable(h, leaf, path, k)
    PROVE  \E g : PartialPath(g, leaf, path, k) /\ g[k] = h[1..k]
<1>1. h[{}] = leaf
  BY DEF PathTable
<1>2. ASSUME NEW i \in 1..k
      PROVE  h[1..i] = fold_sibling(h[1..(i - 1)], path[i])
  <2>1. 1..i \in SUBSET (1..k) /\ 1..i # {} /\ i \in Nat /\ i # 0
    OBVIOUS
  <2>2. Max(1..i) = i /\ (1..i) \ {i} = 1..(i - 1)
    BY <2>1, LastIndex
  <2>3. PICK s : s = 1..i
    OBVIOUS
  <2>4. h[s] = fold_sibling(h[s \ {Max(s)}], path[Max(s)])
    BY <2>1, <2>3 DEF PathTable
  <2>. QED
    BY <2>2, <2>3, <2>4
<1>3. PICK g : g = [i \in 0..k |-> h[1..i]]
  OBVIOUS
<1>4. 1..0 = {} /\ 0 \in 0..k /\ k \in 0..k /\ \A i \in 1..k : i \in 0..k /\ i - 1 \in 0..k
  OBVIOUS
<1>5. g[0] = leaf /\ g[k] = h[1..k]
  BY <1>1, <1>3, <1>4
<1>6. \A i \in 1..k : g[i] = fold_sibling(g[i - 1], path[i])
  BY <1>2, <1>3, <1>4
<1>. QED
  BY <1>5, <1>6 DEF PartialPath

\* path_hash is reached sibling by sibling.
LEMMA PathByPartial ==
    ASSUME NEW leaf, NEW k \in Nat, NEW path, DOMAIN path = 1..k
    PROVE  \E g : PartialPath(g, leaf, path, k) /\ path_hash(leaf, path) = g[k]
<1> DEFINE H == CHOOSE h : PathTable(h, leaf, path, k)
<1>1. PathTable(H, leaf, path, k)
  BY PathTableExists
<1>2. path_hash(leaf, path) = H[1..k]
  BY PathByDefinition
<1>. HIDE DEF H
<1>. QED
  BY <1>1, <1>2, PathPrefixes

\* Sibling by sibling one arrives at path_hash.
LEMMA PathIsPartial ==
    ASSUME NEW leaf, NEW k \in Nat, NEW path, DOMAIN path = 1..k, NEW g, PartialPath(g, leaf, path, k)
    PROVE  path_hash(leaf, path) = g[k]
<1>1. PICK h : PartialPath(h, leaf, path, k) /\ path_hash(leaf, path) = h[k]
  BY PathByPartial
<1> DEFINE S == {i \in 0..k : h[i] = g[i]}
<1>2. 0 \in S
  BY <1>1 DEF PartialPath
<1>3. \A i \in 1..k : i - 1 \in S => i \in S
  BY <1>1 DEF PartialPath
<1>4. k \in 0..k
  OBVIOUS
<1>5. k \in S
  <2>. HIDE DEF S
  <2>. QED
    BY <1>2, <1>3, <1>4, UpTo
<1>. QED
  BY <1>1, <1>5

\* The next sibling is folded into the hash of the path so far.
LEMMA PathExtended ==
    ASSUME NEW leaf, NEW n \in Nat, NEW path, IsList(path, n), NEW x
    PROVE  path_hash(leaf, path \o <<x>>) = fold_sibling(path_hash(leaf, path), x)
<1>1. PICK t : t = path \o <<x>>
  OBVIOUS
<1>2. IsList(t, n + 1) /\ (\A i \in 1..n : t[i] = path[i]) /\ t[n + 1] = x
  <2>1. Extended(t, path, x)
    BY <1>1 DEF Extended
  <2>. QED
    BY <2>1, ListAppended
<1>3. PICK m \in Nat : m = n + 1
  OBVIOUS
<1>4. DOMAIN t = 1..m /\ DOMAIN path = 1..n
  BY <1>2, <1>3 DEF IsList
<1>5. PICK g : PartialPath(g, leaf, t, m) /\ path_hash(leaf, t) = g[m]
  BY <1>4, PathByPartial
<1>6. PartialPath(g, leaf, path, n)
  <2>1. \A i \in 1..n : i \in 1..m
    BY <1>3
  <2>. QED
    BY <1>2, <1>5, <2>1 DEF PartialPath
<1>7. path_hash(leaf, path) = g[n]
  BY <1>4, <1>6, PathIsPartial
<1>8. g[m] = fold_sibling(g[m - 1], t[m])
  <2>1. m \in 1..m
    BY <1>3
  <2>. QED
    BY <1>5, <2>1 DEF PartialPath
<1>9. m - 1 = n /\ t[m] = x
  BY <1>2, <1>3
<1>. QED
  BY <1>1, <1>5, <1>7, <1>8, <1>9

\* A path without siblings ends at its leaf.
LEMMA EmptyPath ==
    ASSUME NEW leaf
    PROVE  path_hash(leaf, <<>>) = leaf
<1>1. 0 \in Nat /\ DOMAIN <<>> = 1..0
  OBVIOUS
<1>2. PICK g : PartialPath(g, leaf, <<>>, 0) /\ path_hash(leaf, <<>>) = g[0]
  BY <1>1, PathByPartial
<1>. QED
  BY <1>2 DEF PartialPath

\* The sibling of a node leads to its parent.
LEMMA SiblingLeadsUp ==
    ASSUME NEW n \in Nat \ {0}, NEW s, IsList(s, n), NEW i \in 1..n
    PROVE  \E x :
             /\ sibling(s, i) = <<x>>
             /\ (i + 1) \div 2 \in DOMAIN build_next_layer(s)
             /\ fold_sibling(s[i], x) = build_next_layer(s)[(i + 1) \div 2]
<1>1. PICK m \in Nat \ {0} :
        /\ n = 2 * m \/ n = 2 * m - 1
        /\ IsList(build_next_layer(s), m)
        /\ \A k \in 1..m :
             build_next_layer(s)[k]
               = hash_pair(s[2 * k - 1], IF 2 * k - 1 < n THEN s[2 * k] ELSE s[2 * k - 1])
  BY NextLayer
<1>2. PICK k \in 1..m : k = (i + 1) \div 2 /\ (i = 2 * k - 1 \/ i = 2 * k)
  <2>1. (i + 1) \div 2 \in 1..m
    BY <1>1
  <2>2. i = 2 * ((i + 1) \div 2) - 1 \/ i = 2 * ((i + 1) \div 2)
    OBVIOUS
  <2>. QED
    BY <2>1, <2>2
<1>3. k \in DOMAIN build_next_layer(s) /\ Len(s) = n
  BY <1>1, <1>2 DEF IsList
<1>4. PICK up : up = build_next_layer(s)[k]
  OBVIOUS
<1>5. up = hash_pair(s[2 * k - 1], IF 2 * k - 1 < n THEN s[2 * k] ELSE s[2 * k - 1])
  BY <1>1, <1>4
<1>6. CASE i = 2 * k - 1
  <2>1. i % 2 = 1 /\ i + 1 = 2 * k
    BY <1>6
  <2>2. PICK r : r = right_of(s, i)
    OBVIOUS
  <2>3. r = IF 2 * k - 1 < n THEN s[2 * k] ELSE s[2 * k - 1]
    BY <1>3, <1>6, <2>1, <2>2 DEF right_of
  <2>4. PICK x : x = [hash |-> r, direction |-> "Right"]
    OBVIOUS
  <2>5. sibling(s, i) = <<x>>
    BY <2>1, <2>2, <2>4 DEF sibling
  <2>6. fold_sibling(s[i], x) = hash_pair(s[i], r)
    BY <2>4 DEF fold_sibling
  <2>7. up = hash_pair(s[i], r)
    BY <1>5, <1>6, <2>3
  <2>. QED
    BY <1>2, <1>3, <1>4, <2>5, <2>6, <2>7
<1>7. CASE i = 2 * k
  <2>1. i % 2 # 1 /\ i - 1 = 2 * k - 1 /\ 2 * k - 1 < n
    BY <1>1, <1>7
  <2>2. PICK x : x = [hash |-> s[i - 1], direction |-> "Left"]
    OBVIOUS
  <2>3. sibling(s, i) = <<x>>
    BY <2>1, <2>2 DEF sibling
  <2>4. fold_sibling(s[i], x) = hash_pair(s[i - 1], s[i])
    BY <2>2 DEF fold_sibling
  <2>5. up = hash_pair(s[i - 1], s[i])
    BY <1>5, <1>7, <2>1
  <2>. QED
    BY <1>2, <1>3, <1>4, <2>3, <2>4, <2>5
<1>. QED
  BY <1>2, <1>6, <1>7

\* Every list has a length, which is not 0, and consists of leaves.
LEMMA ListOfLeaves ==
    ASSUME NEW s \in Lists
    PROVE  \E n \in Nat \ {0} : IsList(s, n) /\ \A i \in 1..n : \E h : s[i] = Leaf(h)
<1>1. PICK t \in SeqOf(Hash, MaxLeaves) \ {<<>>} : s = [i \in DOMAIN t |-> Leaf(t[i])]
  BY DEF Lists
<1>2. PICK n \in 0..MaxLeaves : t \in [1..n -> Hash]
  BY <1>1 DEF SeqOf
<1>3. n \in Nat
  BY <1>2, LeavesAssumption
<1>4. n # 0
  <2>1. ASSUME n = 0 PROVE FALSE
    <3>1. DOMAIN t = {} /\ t \in [{} -> Hash]
      BY <1>2, <2>1
    <3>2. t = <<>>
      BY <3>1
    <3>. QED
      BY <1>1, <3>2
  <2>. QED
    BY <2>1
<1>5. s = [i \in 1..n |-> Leaf(t[i])]
  BY <1>1, <1>2
<1>6. \A i \in 1..n : s[i] = Leaf(t[i])
  BY <1>5
<1>7. s = [i \in 1..n |-> s[i]]
  BY <1>5, <1>6
<1>8. IsList(s, n)
  BY <1>3, <1>7, ListOf
<1>. QED
  BY <1>3, <1>4, <1>6, <1>8

-----------------------------------------------------------------------------
\* generate_proof stands at node i of the n-th layer over the N leaves, which has
\* m nodes, and has found a sibling in each layer below.
Climbing(N, n, m) ==
    /\ IsList(leaves, N) /\ IsList(layer, m) /\ IsList(siblings, n)
    /\ layer = layers(leaves)[n]
    /\ n + m <= N
    /\ index \in 1..m
    /\ path_hash(target, siblings) = layer[index]

ClimbInv == \E N \in Nat \ {0}, n \in Nat, m \in Nat \ {0} : Climbing(N, n, m)

\* The loop starts at the first position of the target.
LEMMA ClimbStarts ==
    ASSUME ProofInit
    PROVE  ClimbInv
<1>1. /\ leaves \in Lists /\ target \in Range(leaves) /\ layer = leaves /\ siblings = <<>>
      /\ index = CHOOSE i \in DOMAIN leaves :
                   leaves[i] = target /\ \A j \in 1..(i - 1) : leaves[j] # target
  BY DEF ProofInit
<1>2. PICK N \in Nat \ {0} : IsList(leaves, N)
  BY <1>1, ListOfLeaves
<1>3. DOMAIN leaves = 1..N
  BY <1>2 DEF IsList
<1>4. \E i \in 1..N : leaves[i] = target /\ \A j \in 1..(i - 1) : leaves[j] # target
  <2> DEFINE T == {i \in 1..N : leaves[i] = target}
  <2>1. T \subseteq Nat /\ T # {}
    BY <1>1, <1>3 DEF Range
  <2>2. PICK i \in T : \A j \in T : i <= j
    <3>. HIDE DEF T
    <3>. QED
      BY <2>1, LeastNat
  <2>3. i \in 1..N /\ leaves[i] = target
    OBVIOUS
  <2>4. ASSUME NEW j \in 1..(i - 1)
        PROVE  leaves[j] # target
    <3>1. j \in 1..N /\ ~(i <= j)
      BY <2>3
    <3>2. j \notin T
      <4>. HIDE DEF T
      <4>. QED
        BY <2>2, <3>1
    <3>. QED
      BY <3>1, <3>2
  <2>. QED
    BY <2>3, <2>4
<1>5. index \in 1..N /\ leaves[index] = target
  <2> DEFINE P(i) == leaves[i] = target /\ \A j \in 1..(i - 1) : leaves[j] # target
  <2>1. index = CHOOSE i \in 1..N : P(i)
    BY <1>1, <1>3
  <2>2. \E i \in 1..N : P(i)
    BY <1>4
  <2>3. index \in 1..N /\ P(index)
    <3>. HIDE DEF P
    <3>. QED
      BY <2>1, <2>2
  <2>. QED
    BY <2>3
<1>6. IsList(siblings, 0)
  <2>1. siblings = [i \in 1..0 |-> siblings[i]]
    BY <1>1
  <2>. QED
    BY <2>1, ListOf
<1>7. path_hash(target, siblings) = layer[index]
  BY <1>1, <1>5, EmptyPath
<1>8. layer = layers(leaves)[0]
  BY <1>1, LayersStep
<1>9. Climbing(N, 0, N)
  BY <1>1, <1>2, <1>5, <1>6, <1>7, <1>8 DEF Climbing
<1>. QED
  BY <1>9 DEF ClimbInv

\* An iteration finds the sibling and goes up to the parent.
LEMMA ClimbSteps ==
    ASSUME ClimbInv, generate_proof_step
    PROVE  ClimbInv'
<1>1. PICK N \in Nat \ {0}, n \in Nat, m \in Nat \ {0} : Climbing(N, n, m)
  BY DEF ClimbInv
<1>2. /\ IsList(leaves, N) /\ IsList(layer, m) /\ IsList(siblings, n)
      /\ layer = layers(leaves)[n] /\ n + m <= N /\ index \in 1..m
      /\ path_hash(target, siblings) = layer[index]
  BY <1>1 DEF Climbing
<1>3. /\ Len(layer) > 1 /\ siblings' = siblings \o sibling(layer, index)
      /\ layer' = build_next_layer(layer) /\ index' = (index + 1) \div 2
      /\ leaves' = leaves /\ target' = target
  BY DEF generate_proof_step
<1>4. m # 1
  BY <1>2, <1>3 DEF IsList
<1>5. PICK l \in Nat \ {0} : layer' = Above(layer) /\ IsList(layer', l) /\ l < m
  BY <1>2, <1>3, <1>4, AboveShorter
<1>6. PICK x :
        /\ sibling(layer, index) = <<x>>
        /\ (index + 1) \div 2 \in DOMAIN build_next_layer(layer)
        /\ fold_sibling(layer[index], x) = build_next_layer(layer)[(index + 1) \div 2]
  BY <1>2, SiblingLeadsUp
<1>7. siblings' = siblings \o <<x>>
  BY <1>3, <1>6
<1>8. IsList(siblings', n + 1)
  <2>1. Extended(siblings', siblings, x)
    BY <1>7 DEF Extended
  <2>. QED
    BY <1>2, <2>1, ListAppended
<1>9. index' \in 1..l /\ layer'[index'] = fold_sibling(layer[index], x)
  <2>1. DOMAIN layer' = 1..l
    BY <1>5 DEF IsList
  <2>. QED
    BY <1>3, <1>6, <2>1
<1>10. path_hash(target', siblings') = layer'[index']
  <2>1. path_hash(target, siblings \o <<x>>) = fold_sibling(path_hash(target, siblings), x)
    BY <1>2, PathExtended
  <2>. QED
    BY <1>2, <1>3, <1>7, <1>9, <2>1
<1>11. layer' = layers(leaves')[n + 1]
  BY <1>2, <1>3, <1>5, LayersStep
<1>12. PICK k \in Nat : k = n + 1 /\ k + l <= N
  BY <1>2, <1>5
<1>13. Climbing(N, k, l)'
  BY <1>2, <1>3, <1>5, <1>8, <1>9, <1>10, <1>11, <1>12 DEF Climbing
<1>. QED
  BY <1>13 DEF ClimbInv

\* At a single node the loop has arrived at the root.
LEMMA ClimbReaches ==
    ASSUME ClimbInv
    PROVE  PathReachesNode
<1>1. PICK N \in Nat \ {0}, n \in Nat, m \in Nat \ {0} : Climbing(N, n, m)
  BY DEF ClimbInv
<1>2. /\ IsList(leaves, N) /\ IsList(layer, m)
      /\ layer = layers(leaves)[n] /\ n + m <= N /\ index \in 1..m
      /\ path_hash(target, siblings) = layer[index]
  BY <1>1 DEF Climbing
<1>3. DOMAIN layer = 1..m /\ Len(layer) = m /\ Len(leaves) = N
  BY <1>2 DEF IsList
<1>4. ASSUME Len(layer) = 1
      PROVE  verify_proof(proof)
  <2>1. m = 1 /\ index = 1 /\ n <= N
    BY <1>2, <1>3, <1>4
  <2>2. layers(leaves)[N] = layer
    BY <1>2, <1>4, <2>1, TopStays
  <2>3. leaves # <<>>
    BY <1>3
  <2>4. compute_merkle_root(leaves) = layer[1]
    BY <1>3, <2>2, <2>3 DEF compute_merkle_root
  <2>5. proof.leaf_hash = target /\ proof.siblings = siblings /\ proof.root = layer[1]
    BY <2>4 DEF proof
  <2>. QED
    BY <1>2, <2>1, <2>5 DEF verify_proof
<1>. QED
  BY <1>2, <1>3, <1>4 DEF PathReachesNode

\* For lists of any length: what generate_proof has found so far leads from the
\* target to the node it stands at, and a finished proof verifies.
THEOREM MerklePathReachesNode ==
    ProofSpec => []PathReachesNode
<1>1. ProofInit => ClimbInv
  BY ClimbStarts
<1>2. ClimbInv /\ [generate_proof_step]_proof_vars => ClimbInv'
  <2>1. ASSUME ClimbInv, UNCHANGED proof_vars
        PROVE  ClimbInv'
    <3>1. PICK N \in Nat \ {0}, n \in Nat, m \in Nat \ {0} : Climbing(N, n, m)
      BY <2>1 DEF ClimbInv
    <3>2. Climbing(N, n, m)'
      BY <2>1, <3>1 DEF Climbing, proof_vars
    <3>. QED
      BY <3>2 DEF ClimbInv
  <2>. QED
    BY <2>1, ClimbSteps
<1>3. ClimbInv => PathReachesNode
  BY ClimbReaches
<1>. QED
  BY <1>1, <1>2, <1>3, PTL DEF ProofSpec

-----------------------------------------------------------------------------
\* A holds the layers over the list s up to the H-th, a single node; none has
\* repetitions.
Tree(A, s, H) ==
    /\ A[0] = s
    /\ \A j \in 1..H : A[j] = build_next_layer(A[j - 1])
    /\ \A j \in 0..H : \E m \in Nat \ {0} : IsList(A[j], m) /\ Distinct(A[j], m)
    /\ Len(A[H]) = 1

\* The layers over a list without repetitions are such a tree.
LEMMA TreeOf ==
    ASSUME NEW s \in Lists, IsInjective(s)
    PROVE  \E H \in Nat : Tree(layers(s), s, H) /\ compute_merkle_root(s) = layers(s)[H][1]
<1>1. PICK N \in Nat \ {0} : IsList(s, N)
  BY ListOfLeaves
<1>2. DOMAIN s = 1..N /\ Len(s) = N /\ Distinct(s, N)
  <2>1. DOMAIN s = 1..N /\ Len(s) = N
    BY <1>1 DEF IsList
  <2>. QED
    BY <2>1 DEF IsInjective, Distinct
<1>3. PICK f : f = layers(s)
  OBVIOUS
<1>4. f[0] = s /\ \A n \in Nat : f[n + 1] = Above(f[n])
  BY <1>3, LayersStep
<1> DEFINE Good(n, m) == IsList(f[n], m) /\ Distinct(f[n], m) /\ (m = 1 \/ n + m <= N)
           S == {n \in 0..N : \E m \in Nat \ {0} : Good(n, m)}
<1>5. 0 \in S
  <2>1. Good(0, N)
    BY <1>1, <1>2, <1>4
  <2>. HIDE DEF Good
  <2>. QED
    BY <2>1
<1>6. ASSUME NEW i \in 1..N, i - 1 \in S
      PROVE  i \in S
  <2>1. PICK j \in Nat : j = i - 1 /\ j + 1 = i
    OBVIOUS
  <2>2. PICK m \in Nat \ {0} : Good(j, m)
    BY <1>6, <2>1
  <2>3. PICK t : t = f[j]
    OBVIOUS
  <2>4. IsList(t, m) /\ Distinct(t, m) /\ (m = 1 \/ j + m <= N)
    BY <2>2, <2>3
  <2>5. f[i] = Above(t)
    BY <1>4, <2>1, <2>3
  <2>6. CASE m = 1
    <3>1. f[i] = t
      BY <2>4, <2>5, <2>6, AboveShorter
    <3>2. Good(i, m)
      BY <2>4, <2>6, <3>1
    <3>. HIDE DEF Good
    <3>. QED
      BY <3>2
  <2>7. CASE m # 1
    <3>1. PICK l \in Nat \ {0} : Above(t) = build_next_layer(t) /\ IsList(Above(t), l) /\ l < m
      BY <2>4, <2>7, AboveShorter
    <3>2. PICK q \in Nat \ {0} :
            IsList(build_next_layer(t), q) /\ Distinct(build_next_layer(t), q)
      BY <2>4, NextDistinct
    <3>3. q = l
      BY <3>1, <3>2 DEF IsList
    <3>4. i + l <= N
      BY <2>1, <2>4, <2>7, <3>1
    <3>5. Good(i, l)
      BY <2>5, <3>1, <3>2, <3>3, <3>4
    <3>. HIDE DEF Good
    <3>. QED
      BY <3>5
  <2>. QED
    BY <2>6, <2>7
<1>7. \A n \in 0..N : n \in S
  <2>. HIDE DEF S
  <2>. QED
    BY <1>5, <1>6, UpTo
<1>8. \A n \in 0..N : \E m \in Nat \ {0} : Good(n, m)
  <2>. HIDE DEF Good
  <2>. QED
    BY <1>7
<1> DEFINE T == {n \in 0..N : Len(f[n]) = 1}
<1>9. N \in T
  <2>1. PICK m \in Nat \ {0} : Good(N, m)
    BY <1>8
  <2>2. m = 1
    BY <2>1
  <2>. QED
    BY <2>1, <2>2 DEF IsList
<1>10. PICK H \in T : \A n \in T : H <= n
  <2>1. T \subseteq Nat
    OBVIOUS
  <2>. HIDE DEF T
  <2>. QED
    BY <1>9, <2>1, LeastNat
<1>11. H \in 0..N /\ Len(f[H]) = 1 /\ H \in Nat
  BY <1>10
<1>12. ASSUME NEW j \in 1..H
       PROVE  f[j] = build_next_layer(f[j - 1])
  <2>1. PICK i \in Nat : i = j - 1 /\ i + 1 = j /\ i \in 0..N /\ ~(H <= i)
    BY <1>11
  <2>2. i \notin T
    <3>. HIDE DEF T
    <3>. QED
      BY <1>10, <2>1
  <2>3. PICK m \in Nat \ {0} : IsList(f[i], m)
    BY <1>8, <2>1
  <2>4. m # 1
    BY <2>1, <2>2, <2>3 DEF IsList
  <2>5. Above(f[i]) = build_next_layer(f[i])
    BY <2>3, <2>4, AboveShorter
  <2>. QED
    BY <1>4, <2>1, <2>5
<1>13. ASSUME NEW j \in 0..H
       PROVE  \E m \in Nat \ {0} : IsList(f[j], m) /\ Distinct(f[j], m)
  <2>1. j \in 0..N
    BY <1>11
  <2>. QED
    BY <1>8, <2>1
<1>14. Tree(f, s, H)
  BY <1>4, <1>11, <1>12, <1>13 DEF Tree
<1>15. f[N] = f[H]
  BY <1>3, <1>11, TopStays
<1>16. compute_merkle_root(s) = f[H][1]
  <2>1. s # <<>>
    BY <1>2
  <2>. QED
    BY <1>2, <1>3, <1>15, <2>1 DEF compute_merkle_root
<1>. QED
  BY <1>3, <1>11, <1>14, <1>16

\* From the root down, two trees with one root have the same layers.  The lower one
\* ends first, at leaves, which are no parents.
LEMMA TreesAgree ==
    ASSUME NEW s \in Lists, NEW t \in Lists, NEW A, NEW B, NEW H \in Nat, NEW K \in Nat, H <= K,
           Tree(A, s, H), Tree(B, t, K), A[H][1] = B[K][1]
    PROVE  s = t
<1> DEFINE S == {j \in 0..H : A[H - j] = B[K - j]}
<1>1. 0 \in S
  <2>1. H \in 0..H /\ K \in 0..K /\ H - 0 = H /\ K - 0 = K
    OBVIOUS
  <2>2. IsList(A[H], 1) /\ IsList(B[K], 1)
    <3>1. PICK m \in Nat \ {0} : IsList(A[H], m)
      BY <2>1 DEF Tree
    <3>2. PICK l \in Nat \ {0} : IsList(B[K], l)
      BY <2>1 DEF Tree
    <3>3. m = 1 /\ l = 1
      BY <3>1, <3>2 DEF IsList, Tree
    <3>. QED
      BY <3>1, <3>2, <3>3
  <2>3. \A i \in 1..1 : A[H][i] = B[K][i]
    OBVIOUS
  <2>4. A[H] = B[K]
    BY <2>2, <2>3, ListsEqual
  <2>. QED
    BY <2>1, <2>4
<1>2. ASSUME NEW j \in 1..H, j - 1 \in S
      PROVE  j \in S
  <2>1. PICK x \in Nat, y \in Nat : x = H - j /\ y = K - j
    <3>1. H - j \in Nat /\ K - j \in Nat
      OBVIOUS
    <3>. QED
      BY <3>1
  <2>2. H - (j - 1) = x + 1 /\ K - (j - 1) = y + 1
    BY <2>1
  <2>3. A[x + 1] = B[y + 1]
    BY <1>2, <2>2
  <2>4. x \in 0..H /\ y \in 0..K /\ x + 1 \in 1..H /\ y + 1 \in 1..K /\ x + 1 - 1 = x /\ y + 1 - 1 = y
    BY <2>1
  <2>5. A[x + 1] = build_next_layer(A[x])
    BY <2>4 DEF Tree
  <2>6. B[y + 1] = build_next_layer(B[y])
    BY <2>4 DEF Tree
  <2>7. PICK a, b : a = A[x] /\ b = B[y]
    OBVIOUS
  <2>8. PICK m \in Nat \ {0} : IsList(a, m) /\ Distinct(a, m)
    BY <2>4, <2>7 DEF Tree
  <2>9. PICK l \in Nat \ {0} : IsList(b, l) /\ Distinct(b, l)
    BY <2>4, <2>7 DEF Tree
  <2>10. build_next_layer(a) = build_next_layer(b)
    BY <2>3, <2>5, <2>6, <2>7
  <2>11. a = b
    BY <2>8, <2>9, <2>10, NextDetermines
  <2>12. j \in 0..H
    OBVIOUS
  <2>. QED
    BY <2>1, <2>7, <2>11, <2>12
<1>3. H \in S
  <2>. HIDE DEF S
  <2>1. \A i \in 0..H : i \in S
    BY <1>1, <1>2, UpTo
  <2>. QED
    BY <2>1
<1>4. s = B[K - H]
  <2>1. H - H = 0 /\ A[0] = s
    BY DEF Tree
  <2>. QED
    BY <1>3, <2>1
<1>5. ASSUME H # K
      PROVE  FALSE
  <2>1. PICK y \in Nat : y + 1 = K - H /\ y \in 0..K /\ y + 1 \in 1..K /\ y + 1 - 1 = y
    <3>1. K - H - 1 \in Nat /\ (K - H - 1) + 1 = K - H /\ K - H - 1 \in 0..K
      BY <1>5
    <3>. QED
      BY <3>1
  <2>2. s = build_next_layer(B[y])
    BY <1>4, <2>1 DEF Tree
  <2>3. PICK l \in Nat \ {0} : IsList(B[y], l)
    BY <2>1 DEF Tree
  <2>4. PICK u : u = B[y]
    OBVIOUS
  <2>5. PICK a, b : s[1] = hash_pair(a, b)
    <3>1. PICK m \in Nat \ {0} :
            /\ l = 2 * m \/ l = 2 * m - 1
            /\ IsList(build_next_layer(u), m)
            /\ \A k \in 1..m :
                 build_next_layer(u)[k]
                   = hash_pair(u[2 * k - 1], IF 2 * k - 1 < l THEN u[2 * k] ELSE u[2 * k - 1])
      BY <2>3, <2>4, NextLayer
    <3>2. 1 \in 1..m
      OBVIOUS
    <3>. QED
      BY <2>2, <2>4, <3>1, <3>2
  <2>6. PICK h : s[1] = Leaf(h)
    BY ListOfLeaves
  <2>. QED
    BY <2>5, <2>6 DEF hash_pair, Leaf
<1>6. H = K
  BY <1>5
<1>7. K - H = 0
  BY <1>6
<1>. QED
  BY <1>4, <1>7 DEF Tree

\* Lists without repetitions that have one root are equal.
LEMMA RootDetermines ==
    ASSUME NEW s \in Lists, NEW t \in Lists, IsInjective(s), IsInjective(t),
           compute_merkle_root(s) = compute_merkle_root(t)
    PROVE  s = t
<1>1. PICK A, B : A = layers(s) /\ B = layers(t)
  OBVIOUS
<1>2. PICK H \in Nat : Tree(A, s, H) /\ compute_merkle_root(s) = A[H][1]
  BY <1>1, TreeOf
<1>3. PICK K \in Nat : Tree(B, t, K) /\ compute_merkle_root(t) = B[K][1]
  BY <1>1, TreeOf
<1>4. A[H][1] = B[K][1] /\ (H <= K \/ K <= H)
  <2>1. A[H][1] = B[K][1]
    BY <1>2, <1>3, Zenon
  <2>2. H <= K \/ K <= H
    OBVIOUS
  <2>. QED
    BY <2>1, <2>2
<1>5. CASE H <= K
  BY <1>2, <1>3, <1>4, <1>5, TreesAgree
<1>6. CASE K <= H
  <2>1. B[K][1] = A[H][1]
    BY <1>4
  <2>. QED
    BY <1>2, <1>3, <1>6, <2>1, TreesAgree
<1>. QED
  BY <1>4, <1>5, <1>6

\* For lists of any length: the root commits to the list among those without
\* repetitions, so that a root may stand for its list of leaves.
THEOREM MerkleRootCommits ==
    ProofSpec => []RootCommits
<1>1. ProofInit => leaves \in Lists
  BY DEF ProofInit
<1>2. leaves \in Lists /\ [generate_proof_step]_proof_vars => (leaves \in Lists)'
  BY DEF generate_proof_step, proof_vars
<1>3. leaves \in Lists => RootCommits
  BY RootDetermines DEF RootCommits
<1>. QED
  BY <1>1, <1>2, <1>3, PTL DEF ProofSpec
=============================================================================
