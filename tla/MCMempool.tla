------------------------------ MODULE MCMempool -----------------------------
(***************************************************************************)
(* An instance of Mempool for TLC: two senders, three places in the pool,  *)
(* and submissions that meet every check: consecutive nonces at rising and *)
(* falling fees, two transactions for one nonce, one hash used twice, equal*)
(* fees, one transaction that is malformed and some that cost more than    *)
(* the smaller balance.                                                    *)
(***************************************************************************)
EXTENDS Mempool

Submit(h, s, n, f, m) ==
    [hash |-> h, sender |-> s, nonce |-> n, fee |-> f, amount |-> m,
     type |-> "Transfer", well_formed |-> TRUE]

MCTx ==
    { Submit(1, "alice", 0, 1, 0),
      Submit(2, "alice", 1, 2, 0),
      Submit(3, "alice", 2, 3, 1),
      Submit(4, "alice", 0, 2, 2),
      Submit(5, "bob", 0, 1, 1),
      Submit(6, "bob", 1, 3, 0),
      [Submit(6, "bob", 2, 2, 1) EXCEPT !.type = "StakeUnlock"],
      [Submit(7, "bob", 0, 3, 0) EXCEPT !.well_formed = FALSE],
      [Submit(8, "bob", 1, 2, 1) EXCEPT !.type = "StakeLock"] }
=============================================================================
