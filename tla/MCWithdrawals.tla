--------------------------- MODULE MCWithdrawals ----------------------------
(***************************************************************************)
(* Instance of Withdrawals for TLC: two validators, the first just above   *)
(* its tier.                                                               *)
(***************************************************************************)
EXTENDS Withdrawals, TLC

MCStart ==
    (1 :> [balance |-> 0, staked |-> 3, nonce |-> 0, tier |-> "Kinetic"])
      @@ (2 :> [balance |-> 1, staked |-> 2, nonce |-> 0, tier |-> "Igniter"])
=============================================================================
