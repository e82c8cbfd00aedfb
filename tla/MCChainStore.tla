---------------------------- MODULE MCChainStore ----------------------------
(***************************************************************************)
(* Instance of ChainStore for TLC: two allocations, the second to the      *)
(* genesis miner as the founder's is; blocks with one or two payments, of  *)
(* one sender or of two, and one whose second payment has no hash.         *)
(***************************************************************************)
EXTENDS ChainStore

MCAllocations == <<[to |-> 1, amount |-> 3], [to |-> 2, amount |-> 2]>>

Pay(sender, fee) == [sender |-> sender, fee |-> fee, hashed |-> TRUE]
MCBodies ==
    {<<>>, <<Pay(1, 1)>>, <<Pay(1, 2), Pay(2, 1)>>, <<Pay(1, 1), Pay(1, 2)>>,
     <<Pay(2, 1), [Pay(1, 1) EXCEPT !.hashed = FALSE]>>}
=============================================================================
