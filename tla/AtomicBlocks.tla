---------------------------- MODULE AtomicBlocks ----------------------------
(***************************************************************************)
(* What block processing promises about the accounts tree: a block is      *)
(* applied as a whole, or leaves no trace because one of its transactions  *)
(* fails, and the state root committed by an epoch block is the root of    *)
(* the accounts it was computed from.  A process that stops in the middle  *)
(* of a block leaves the accounts of that block in some state, all others  *)
(* and the root as they were.                                              *)
(***************************************************************************)
EXTENDS StateTrie

CONSTANTS
    Start,      \* the accounts tree before the first block
    Blocks      \* the blocks that may arrive: sequences of transactions

VARIABLES
    accounts,
    state_root,
    result      \* how the last block ended

Init == accounts = Start /\ state_root = <<>> /\ result = "none"

\* The root of a tree is a collision-free hash, so it is the tree itself; no
\* root saved counts as the root of the empty tree.
Commit(block, isEpoch) ==
    /\ ApplyAll(accounts, block).ok
    /\ accounts' = ApplyAll(accounts, block).accts
    /\ state_root' = IF isEpoch THEN accounts' ELSE state_root
    /\ result' = "applied"

Refuse(block) ==
    /\ ~ApplyAll(accounts, block).ok
    /\ result' = "rolled back"
    /\ UNCHANGED <<accounts, state_root>>

\* The accounts a block may change.
Parties(block) ==
    {Treasury} \cup UNION {{block[i].sender, block[i].receiver} : i \in DOMAIN block}

Interrupt(block) ==
    /\ Restrict(accounts', DOMAIN accounts' \ Parties(block))
         = Restrict(accounts, DOMAIN accounts \ Parties(block))
    /\ state_root' = state_root
    /\ result' = "crashed"

Next ==
    \E block \in Blocks :
        \/ \E isEpoch \in BOOLEAN : Commit(block, isEpoch)
        \/ Refuse(block)
        \/ Interrupt(block)

Spec == Init /\ [][Next]_<<accounts, state_root, result>>
=============================================================================
