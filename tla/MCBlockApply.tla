---------------------------- MODULE MCBlockApply ----------------------------
(***************************************************************************)
(* Instances of BlockApply for TLC.  Addresses 1 and 2 are users, 3 is the *)
(* treasury, which does not exist at the start.  User 1 can pay for one    *)
(* transfer, user 2 only with what it receives.                            *)
(***************************************************************************)
EXTENDS BlockApply

CONSTANT BlockSize      \* transactions per block, at most

MCStart == [a \in {1, 2} |-> [NewAccount EXCEPT !.balance = IF a = 1 THEN 25 ELSE 10]]

\* User 1 signs transfers to everybody, itself and the treasury included, and
\* the other types; user 2 answers with a transfer.
MCTxs ==
    {tx \in [type : {"Transfer", "StakeLock", "Contract"}, sender : {1, 2},
             receiver : {1, 2, 3}, amount : {10}, fee : {10}, nonce : {0, 1}] :
        /\ tx.type = "Transfer" \/ tx.receiver = tx.sender
        /\ tx.sender = 2 => tx.type = "Transfer" /\ tx.receiver = 1 /\ tx.nonce = 0}

MCBlocks == SeqOf(MCTxs, BlockSize)
=============================================================================
