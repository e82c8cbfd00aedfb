---------------------------- MODULE MCBlockRules ----------------------------
(***************************************************************************)
(* Instances of BlockRules for TLC.  Addresses 1 to 3 are users, 4 is the  *)
(* treasury; address 3 has no account until it is paid.                    *)
(***************************************************************************)
EXTENDS BlockRules

MCStart == [a \in {1, 2} |-> [NewAccount EXCEPT !.balance = 40]]

Tx(type, sender, receiver, nonce) ==
    [type |-> type, sender |-> sender, receiver |-> receiver,
     amount |-> 10, fee |-> 1, nonce |-> nonce]

\* Two payments of user 1, one of user 2 and one of an absent sender, alone and
\* together: conflicting, replayed and unaffordable ones among them.
MCTxLists ==
    {<<Tx("Transfer", 1, 3, 0)>>,
     <<Tx("Contract", 1, 1, 0), Tx("Transfer", 2, 3, 0)>>,
     <<Tx("Contract", 1, 1, 1)>>,
     <<Tx("Transfer", 3, 1, 0)>>}

\* Clocks that agree, and a second node that is behind by more than the skew.
InSync == [n \in Node |-> 0]
Apart == [n \in Node |-> IF n = 1 THEN 2 ELSE 0]
=============================================================================
