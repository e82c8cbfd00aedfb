------------------------------ MODULE MCWallet ------------------------------
(***************************************************************************)
(* Instance of Wallet for TLC.  Amounts and fees of 1 and 11, 2 and 12     *)
(* units, whose digits run together; an amount below one unit and a        *)
(* negative one; a recipient that is no address.                           *)
(***************************************************************************)
EXTENDS Wallet, TLC

Interchangeable == Permutations(Process) \cup Permutations(Password)

MCTemp(p) == p + 10
MCAmounts == {-10, 5, 10, 110}
MCRecipients ==
    {address(KeyPair(9)), [prefix |-> "kyv1", digits |-> 32, hex |-> TRUE, of |-> 0]}
=============================================================================
