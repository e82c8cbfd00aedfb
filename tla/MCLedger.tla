------------------------------ MODULE MCLedger ------------------------------
(***************************************************************************)
(* Instances of Ledger for TLC.  Addresses 1 and 2 are users, 3 is the     *)
(* treasury; amounts are in units chosen so that a fee of 10 splits        *)
(* exactly (1 to the treasury, 4 to the validators, 5 burned), a stake of  *)
(* 10 is an Igniter, 20 a Kinetic, and a 10% slash of either is a whole    *)
(* unit while a 1% slash rounds to zero.                                   *)
(***************************************************************************)
EXTENDS Ledger

Funded(n) == [NewAccount EXCEPT !.balance = n]

\* One funded user; the other user and the treasury do not exist yet.
MCGenesis == [a \in {1} |-> Funded(45)]
=============================================================================
