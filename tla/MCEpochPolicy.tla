--------------------------- MODULE MCEpochPolicy ----------------------------
(***************************************************************************)
(* Instance of EpochPolicy for TLC: two types of transaction, the fee of    *)
(* one of which wraps around when it is split, epochs that are empty, a     *)
(* quarter, three quarters and completely full, blocks that are fast, on    *)
(* time and slow.                                                           *)
(***************************************************************************)
EXTENDS EpochPolicy

MCBaseFee == [Transfer |-> 9, ContractCall |-> 1700]
=============================================================================
