---------------------------- MODULE MCUTXOStore ----------------------------
(***************************************************************************)
(* UTXOStore on small instances: two addresses, two transfers that are     *)
(* interchangeable names, a few heights.                                   *)
(***************************************************************************)
EXTENDS UTXOStoreLedger, TLC

CONSTANTS alice, bob, t1, t2

MCAddress == {alice, bob}
MCTransfer == {t1, t2}
Symmetry == Permutations(MCTransfer)
=============================================================================
