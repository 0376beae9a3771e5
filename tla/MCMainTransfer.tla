--------------------------- MODULE MCMainTransfer ---------------------------
(***************************************************************************)
(* MainTransfer on small instances: of two transfers one needs two         *)
(* witnesses, the other, too small to be large to the witness engine,      *)
(* three.                                                                  *)
(***************************************************************************)
EXTENDS MainTransfer, TLC

CONSTANTS t1, t2

MCEngineNeed == [t \in TransferId |-> 2]
MCNeed == [t \in TransferId |-> IF t = t2 THEN 3 ELSE 2]
MCSymmetry == Permutations(Sector)
=============================================================================
