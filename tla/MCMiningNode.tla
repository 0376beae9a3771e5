---------------------------- MODULE MCMiningNode ----------------------------
(***************************************************************************)
(* MiningNode on small instances: one mining loop or none, one own         *)
(* transfer and up to three foreign transactions.  The nonce of f1 is text *)
(* and the lowest, that of f2 is of the form F2Form, f3 has none; f1 and   *)
(* f3 spend the same coin, the own transfer spends that of f2.             *)
(***************************************************************************)
EXTENDS MiningNode

CONSTANTS l1, o1, f1, f2, f3, F2Form, c1, c2

MCInputOf == [t \in Tx |-> IF t \in {f1, f3} THEN c1 ELSE c2]
MCNonceOf == [t \in Foreign |-> IF t = f1 THEN 0 ELSE 1]
MCFormOf == [t \in Foreign |-> IF t = f1 THEN "text" ELSE IF t = f2 THEN F2Form ELSE "none"]
=============================================================================
