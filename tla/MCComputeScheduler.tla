------------------------- MODULE MCComputeScheduler -------------------------
(***************************************************************************)
(* ComputeScheduler on small instances: two miners, and a blind task or,   *)
(* when Wide, one that needs both of them.                                 *)
(***************************************************************************)
EXTENDS ComputeScheduler, TLC

CONSTANTS Wide

MCNodes == [t \in Task |-> IF Wide THEN 2 ELSE 1]
MCBacked == [t \in Task |-> Miner]

MCSymmetry == Permutations(Miner) \cup Permutations(Answer)
=============================================================================
