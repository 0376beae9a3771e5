-------------------------- MODULE MCSectorExchange --------------------------
(***************************************************************************)
(* SectorExchange on small instances: two users, two blocks, the reward    *)
(* halved at the second.                                                   *)
(***************************************************************************)
EXTENDS SectorExchange

MCReward == [h \in 1 .. MaxHeight |-> IF h = 1 THEN 2 ELSE 1]
=============================================================================
