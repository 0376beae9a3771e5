-------------------------- MODULE MCComputeMarket --------------------------
(***************************************************************************)
(* ComputeMarket on small instances: one or two miners with one GPU each,  *)
(* one or two orders; an order for two GPUs when Wide.                     *)
(***************************************************************************)
EXTENDS ComputeMarket

CONSTANTS h1, h2, Wide

MCAlloc == [m \in Miner |-> 1]
MCGpuCount == [o \in Order |-> IF Wide THEN 2 ELSE 1]
=============================================================================
