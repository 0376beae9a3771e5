--------------------------- MODULE MCBlockRewards ---------------------------
(***************************************************************************)
(* BlockRewards with three or four blocks; the first halving and the       *)
(* supply cap both fall within them.                                       *)
(***************************************************************************)
EXTENDS BlockRewards
=============================================================================
