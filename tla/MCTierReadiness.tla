--------------------------- MODULE MCTierReadiness ---------------------------
(* TierReadiness with two packages: the first can be promoted by a control *)
(* thread while the second is being ingested.                              *)
EXTENDS TierReadiness
=============================================================================
