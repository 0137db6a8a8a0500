----------------------------- MODULE MC_ColdTurns -----------------------------
(* ColdTurns over a few turns and endpoints; no symmetry, for the liveness. *)
EXTENDS ColdTurns

=============================================================================
