--------------------------- MODULE MC_ExploreLoop ---------------------------
(* ExploreLoop with budgets of up to four calls, in batches of up to
   three. *)
EXTENDS ExploreLoop

=============================================================================
