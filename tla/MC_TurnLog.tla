----------------------------- MODULE MC_TurnLog -----------------------------
(* TurnLog over two turns and up to two sessions, for the runs that find a
   promise broken.  Turns are interchangeable, and so are sessions. *)
EXTENDS TurnLog, TLC

OneOpinion == {{"right"}}

Symmetry == Permutations(Turns) \union Permutations(Sessions)

=============================================================================
