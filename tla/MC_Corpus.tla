------------------------------ MODULE MC_Corpus ------------------------------
(* Two other callers on one session, and an answer key of two cases: one with
   an answer, one without. *)
EXTENDS Corpus

CONSTANTS c1, c2, r1, r2

SomeCases ==
  <<[turn |-> c1, session |-> r1, expect |-> TRUE, reference |-> TRUE],
    [turn |-> c2, session |-> r2, expect |-> FALSE, reference |-> TRUE]>>

OneOpinion == {{"right"}}

=============================================================================
