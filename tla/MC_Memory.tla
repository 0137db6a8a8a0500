------------------------------ MODULE MC_Memory ------------------------------
(* Memory over two turns and one name.  Turns, names and shapes are
   interchangeable, and no liveness property is checked. *)
EXTENDS Memory, TLC

Symmetry == Permutations(Turns) \union Permutations(Names)
              \union Permutations(Shapes)

=============================================================================
