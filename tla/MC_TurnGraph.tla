---------------------------- MODULE MC_TurnGraph ----------------------------
(* TurnGraph over one or two entry names, two or three turns.  The names
   are model values given by the configurations. *)
EXTENDS TurnGraph

=============================================================================
