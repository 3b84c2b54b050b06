--------------------------- MODULE MCBrainstormUI ---------------------------
(* The instances of BrainstormUI. *)
EXTENDS BrainstormUI, TLC

Symmetry == Permutations(Tabs) \cup Permutations(Listeners)

=============================================================================
