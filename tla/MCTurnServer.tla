---------------------------- MODULE MCTurnServer ----------------------------
(* Symmetry for the instances of TurnServer. *)
EXTENDS TurnServer, TLC

Symmetry == Permutations(Requests) \cup Permutations(Sessions)

=============================================================================
