---------------------------- MODULE MCRequestGate ----------------------------
(* Symmetry for the instances of RequestGate. *)
EXTENDS RequestGate, TLC

Symmetry == Permutations(Requests) \cup Permutations(Keys)

=============================================================================
