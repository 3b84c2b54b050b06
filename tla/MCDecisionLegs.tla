--------------------------- MODULE MCDecisionLegs ---------------------------
(* Symmetry for the instances of DecisionLegs. *)
EXTENDS DecisionLegs, TLC

Symmetry == Permutations(Callers) \cup Permutations(Answers)

=============================================================================
