-------------------------- MODULE MCCheckpointStore --------------------------
(* Symmetry for the instances of CheckpointStore. *)
EXTENDS CheckpointStore, TLC

Symmetry == Permutations(Clients) \cup Permutations(Threads)

=============================================================================
