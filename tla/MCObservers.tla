---------------------------- MODULE MCObservers ----------------------------
(* Model-checking instances of Observers. *)
EXTENDS Observers, TLC

ThreadSymmetry == Permutations(Threads)

=============================================================================
