--------------------------- MODULE MCModLifecycle ---------------------------
(* Model-checking instances of ModLifecycle. *)
EXTENDS ModLifecycle, TLC

ThreadSymmetry == Permutations(Threads)

=============================================================================
