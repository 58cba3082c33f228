---------------------------- MODULE MCRconSystem ----------------------------
(* Model-checking instances of RconSystem. *)
EXTENDS RconSystem, TLC

\* The connections take part in no order, so they may be permuted.
ConnSymmetry == Permutations(Conns)

=============================================================================
