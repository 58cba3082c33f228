--------------------------- MODULE MCGodModeTrace ---------------------------
(* The instance of GodModeTrace for model checking: two threads, given in   *)
(* the configuration.                                                       *)
EXTENDS GodModeTrace

=============================================================================
