--------------------------- MODULE MCQueueHandoff ---------------------------
(* The instance of QueueHandoff for model checking: three callers, given in *)
(* the configuration.                                                       *)
EXTENDS QueueHandoff

=============================================================================
