------------------------- MODULE MCReloadScheduler -------------------------
(* Small instances of ReloadScheduler: two or three handlers race the      *)
(* background task.                                                        *)
EXTENDS ReloadScheduler, TLC

HandlerSymmetry == Permutations(Handlers)
=============================================================================
