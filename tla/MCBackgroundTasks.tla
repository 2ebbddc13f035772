------------------------- MODULE MCBackgroundTasks -------------------------
(* BackgroundTasks as the TLC configuration tasks_* instantiate it.         *)
EXTENDS BackgroundTasks
=============================================================================
