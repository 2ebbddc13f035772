-------------------------- MODULE MCArchiveOldCalls --------------------------
(* The module the runs of ArchiveOldCalls name; calls are model values.      *)
EXTENDS ArchiveOldCalls
=============================================================================
