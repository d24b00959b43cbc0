---------------------------- MODULE MCJobRunner ----------------------------
(* Small instances of JobRunner for TLC. *)
EXTENDS JobRunner
=============================================================================
