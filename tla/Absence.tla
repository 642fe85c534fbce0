------------------------------- MODULE Absence -------------------------------
(***************************************************************************)
(* The null of the database and of the code, for the modules that one      *)
(* model-checking module composes.                                         *)
(***************************************************************************)
CONSTANT NONE
==============================================================================
