---------------------------- MODULE MCJobStages ----------------------------
(***************************************************************************)
(* Instances of JobStages for TLC.                                         *)
(***************************************************************************)
EXTENDS JobStages
=============================================================================
