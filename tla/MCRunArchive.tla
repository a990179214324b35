---------------------------- MODULE MCRunArchive ----------------------------
(***************************************************************************)
(* A small workflow and its archive: the values of MCWorkflowController.   *)
(***************************************************************************)
EXTENDS RunArchive, MCWorkflowController
=============================================================================
