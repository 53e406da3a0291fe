------------------------------ MODULE MCCortex ------------------------------
(***************************************************************************)
(* Small instances of Cortex for TLC, all of them in the .cfg files.       *)
(***************************************************************************)
EXTENDS Cortex
=============================================================================
