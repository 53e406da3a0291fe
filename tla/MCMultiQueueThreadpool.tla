----------------------- MODULE MCMultiQueueThreadpool -----------------------
(***************************************************************************)
(* Small instances of MultiQueueThreadpool for TLC, all of them in the     *)
(* .cfg files.                                                             *)
(***************************************************************************)
EXTENDS MultiQueueThreadpool
=============================================================================
