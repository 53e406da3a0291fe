--------------------------- MODULE MCRawThreadTest ---------------------------
(***************************************************************************)
(* A small instance of RawThreadTest for TLC.                              *)
(***************************************************************************)
EXTENDS RawThreadTest
=============================================================================
