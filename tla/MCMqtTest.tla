------------------------------ MODULE MCMqtTest ------------------------------
(***************************************************************************)
(* A small instance of MqtTest for TLC.                                    *)
(***************************************************************************)
EXTENDS MqtTest
=============================================================================
