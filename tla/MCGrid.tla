------------------------------- MODULE MCGrid -------------------------------
(***************************************************************************)
(* Small grids for TLC.  The limits of what a botbot is built with, the    *)
(* multipliers and the minimum are smaller than in botbot.cpp, in the same *)
(* order: a loser may be left with nothing, or lose a part of what it has. *)
(***************************************************************************)
EXTENDS Grid

Two == 1 .. 2
Three == 1 .. 3
=============================================================================
