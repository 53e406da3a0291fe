------------------------------- MODULE MCMain -------------------------------
(***************************************************************************)
(* A small instance of Main for TLC: the same game asked for in several    *)
(* ways, with and without the display of events and of the grid, and by a  *)
(* command line with an option the program does not know.                  *)
(***************************************************************************)
EXTENDS Main

Four == 1 .. 4

Number(n) == [number |-> n, name |-> ""]
Option(name) == [number |-> 0, name |-> name]

Lines ==
  {<<Number(1), Number(2)>>,
   <<Number(1), Option("ne"), Option("ng"), Number(3), Number(2)>>,
   <<Option("ff"), Option("nosuch"), Number(1), Number(2)>>}
=============================================================================
