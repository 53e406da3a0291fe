---------------------------- MODULE MCAlphaSeries ----------------------------
(***************************************************************************)
(* An instance of AlphaSeries for TLC: one pass of one job with one        *)
(* thread.                                                                 *)
(***************************************************************************)
EXTENDS AlphaSeries

Option(name) == [name |-> name, number |-> 0]
Number(n) == [name |-> "", number |-> n]

Lines == {<<Option("threads"), Number(1), Option("elements"), Number(1)>>}
=============================================================================
