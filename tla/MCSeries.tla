------------------------------ MODULE MCSeries ------------------------------
(***************************************************************************)
(* The drivers of both series for TLC: series is the one that is run.      *)
(* Two passes of three jobs with three threads, of which the pools make    *)
(* two, so that a pass has a job more than its pools have workers; a call  *)
(* for help; options that the program does not know or that lack their     *)
(* number; and command lines that leave it no numbers to work with.        *)
(***************************************************************************)
EXTENDS BetaSeries

Alpha == INSTANCE AlphaSeries

VARIABLE series

Option(name) == [name |-> name, number |-> 0]
Number(n) == [name |-> "", number |-> n]

Lines ==
  {<<Option("threads"), Number(3), Option("elements"), Number(3),
     Option("runs"), Number(2)>>,
   <<Option("help"), Number(1)>>,
   <<Option("nosuch"), Option("runs"), Number(2), Option("help")>>,
   <<Option("runs"), Number(2), Option("help")>>,
   <<Option("range_max"), Number(0)>>,
   <<Option("elements"), Number(0)>>}

SeriesInit ==
  \/ series = "alpha" /\ Alpha!AlphaInit
  \/ series = "beta" /\ BetaInit

SeriesNext ==
  /\ \/ series = "alpha" /\ Alpha!AlphaNext
     \/ series = "beta" /\ BetaNext
  /\ UNCHANGED series

\* The fairness of a driver: the two differ only in their parsers.
SeriesSpec == SeriesInit /\ [][SeriesNext]_<<testVars, series>> /\ TestFairness

-----------------------------------------------------------------------------
\* "All arguments take a single integer": both series run the passes that are asked
\* for, or none.  The parser of the beta series looks whether an option has its
\* number, and never reads beyond the command line, well formed or not.
SeriesAsAsked == PassesAsAsked /\ (series = "beta" => RunsAsAsked)
=============================================================================
