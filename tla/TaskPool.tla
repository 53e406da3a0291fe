------------------------------ MODULE TaskPool ------------------------------
(***************************************************************************)
(* What a thread pool of this repository promises about the tasks handed   *)
(* to it, whatever its queues and its synchronisation: a task is submitted *)
(* once, is executed by at most one thread and at most once, and a thread  *)
(* executes one task at a time.  A task that is waiting may also be given  *)
(* up without having run: the destructor deletes it, or stop() abandons    *)
(* it.  A task that was given up never runs.                               *)
(*                                                                         *)
(* Cortex and MultiQueueThreadpool are both shown to implement this        *)
(* specification.                                                          *)
(***************************************************************************)
CONSTANTS
  Tasks,    \* the functional::Task objects clients bind and submit
  Threads,  \* the threads that may execute a task
  NoTask    \* what an idle thread executes

VARIABLES
  pending,    \* submitted, not started
  executing,  \* the task each thread is executing, or NoTask
  finished,   \* executed to the end
  givenUp     \* dropped without having been executed

poolVars == <<pending, executing, finished, givenUp>>

Executing == {executing[h] : h \in Threads} \ {NoTask}

Init ==
  /\ pending = {}
  /\ executing = [h \in Threads |-> NoTask]
  /\ finished = {}
  /\ givenUp = {}

Submit(t) ==
  /\ t \notin pending \cup Executing \cup finished \cup givenUp
  /\ pending' = pending \cup {t}
  /\ UNCHANGED <<executing, finished, givenUp>>

Begin(h, t) ==
  /\ t \in pending
  /\ executing[h] = NoTask
  /\ pending' = pending \ {t}
  /\ executing' = [executing EXCEPT ![h] = t]
  /\ UNCHANGED <<finished, givenUp>>

Complete(h) ==
  /\ executing[h] # NoTask
  /\ finished' = finished \cup {executing[h]}
  /\ executing' = [executing EXCEPT ![h] = NoTask]
  /\ UNCHANGED <<pending, givenUp>>

GiveUp(S) ==
  /\ pending' = pending \ S
  /\ givenUp' = givenUp \cup S
  /\ UNCHANGED <<executing, finished>>

Next ==
  \/ \E t \in Tasks : Submit(t)
  \/ \E h \in Threads : Complete(h) \/ \E t \in Tasks : Begin(h, t)
  \/ \E S \in SUBSET pending : GiveUp(S)

Spec == Init /\ [][Next]_poolVars
=============================================================================
