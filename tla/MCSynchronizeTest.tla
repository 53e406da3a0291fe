------------------------- MODULE MCSynchronizeTest -------------------------
(***************************************************************************)
(* An instance of SynchronizeTest for TLC, one worker larger than _THREADS *)
(* of synchronize.t.cpp.                                                   *)
(***************************************************************************)
EXTENDS SynchronizeTest

Locks == {"_print_lock", "_thread_print_lock", "_die_lock"}
Signals == {"_thread_print_cv", "_thread_die_cv"}
=============================================================================
