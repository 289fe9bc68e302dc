-------------------------- MODULE CoordinatorMain ---------------------------
(***************************************************************************)
(* main and run_coordinator of src/coordinator/main.c: when the process    *)
(* creates, uses and frees its task queue, and when it reads the file      *)
(* given with --tasks.  SIGINT or SIGTERM may arrive at any time.          *)
(***************************************************************************)
EXTENDS Naturals

CONSTANT TaskFile   \* was --tasks given?

VARIABLES pc,         \* "init", "loop", "cleanup", "returned", "exit"
          task_queue, \* "null", "live" or "freed"; the pointer is never reset
          running,    \* cleared by the signal handler
          loading     \* load_tasks_from_file has been called

vars == <<pc, task_queue, running, loading>>

Init == pc = "init" /\ task_queue = "null" /\ running = TRUE /\ loading = FALSE

(* signal_handler *)
Signal ==
  /\ running /\ pc # "exit" /\ running' = FALSE
  /\ UNCHANGED <<pc, task_queue, loading>>

(* The transport, the queue or the scheduler cannot be created: log_fatal
   aborts, the log being open, and the return behind it is not reached. *)
SetupFails ==
  /\ pc = "init" /\ pc' = "exit"
  /\ task_queue' \in {"null", "live"}
  /\ UNCHANGED <<running, loading>>

Setup ==
  /\ pc = "init" /\ pc' = "loop" /\ task_queue' = "live"
  /\ UNCHANGED <<running, loading>>

(* The event loop ends when running is 0. *)
LeaveLoop ==
  /\ pc = "loop" /\ ~running /\ pc' = "cleanup"
  /\ UNCHANGED <<task_queue, running, loading>>

(* The destructors at the end of run_coordinator. *)
Cleanup ==
  /\ pc = "cleanup" /\ pc' = "returned" /\ task_queue' = "freed"
  /\ UNCHANGED <<running, loading>>

(* Back in main: the task file, if there is one and the pointer is set. *)
LoadTasks ==
  /\ pc = "returned" /\ pc' = "exit"
  /\ loading' = (TaskFile /\ task_queue # "null")
  /\ UNCHANGED <<task_queue, running>>

Next == Signal \/ SetupFails \/ Setup \/ LeaveLoop \/ Cleanup \/ LoadTasks

Spec == Init /\ [][Next]_vars

(***************************************************************************)
(* The help text: "--tasks <file>     Load tasks from file".  The tasks    *)
(* are loaded into a queue that exists, not into freed memory.             *)
(***************************************************************************)
LoadsIntoLiveQueue == loading => task_queue = "live"
=============================================================================
