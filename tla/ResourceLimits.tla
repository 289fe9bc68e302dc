--------------------------- MODULE ResourceLimits ---------------------------
(***************************************************************************)
(* src/runtime/resource_limits.c, used by the loop of example_integrated   *)
(* in examples/minimal_cluster/runtime_example.c (the thread Loop) and by  *)
(* other threads that reserve and release (Client).  A function that holds *)
(* the mutex throughout is one step.  check_all is five such functions and *)
(* an update, and the loop's test for an empty queue, its reservation and  *)
(* its dequeue are steps of their own.  Only the loop takes tasks out of   *)
(* the queue, so that the dequeue after its test finds one.                *)
(*                                                                         *)
(* Memory is measured in units: mem is what the process has, rss what the  *)
(* last update saw.  What CPU, disk and open files say depends on nothing  *)
(* modelled here: other is the worst of their three checks.  The counts of *)
(* completed and failed tasks and the peak of memory, which nothing reads, *)
(* are left out, and with them resource_limits_reset_stats.                *)
(***************************************************************************)
EXTENDS Integers, FiniteSets

CONSTANTS Loop, Client,
          TaskLimits,    \* uint64_t values given for the limit on concurrent tasks
          TaskWord,      \* the limit is kept modulo this number, 2^32 in the code
          MemLimits,     \* values of the two memory thresholds
          MaxMem, QueueSize,
          ClientTasks    \* bound on the tasks of a client

ASSUME LimitsAssumption ==
  /\ Loop \notin Client /\ IsFiniteSet(Client)
  /\ TaskLimits \subseteq Nat /\ TaskWord \in Nat \ {0} /\ MemLimits \subseteq Nat

VARIABLES max_concurrent_tasks, tasks_running,
          max_memory, warn_memory,
          mem, other,        \* the environment
          rss,               \* stats.memory_rss_bytes
          queue,             \* tasks in the queue
          place, worst,         \* where each thread is; the loop's check_all so far
          left               \* tasks a client has still to run

limitVars == <<max_concurrent_tasks, tasks_running, max_memory, warn_memory, mem, other,
               rss, queue, place, worst, left>>
config == <<max_concurrent_tasks, max_memory, warn_memory>>
env == <<mem, other>>

LimitThread == Client \cup {Loop}
OK == 0
WARNING == 1
EXCEEDED == 2
Worse(a, b) == IF a > b THEN a ELSE b

(* resource_limits_create, with any configuration *)
LimitsInit ==
  /\ max_concurrent_tasks \in {v % TaskWord : v \in TaskLimits} /\ tasks_running = 0
  /\ max_memory \in MemLimits /\ warn_memory \in MemLimits
  /\ mem = 0 /\ other = OK
  /\ rss = 0
  /\ queue = QueueSize
  /\ place = [t \in LimitThread |-> "top"] /\ worst = OK
  /\ left = [c \in Client |-> ClientTasks]

Goto(t, to) == place' = [place EXCEPT ![t] = to]

-----------------------------------------------------------------------------
(* resource_limits_check; a memory limit of 0 is none. *)
check_memory ==
  IF max_memory = 0 THEN OK
  ELSE IF rss >= max_memory THEN EXCEEDED ELSE IF rss >= warn_memory THEN WARNING ELSE OK

check_tasks ==
  IF tasks_running >= max_concurrent_tasks THEN EXCEEDED
  ELSE IF 10 * tasks_running >= 8 * max_concurrent_tasks THEN WARNING ELSE OK

(* resource_limits_update *)
Sample == rss' = mem

update(t) ==
  \/ /\ t = Loop /\ place[t] = "update"
     /\ Goto(t, "memory") /\ worst' = OK
     /\ Sample /\ UNCHANGED <<config, env, tasks_running, queue, left>>
  \/ /\ t = Loop /\ place[t] = "paused"
     /\ Goto(t, "top") /\ UNCHANGED worst
     /\ Sample /\ UNCHANGED <<config, env, tasks_running, queue, left>>

(* Mutant of check_all: a warning stops the loop too. *)
check_all_warning ==
  /\ \/ place[Loop] = "memory" /\ Goto(Loop, "tasks") /\ worst' = Worse(worst, check_memory)
     \/ place[Loop] = "tasks" /\ Goto(Loop, "rest") /\ worst' = Worse(worst, check_tasks)
     \/ place[Loop] = "rest" /\ worst' = Worse(worst, other)
        /\ Goto(Loop, IF worst' >= WARNING THEN "paused" ELSE "reserve")
  /\ UNCHANGED <<config, tasks_running, env, rss, queue, left>>

(* The checks of resource_limits_check_all, each under the mutex by itself. *)
check_all ==
  /\ \/ place[Loop] = "memory" /\ Goto(Loop, "tasks") /\ worst' = Worse(worst, check_memory)
     \/ place[Loop] = "tasks" /\ Goto(Loop, "rest") /\ worst' = Worse(worst, check_tasks)
     \/ place[Loop] = "rest" /\ worst' = Worse(worst, other)
        /\ Goto(Loop, IF worst' >= EXCEEDED THEN "paused" ELSE "reserve")
  /\ UNCHANGED <<config, tasks_running, env, rss, queue, left>>

(* Mutant of reserve_task: one task too many. *)
reserve_task_late(t) ==
  /\ IF tasks_running > max_concurrent_tasks
     THEN UNCHANGED tasks_running /\ Goto(t, "top")
     ELSE tasks_running' = tasks_running + 1 /\ Goto(t, "reserved")
  /\ UNCHANGED <<config, env, rss, queue, worst, left>>

(* resource_limits_reserve_task; refused, both callers start over. *)
reserve_task(t) ==
  /\ IF tasks_running >= max_concurrent_tasks
     THEN UNCHANGED tasks_running /\ Goto(t, "top")
     ELSE tasks_running' = tasks_running + 1 /\ Goto(t, "reserved")
  /\ UNCHANGED <<config, env, rss, queue, worst, left>>

Reserve(t) == (IF t = Loop THEN place[t] = "reserve" ELSE place[t] = "top" /\ left[t] > 0) /\ reserve_task(t)

(* Mutant of release_task: a failed task keeps its place. *)
release_task_ok(t, success) ==
  /\ tasks_running' = IF success /\ tasks_running > 0 THEN tasks_running - 1 ELSE tasks_running
  /\ Goto(t, "top")
  /\ UNCHANGED <<config, env, rss, queue, worst>>

(* resource_limits_release_task *)
release_task(t, success) ==
  /\ tasks_running' = IF tasks_running > 0 THEN tasks_running - 1 ELSE 0
  /\ Goto(t, "top")
  /\ UNCHANGED <<config, env, rss, queue, worst>>

Release(t) ==
  IF t = Loop THEN place[t] = "working" /\ release_task(t, TRUE) /\ UNCHANGED left
  ELSE /\ place[t] = "reserved" /\ left' = [left EXCEPT ![t] = @ - 1]
       /\ \E success \in BOOLEAN : release_task(t, success)

-----------------------------------------------------------------------------
(* The loop goes on while the queue has tasks. *)
IsEmpty ==
  /\ place[Loop] = "top" /\ Goto(Loop, IF queue = 0 THEN "done" ELSE "update")
  /\ UNCHANGED <<config, tasks_running, env, rss, queue, worst, left>>

TakeTask ==
  /\ place[Loop] = "reserved"
  /\ queue > 0 /\ queue' = queue - 1 /\ Goto(Loop, "working")
  /\ UNCHANGED <<config, tasks_running, env, rss, worst, left>>

(* resource_limits_set_hard_limit and set_soft_limit, from any thread.  0 is
   accepted, and a value of 2^32 or more is cut to 32 bits. *)
set_limits ==
  /\ \/ max_concurrent_tasks' \in {v % TaskWord : v \in TaskLimits} /\ UNCHANGED <<max_memory, warn_memory>>
     \/ max_memory' \in MemLimits /\ UNCHANGED <<max_concurrent_tasks, warn_memory>>
     \/ warn_memory' \in MemLimits /\ UNCHANGED <<max_concurrent_tasks, max_memory>>
  /\ UNCHANGED <<tasks_running, env, rss, queue, place, worst, left>>

(* The process and the machine; a warning of other would change nothing. *)
Environment ==
  /\ mem' \in 0..MaxMem /\ other' \in {OK, EXCEEDED}
  /\ UNCHANGED <<config, tasks_running, rss, queue, place, worst, left>>

LimitStep(t) == update(t) \/ Reserve(t) \/ Release(t) \/ (t = Loop /\ (check_all \/ IsEmpty \/ TakeTask))

LimitsNext ==
  \/ \E t \in LimitThread : LimitStep(t)
  \/ set_limits \/ Environment

LimitsSpec == LimitsInit /\ [][LimitsNext]_limitVars

-----------------------------------------------------------------------------
(* The threads that have reserved and not yet released. *)
Holders ==
  {t \in LimitThread : place[t] \in {"reserved", "working"}}

(***************************************************************************)
(* tasks_running is the number of threads that hold a reservation: no      *)
(* order of reservations, releases after success or failure and moves of   *)
(* the limit makes it drift (reserve_task, release_task).                  *)
(***************************************************************************)
RunningMatches == tasks_running = Cardinality(Holders)

(***************************************************************************)
(* A reservation is granted only when the threads that hold one, this one  *)
(* included, are within the limit then in force, also just after the limit *)
(* was lowered below the tasks already running (reserve_task,              *)
(* set_hard_limit).                                                        *)
(***************************************************************************)
Admission ==
  [][Holders' \ Holders # {} =>
       Cardinality(Holders') <= max_concurrent_tasks]_limitVars
=============================================================================
