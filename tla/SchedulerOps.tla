---------------------------- MODULE SchedulerOps ----------------------------
(***************************************************************************)
(* src/coordinator/scheduler.c as operators on the value of the scheduler  *)
(* structure: its worker table, its task table and its statistics.  Each   *)
(* function of the file holds sched->mutex throughout, so a call is one    *)
(* application of an operator.  The worker table is a function from the    *)
(* registered ids to their records (the array order is abstracted); the    *)
(* task table is the sequence it is in the code.  Which workers have been  *)
(* silent for too long is an argument of check_timeouts.  The counters     *)
(* that only grow, of registrations and of scheduled, completed and failed *)
(* tasks, are read by nothing but the statistics and left out.             *)
(***************************************************************************)
EXTENDS Integers, Sequences, FiniteSets

CONSTANTS MaxWorkers,   \* scheduler_config_t.max_workers
          MaxTracked,   \* MAX_TRACKED_TASKS
          Word          \* size_t counts modulo this number

ASSUME SchedulerAssumption ==
  /\ MaxWorkers \in Nat
  /\ MaxTracked \in Nat
  /\ Word \in Nat /\ Word > MaxWorkers

States == {"IDLE", "BUSY", "DEAD"}
Pending == -1

(* size_t increment and decrement, which wrap around. *)
Plus(n, k) == IF n + k < Word THEN n + k ELSE n + k - Word
Minus(n, k) == IF n >= k THEN n - k ELSE n - k + Word

(* scheduler_create: calloc'ed tables and statistics. *)
scheduler_create ==
  [workers |-> [w \in {} |-> 0],
   tasks |-> <<>>,
   stats |-> [active_workers |-> 0, idle_workers |-> 0,
              busy_workers |-> 0, dead_workers |-> 0]]

(* The record of a worker that has just registered. *)
NewWorker(batch) ==
  [state |-> "IDLE", max_batch_size |-> batch, tasks_running |-> 0]

Registered(s) == DOMAIN s.workers
InState(s, st) == {w \in DOMAIN s.workers : s.workers[w].state = st}
TableFull(s) == Cardinality(DOMAIN s.workers) >= MaxWorkers

(* The worker table with the record of w replaced by r, or added. *)
Put(s, w, r) == [x \in DOMAIN s.workers \cup {w} |-> IF x = w THEN r
                                                     ELSE s.workers[x]]

(***************************************************************************)
(* scheduler_register_worker.  A full table refuses every call, also one   *)
(* for a registered id; a registered id has its record overwritten and the *)
(* statistics are left alone.                                              *)
(***************************************************************************)
register_worker(s, w, batch) ==
  IF TableFull(s) THEN s
  ELSE IF w \in DOMAIN s.workers
  THEN [s EXCEPT !.workers = Put(s, w, NewWorker(batch))]
  ELSE [s EXCEPT !.workers = Put(s, w, NewWorker(batch)),
                 !.stats = [@ EXCEPT !.active_workers = Plus(@, 1),
                                     !.idle_workers = Plus(@, 1)]]

(***************************************************************************)
(* scheduler_unregister_worker.  A dead worker leaves without dead_workers *)
(* being decremented.                                                      *)
(***************************************************************************)
unregister_worker(s, w) ==
  IF w \notin DOMAIN s.workers THEN s
  ELSE [s EXCEPT
    !.workers = [x \in DOMAIN s.workers \ {w} |-> s.workers[x]],
    !.stats = IF s.workers[w].state = "DEAD" THEN @
              ELSE IF s.workers[w].state = "IDLE"
              THEN [@ EXCEPT !.active_workers = Minus(@, 1),
                             !.idle_workers = Minus(@, 1)]
              ELSE [@ EXCEPT !.active_workers = Minus(@, 1),
                             !.busy_workers = Minus(@, 1)]]

(* Mutant of update_heartbeat: dead_workers is not decremented. *)
update_heartbeat_keeps_dead(s, w) ==
  IF w \notin InState(s, "DEAD") THEN s
  ELSE [s EXCEPT !.workers = Put(s, w, [s.workers[w] EXCEPT !.state = "IDLE"]),
                 !.stats = [@ EXCEPT !.active_workers = Plus(@, 1),
                                     !.idle_workers = Plus(@, 1)]]

(* scheduler_update_heartbeat: a dead worker is revived, whatever it runs. *)
update_heartbeat(s, w) ==
  IF w \notin InState(s, "DEAD") THEN s
  ELSE [s EXCEPT !.workers = Put(s, w, [s.workers[w] EXCEPT !.state = "IDLE"]),
                 !.stats = [@ EXCEPT !.dead_workers = Minus(@, 1),
                                     !.active_workers = Plus(@, 1),
                                     !.idle_workers = Plus(@, 1)]]

(* scheduler_mark_worker_busy *)
mark_worker_busy(s, w, n) ==
  IF w \notin DOMAIN s.workers THEN s
  ELSE LET r == [s.workers[w] EXCEPT !.tasks_running = @ + n] IN
       IF r.state # "IDLE" THEN [s EXCEPT !.workers = Put(s, w, r)]
       ELSE [s EXCEPT !.workers = Put(s, w, [r EXCEPT !.state = "BUSY"]),
                      !.stats = [@ EXCEPT !.idle_workers = Minus(@, 1),
                                          !.busy_workers = Plus(@, 1)]]

(* Mutant of mark_worker_idle: the load is cleared, the state forgotten. *)
mark_worker_idle_load_only(s, w) ==
  IF w \notin DOMAIN s.workers THEN s
  ELSE [s EXCEPT !.workers =
                   Put(s, w, [s.workers[w] EXCEPT !.tasks_running = 0])]

(* scheduler_mark_worker_idle *)
mark_worker_idle(s, w) ==
  IF w \notin DOMAIN s.workers THEN s
  ELSE LET r == [s.workers[w] EXCEPT !.tasks_running = 0] IN
       IF r.state # "BUSY" THEN [s EXCEPT !.workers = Put(s, w, r)]
       ELSE [s EXCEPT !.workers = Put(s, w, [r EXCEPT !.state = "IDLE"]),
                      !.stats = [@ EXCEPT !.busy_workers = Minus(@, 1),
                                          !.idle_workers = Plus(@, 1)]]

(* scheduler_get_idle_workers *)
get_idle_workers(s) == InState(s, "IDLE")

(* Mutant of track_task: a full table starts again at its first entry. *)
track_task_wraps(s, id, w) ==
  LET entry == [task_id |-> id, worker_id |-> w, status |-> Pending] IN
  [s EXCEPT !.tasks = IF Len(@) >= MaxTracked THEN [@ EXCEPT ![1] = entry]
                                             ELSE Append(@, entry)]

(* scheduler_track_task; the table never shrinks. *)
track_task(s, id, w) ==
  IF Len(s.tasks) >= MaxTracked THEN s
  ELSE [s EXCEPT
    !.tasks = Append(@, [task_id |-> id, worker_id |-> w, status |-> Pending])]

(* The entry mark_task_complete updates: the first with this id. *)
Tracked(s, id) == {i \in DOMAIN s.tasks : s.tasks[i].task_id = id}
FirstTracked(s, id) ==
  CHOOSE i \in Tracked(s, id) : \A j \in Tracked(s, id) : i <= j

(* Mutant of Credit: tasks_running is decremented without a test. *)
CreditUnguarded(r) ==
  [r EXCEPT !.tasks_running = @ - 1,
            !.state = IF r.tasks_running = 1 /\ @ = "BUSY" THEN "IDLE" ELSE @]

(* Mutant of Credit: the load is kept. *)
CreditKeepsLoad(r) == r

(* The worker's record after a result of one of its tasks. *)
Credit(r) ==
  LET left == IF r.tasks_running > 0 THEN r.tasks_running - 1 ELSE 0 IN
  [r EXCEPT !.tasks_running = left,
            !.state = IF left = 0 /\ @ = "BUSY" THEN "IDLE" ELSE @]

(***************************************************************************)
(* scheduler_mark_task_complete.  The status may be any number, Pending    *)
(* among them.  A result whose worker is no longer registered changes the  *)
(* task entry only.                                                        *)
(***************************************************************************)
mark_task_complete(s, id, status) ==
  IF Tracked(s, id) = {} THEN s
  ELSE LET i == FirstTracked(s, id)
           w == s.tasks[i].worker_id
           marked == [s EXCEPT !.tasks = [@ EXCEPT ![i].status = status]]
       IN IF w \notin DOMAIN s.workers THEN marked
          ELSE LET r == Credit(s.workers[w])
                   freed == IF s.workers[w].state # r.state THEN 1 ELSE 0
               IN [marked EXCEPT
                    !.workers = Put(s, w, r),
                    !.stats = [@ EXCEPT !.busy_workers = Minus(@, freed),
                                        !.idle_workers = Plus(@, freed)]]

(***************************************************************************)
(* scheduler_check_timeouts, where silent is the set of workers last heard *)
(* of more than heartbeat_timeout_secs ago.  Tasks and load are untouched. *)
(***************************************************************************)
check_timeouts(s, silent) ==
  LET late == (silent \cap DOMAIN s.workers) \ InState(s, "DEAD")
      lateIdle == late \cap InState(s, "IDLE")
      lateBusy == late \cap InState(s, "BUSY")
  IN [s EXCEPT
       !.workers = [w \in DOMAIN s.workers |->
                      IF w \in late THEN [s.workers[w] EXCEPT !.state = "DEAD"]
                                    ELSE s.workers[w]],
       !.stats = [@ EXCEPT
         !.active_workers = Minus(@, Cardinality(late)),
         !.idle_workers = Minus(@, Cardinality(lateIdle)),
         !.busy_workers = Minus(@, Cardinality(lateBusy)),
         !.dead_workers = Plus(@, Cardinality(late))]]

-----------------------------------------------------------------------------
(* The worker counters are the sizes of the sets they are named for: those
   of the live workers, and all four. *)
LiveCountersMatch(s) ==
  LET N(st) == Cardinality(InState(s, st)) IN
  /\ s.stats.idle_workers = N("IDLE")
  /\ s.stats.busy_workers = N("BUSY")
  /\ s.stats.active_workers = N("IDLE") + N("BUSY")

CountersMatch(s) ==
  /\ LiveCountersMatch(s)
  /\ s.stats.dead_workers = Cardinality(InState(s, "DEAD"))
=============================================================================
