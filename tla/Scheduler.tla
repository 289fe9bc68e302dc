----------------------------- MODULE Scheduler ------------------------------
(***************************************************************************)
(* The coordinator's scheduler as a state machine: its functions called in *)
(* any order, with time passing between the calls.  sched is the value of  *)
(* the scheduler structure, age[w] the seconds since the last_heartbeat of *)
(* worker w (no test distinguishes ages above Timeout + 1).                *)
(***************************************************************************)
EXTENDS SchedulerOps

CONSTANTS WorkerId,
          TrackId,      \* the ids of the tasks tracked
          Timeout,      \* heartbeat_timeout_secs
          MaxBatch,     \* largest batch handed to a worker
          MaxLoad       \* bound on tasks_running

ASSUME CallerAssumption ==
  /\ IsFiniteSet(WorkerId)
  /\ Timeout \in Nat /\ MaxBatch \in Nat \ {0}
  /\ MaxLoad \in Nat

VARIABLES sched, age,
          past   \* history: whether workers stayed, some left, or some id
                 \* registered over its own record
schedulerVars == <<sched, age, past>>

SchedulerInit ==
  /\ sched = scheduler_create
  /\ age = [w \in WorkerId |-> 0]
  /\ past = "stayed"

Touch(w) == age' = [age EXCEPT ![w] = 0]

Register(w) ==
  /\ sched' = register_worker(sched, w, MaxBatch)
  /\ IF TableFull(sched) THEN UNCHANGED <<age, past>>
     ELSE Touch(w) /\ past' = IF w \in Registered(sched) THEN "over" ELSE past

Unregister(w) ==
  /\ sched' = unregister_worker(sched, w)
  /\ Touch(w)
  /\ past' = IF w \in Registered(sched) /\ past = "stayed" THEN "left" ELSE past

Heartbeat(w) ==
  /\ sched' = update_heartbeat(sched, w)
  /\ Touch(w)
  /\ UNCHANGED past

MarkBusy(w, n) ==
  /\ w \in Registered(sched) => sched.workers[w].tasks_running + n <= MaxLoad
  /\ sched' = mark_worker_busy(sched, w, n)
  /\ UNCHANGED <<age, past>>

MarkIdle(w) == sched' = mark_worker_idle(sched, w) /\ UNCHANGED <<age, past>>

TrackTask(id, w) == sched' = track_task(sched, id, w) /\ UNCHANGED <<age, past>>

(* The status is whatever int the worker reports; 0 stands for all but -1. *)
Statuses == {Pending, 0}

Complete(id, status) ==
  /\ sched' = mark_task_complete(sched, id, status)
  /\ UNCHANGED <<age, past>>

(* The workers last heard of more than heartbeat_timeout_secs ago. *)
Silent == {w \in WorkerId : age[w] > Timeout}

CheckTimeouts ==
  sched' = check_timeouts(sched, Silent) /\ UNCHANGED <<age, past>>

(* A second passes for every registered worker. *)
Tick ==
  /\ age' = [w \in WorkerId |->
               IF w \in Registered(sched) /\ age[w] <= Timeout THEN age[w] + 1
               ELSE age[w]]
  /\ UNCHANGED <<sched, past>>

SchedulerNext ==
  \/ \E w \in WorkerId : Register(w)
  \/ \E w \in WorkerId : Unregister(w)
  \/ \E w \in WorkerId : Heartbeat(w)
  \/ \E w \in WorkerId, n \in 0..MaxBatch : MarkBusy(w, n)
  \/ \E w \in WorkerId : MarkIdle(w)
  \/ \E id \in TrackId, w \in WorkerId : TrackTask(id, w)
  \/ \E id \in TrackId, status \in Statuses : Complete(id, status)
  \/ CheckTimeouts
  \/ Tick

SchedulerSpec == SchedulerInit /\ [][SchedulerNext]_schedulerVars

-----------------------------------------------------------------------------
WorkerRecord == [state : States, max_batch_size : Nat, tasks_running : Nat]
TaskRecord == [task_id : TrackId, worker_id : WorkerId, status : Statuses]
Counter == 0..(Word - 1)
Stats == [active_workers : Counter, idle_workers : Counter,
          busy_workers : Counter, dead_workers : Counter]

(***************************************************************************)
(* The scheduler structure and the ages are well formed; tasks_running     *)
(* does not go below zero, also when a result comes twice.                 *)
(***************************************************************************)
SchedulerTypeOK ==
  /\ sched = [workers |-> sched.workers, tasks |-> sched.tasks, stats |-> sched.stats]
  /\ sched.workers = [w \in Registered(sched) |-> sched.workers[w]]
  /\ Registered(sched) \subseteq WorkerId
  /\ \A w \in Registered(sched) : sched.workers[w] \in WorkerRecord
  /\ sched.tasks \in Seq(TaskRecord)
  /\ sched.stats \in Stats
  /\ age \in [WorkerId -> 0..(Timeout + 1)]
  /\ past \in {"stayed", "left", "over"}

(***************************************************************************)
(* A step that takes the last task from a worker leaves it out of BUSY,    *)
(* whichever of the five functions takes it and whatever state the worker  *)
(* was in: it would be kept out of get_idle_workers with no result left    *)
(* that could release it.  (A worker marked busy with no task, or with     *)
(* tasks a full table did not track, has no such result to begin with.)    *)
(***************************************************************************)
EmptiedIsReleased ==
  [][\A w \in Registered(sched) \cap Registered(sched') :
       sched.workers[w].tasks_running > 0 /\ sched'.workers[w].tasks_running = 0
         => sched'.workers[w].state # "BUSY"]_schedulerVars

(***************************************************************************)
(* The counters that eight functions adjust by one here and one there are  *)
(* the sizes of the sets they name: they neither drift nor wrap below      *)
(* zero.  That of dead workers is exact while nobody leaves; those of the  *)
(* live ones also when workers leave, dead or alive, and come back, as     *)
(* long as no id registers over its own record.  From then on idle and     *)
(* busy workers may be counted as each other, and even that does not       *)
(* unbalance them: together they are the active ones (modulo Word).        *)
(***************************************************************************)
StatsMatch ==
  /\ past = "stayed" => CountersMatch(sched)
  /\ past # "over" => LiveCountersMatch(sched)
  /\ sched.stats.active_workers = Plus(sched.stats.idle_workers, sched.stats.busy_workers)

(***************************************************************************)
(* Declaring workers dead, reviving, unregistering or re-registering them  *)
(* and a full table never rewrite history: an entry of the task table      *)
(* keeps its task and its worker, and its status changes only while it is  *)
(* the first with its id, also when the task was tracked again and results *)
(* come twice.                                                             *)
(***************************************************************************)
HistoryKept ==
  [][/\ Len(sched.tasks) <= Len(sched'.tasks)
     /\ \A i \in DOMAIN sched.tasks :
          /\ sched'.tasks[i].task_id = sched.tasks[i].task_id
          /\ sched'.tasks[i].worker_id = sched.tasks[i].worker_id
          /\ \/ sched'.tasks[i].status = sched.tasks[i].status
             \/ i = FirstTracked(sched, sched.tasks[i].task_id)]_schedulerVars
=============================================================================
