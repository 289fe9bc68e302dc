----------------------------- MODULE Bookkeeping -----------------------------
(***************************************************************************)
(* Where tasks, workers and results are kept: the linked list of the queue *)
(* and the scheduler's tables in memory, and the stores on disk.  They     *)
(* share no state, so a behaviour of all says nothing that the behaviours  *)
(* of each do not: a behaviour is one of the record chosen at the start.   *)
(***************************************************************************)
EXTENDS TaskList, Scheduler, Storage

VARIABLE record

bookkeepingVars == <<record, vars, schedulerVars, storageVars>>

(* The part that is not used starts in one of its initial states. *)
BookkeepingInit ==
  /\ record \in {"list", "scheduler", "stores"} /\ Init /\ SchedulerInit /\ StorageInit
  /\ record # "stores" => example = "metadata"

BookkeepingNext ==
  \/ record = "list" /\ Next /\ UNCHANGED <<record, schedulerVars, storageVars>>
  \/ record = "scheduler" /\ SchedulerNext /\ UNCHANGED <<record, vars, storageVars>>
  \/ record = "stores" /\ StorageNext /\ UNCHANGED <<record, vars, schedulerVars>>

BookkeepingSpec == BookkeepingInit /\ [][BookkeepingNext]_bookkeepingVars
=============================================================================
