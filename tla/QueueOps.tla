------------------------------ MODULE QueueOps ------------------------------
(***************************************************************************)
(* The task list of src/runtime/task_queue.c as a value: the sequence of   *)
(* the tasks met when the nodes are followed from head through next.  The  *)
(* operators below say what each queue operation does to that sequence.    *)
(* They carry no state, so the task queue itself, the coordinator's queue  *)
(* and the workers' local queues all use the same ones.                    *)
(***************************************************************************)
EXTENDS Integers, Sequences

CONSTANT TaskId   \* the values of task_t.task_id

(***************************************************************************)
(* Of a task_t the queue looks at the id and at TASK_FLAG_HIGH_PRIORITY.   *)
(***************************************************************************)
Task == [task_id : TaskId, high : BOOLEAN]

(* task_exists: is a task with this id in the queue? *)
task_exists(list, id) == \E i \in DOMAIN list : list[i].task_id = id

(* Mutant of IsFull: an off-by-one. *)
IsFullLate(list, max) == max > 0 /\ Len(list) > max

(* The capacity test; max = 0 means unlimited. *)
IsFull(list, max) == max > 0 /\ Len(list) >= max

(***************************************************************************)
(* The code task_queue_enqueue returns on a queue that is not being        *)
(* destroyed: full is tested before duplicate.                             *)
(***************************************************************************)
EnqueueCode(list, max, dups, task) ==
  IF IsFull(list, max) THEN -2
  ELSE IF ~dups /\ task_exists(list, task.task_id) THEN -3
  ELSE 0

(* How many nodes the walk over leading high-priority nodes passes. *)
LeadingHigh(list) ==
  CHOOSE k \in 0..Len(list) :
    /\ \A i \in 1..k : list[i].high
    /\ k < Len(list) => ~list[k + 1].high

(* The list with a task put in behind its first k nodes. *)
InsertAfter(list, k, task) ==
  SubSeq(list, 1, k) \o <<task>> \o SubSeq(list, k + 1, Len(list))

(* The list without its node i. *)
Unlink(list, i) == SubSeq(list, 1, i - 1) \o SubSeq(list, i + 1, Len(list))

(* Mutant of Insert: a high-priority task always becomes the head. *)
InsertAtHead(list, task) ==
  IF task.high THEN <<task>> \o list ELSE Append(list, task)

(* A high-priority task goes after the leading ones, any other to the tail. *)
Insert(list, task) ==
  IF task.high THEN InsertAfter(list, LeadingHigh(list), task)
               ELSE Append(list, task)

(* The position of the first node with this id. *)
FirstWithId(list, id) ==
  CHOOSE i \in DOMAIN list :
    /\ list[i].task_id = id
    /\ \A j \in 1..(i - 1) : list[j].task_id # id

(***************************************************************************)
(* Enqueue whose result the caller ignores, as both main loops do: the     *)
(* lists it may leave.  Where memory is scarce the malloc of the node may  *)
(* fail.                                                                   *)
(***************************************************************************)
TryInsert(list, max, dups, task, scarce) ==
  IF EnqueueCode(list, max, dups, task) # 0 THEN {list}
  ELSE {Insert(list, task)} \cup (IF scarce THEN {list} ELSE {})
=============================================================================
