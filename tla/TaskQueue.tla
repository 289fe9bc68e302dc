----------------------------- MODULE TaskQueue ------------------------------
(***************************************************************************)
(* src/runtime/task_queue.c: the queue shared by the threads of a process. *)
(*                                                                         *)
(* Every function holds queue->mutex from its first access to its last, so *)
(* each critical section is one action.  dequeue_wait gives the mutex up   *)
(* inside pthread_cond_(timed)wait and is split there.  The state of a     *)
(* thread t in dequeue_wait is pc[t]:                                      *)
(*   "sleeping"    blocked on cond_not_empty;                              *)
(*   "signalled"   woken by a signal or spuriously, about to relock;       *)
(*   "broadcast"   woken by a broadcast, about to relock;                  *)
(*   "expired"     its deadline passed, about to relock and return.        *)
(* A thread outside any call is "idle".                                    *)
(***************************************************************************)
EXTENDS QueueOps, FiniteSets

CONSTANTS Thread,           \* the threads that use the queue
          MaxSize,          \* task_queue_config_t.max_size (0 = unlimited)
          AllowDuplicates,  \* task_queue_config_t.allow_duplicates
          MaxEnqueued       \* bound on total_enqueued

ASSUME QueueAssumption ==
  /\ IsFiniteSet(Thread)
  /\ MaxSize \in Nat
  /\ MaxEnqueued \in Nat
  /\ AllowDuplicates \in BOOLEAN

VARIABLES list,                 \* the nodes from head to tail
          high_priority_count,
          total_enqueued,
          total_dequeued,
          blocked_threads,
          shutting_down,
          freed,                \* task_queue_destroy has freed the queue
          pc,                   \* where each thread is
          timed,                \* is the thread's wait bounded by a deadline?
          out                   \* return code and task of the last call to end

stats == <<high_priority_count, total_enqueued, total_dequeued>>
vars == <<list, stats, blocked_threads, shutting_down, freed, pc, timed, out>>

Waiting == {"sleeping", "signalled", "broadcast", "expired"}
Awake == {t \in Thread : pc[t] \in {"signalled", "broadcast"}}
Sleepers == {t \in Thread : pc[t] = "sleeping"}

Return(rc, got) == out' = [rc |-> rc, got |-> got]

(***************************************************************************)
(* A thread starts a call only on a queue nobody has begun to destroy, but *)
(* for the calls that test shutting_down: enqueue and dequeue_wait.        *)
(***************************************************************************)
Calls(t) == pc[t] = "idle" /\ ~shutting_down

Init ==
  /\ list = <<>>
  /\ high_priority_count = 0
  /\ total_enqueued = 0
  /\ total_dequeued = 0
  /\ blocked_threads = 0
  /\ shutting_down = FALSE
  /\ freed = FALSE
  /\ pc = [t \in Thread |-> "idle"]
  /\ timed = [t \in Thread |-> FALSE]
  /\ out = [rc |-> 0, got |-> <<>>]

-----------------------------------------------------------------------------
(* pthread_cond_signal: one sleeper, if there is any, leaves the wait. *)
Signal ==
  IF Sleepers = {} THEN UNCHANGED pc
  ELSE \E t \in Sleepers : pc' = [pc EXCEPT ![t] = "signalled"]

(* pthread_cond_broadcast: every sleeper leaves the wait. *)
Broadcast == pc' = [t \in Thread |-> IF pc[t] = "sleeping" THEN "broadcast"
                                                            ELSE pc[t]]

(* POSIX lets a wait return without a signal. *)
SpuriousWakeup(t) ==
  /\ ~freed /\ pc[t] = "sleeping"
  /\ pc' = [pc EXCEPT ![t] = "signalled"]
  /\ UNCHANGED <<list, stats, blocked_threads, shutting_down, freed, timed, out>>

(* The deadline of a timed wait passes. *)
Expire(t) ==
  /\ ~freed /\ pc[t] = "sleeping" /\ timed[t]
  /\ pc' = [pc EXCEPT ![t] = "expired"]
  /\ UNCHANGED <<list, stats, blocked_threads, shutting_down, freed, timed, out>>

-----------------------------------------------------------------------------
(* Mutant of Enqueue: signals only when the queue was empty. *)
EnqueueSignalsOnce(t, task) ==
  /\ Calls(t) /\ total_enqueued < MaxEnqueued
  /\ EnqueueCode(list, MaxSize, AllowDuplicates, task) = 0
  /\ list' = Insert(list, task)
  /\ high_priority_count' = high_priority_count + (IF task.high THEN 1 ELSE 0)
  /\ total_enqueued' = total_enqueued + 1
  /\ IF list = <<>> THEN Signal ELSE UNCHANGED pc
  /\ Return(0, <<>>)
  /\ UNCHANGED <<total_dequeued, blocked_threads, shutting_down, freed, timed>>

(* task_queue_enqueue succeeds. *)
Enqueue(t, task) ==
  /\ Calls(t) /\ total_enqueued < MaxEnqueued
  /\ EnqueueCode(list, MaxSize, AllowDuplicates, task) = 0
  /\ list' = Insert(list, task)
  /\ high_priority_count' = high_priority_count + (IF task.high THEN 1 ELSE 0)
  /\ total_enqueued' = total_enqueued + 1
  /\ Signal
  /\ Return(0, <<>>)
  /\ UNCHANGED <<total_dequeued, blocked_threads, shutting_down, freed, timed>>

(***************************************************************************)
(* task_queue_enqueue fails: destroy has begun or malloc failed (-1), the  *)
(* queue is full (-2), the id is already queued (-3).                      *)
(***************************************************************************)
EnqueueFails(t, task) ==
  /\ ~freed /\ pc[t] = "idle"
  /\ \/ /\ shutting_down \/ EnqueueCode(list, MaxSize, AllowDuplicates, task) = 0
        /\ Return(-1, <<>>)
     \/ /\ ~shutting_down
        /\ EnqueueCode(list, MaxSize, AllowDuplicates, task) # 0
        /\ Return(EnqueueCode(list, MaxSize, AllowDuplicates, task), <<>>)
  /\ UNCHANGED <<list, stats, blocked_threads, shutting_down, freed, pc, timed>>

(* The head node is copied to the caller, unlinked and freed. *)
TakeHead ==
  /\ list # <<>>
  /\ list' = Tail(list)
  /\ high_priority_count' =
       high_priority_count - (IF Head(list).high THEN 1 ELSE 0)
  /\ total_dequeued' = total_dequeued + 1
  /\ UNCHANGED total_enqueued
  /\ Return(0, <<Head(list)>>)

(* task_queue_dequeue; -1 on an empty queue. *)
Dequeue(t) ==
  /\ Calls(t)
  /\ \/ TakeHead
     \/ list = <<>> /\ Return(-1, <<>>) /\ UNCHANGED <<list, stats>>
  /\ UNCHANGED <<blocked_threads, shutting_down, freed, pc, timed>>

(***************************************************************************)
(* task_queue_dequeue_wait up to its first wait: it takes a task at once   *)
(* or goes to sleep, with (bounded) or without a deadline.                 *)
(***************************************************************************)
DequeueWait(t, bounded) ==
  /\ Calls(t)
  /\ \/ /\ TakeHead
        /\ UNCHANGED <<blocked_threads, pc, timed>>
     \/ /\ list = <<>>
        /\ blocked_threads' = blocked_threads + 1
        /\ pc' = [pc EXCEPT ![t] = "sleeping"]
        /\ timed' = [timed EXCEPT ![t] = bounded]
        /\ UNCHANGED <<list, stats, out>>
  /\ UNCHANGED <<shutting_down, freed>>

(* The same call on a queue that is being destroyed returns -2 at once. *)
DequeueWaitFails(t) ==
  /\ ~freed /\ pc[t] = "idle" /\ shutting_down
  /\ Return(-2, <<>>)
  /\ UNCHANGED <<list, stats, blocked_threads, shutting_down, freed, pc, timed>>

(* A waiter leaves dequeue_wait. *)
LeaveWait(t) ==
  /\ blocked_threads' = blocked_threads - 1
  /\ pc' = [pc EXCEPT ![t] = "idle"]
  /\ timed' = [timed EXCEPT ![t] = FALSE]

(***************************************************************************)
(* A woken waiter relocks the mutex and tests the loop condition again:    *)
(* it returns -2 when the queue is shutting down, takes the head when      *)
(* there is one, and sleeps again otherwise.                               *)
(***************************************************************************)
Resume(t) ==
  /\ ~freed /\ t \in Awake
  /\ \/ /\ shutting_down
        /\ LeaveWait(t)
        /\ Return(-2, <<>>)
        /\ UNCHANGED <<list, stats>>
     \/ ~shutting_down /\ TakeHead /\ LeaveWait(t)
     \/ /\ ~shutting_down /\ list = <<>>
        /\ pc' = [pc EXCEPT ![t] = "sleeping"]
        /\ UNCHANGED <<list, stats, blocked_threads, timed, out>>
  /\ UNCHANGED <<shutting_down, freed>>

(* Mutants of ReturnExpired: blocked_threads not, or twice, decremented. *)
ReturnExpiredLeaks(t) ==
  /\ ~freed /\ pc[t] = "expired"
  /\ pc' = [pc EXCEPT ![t] = "idle"]
  /\ Return(-1, <<>>)
  /\ UNCHANGED <<list, stats, blocked_threads, timed, shutting_down, freed>>

ReturnExpiredTwice(t) ==
  /\ ~freed /\ pc[t] = "expired"
  /\ pc' = [pc EXCEPT ![t] = "idle"]
  /\ blocked_threads' = blocked_threads - 2
  /\ Return(-1, <<>>)
  /\ UNCHANGED <<list, stats, timed, shutting_down, freed>>

(* ETIMEDOUT: dequeue_wait returns -1 without looking at the queue again. *)
ReturnExpired(t) ==
  /\ ~freed /\ pc[t] = "expired"
  /\ LeaveWait(t)
  /\ Return(-1, <<>>)
  /\ UNCHANGED <<list, stats, shutting_down, freed>>

(* task_queue_peek *)
Peek(t) ==
  /\ Calls(t)
  /\ IF list = <<>> THEN Return(-1, <<>>) ELSE Return(0, <<Head(list)>>)
  /\ UNCHANGED <<list, stats, blocked_threads, shutting_down, freed, pc, timed>>

(* Mutant of RemoveById: the high-priority count is left alone. *)
RemoveByIdUncounted(t, id) ==
  /\ Calls(t)
  /\ task_exists(list, id)
  /\ list' = Unlink(list, FirstWithId(list, id))
  /\ Return(0, <<>>)
  /\ UNCHANGED <<stats, blocked_threads, shutting_down, freed, pc, timed>>

(* task_queue_remove_by_id; -1 when no queued task has the id. *)
RemoveById(t, id) ==
  /\ Calls(t)
  /\ \/ /\ task_exists(list, id)
        /\ LET i == FirstWithId(list, id) IN
             /\ list' = Unlink(list, i)
             /\ high_priority_count' =
                  high_priority_count - (IF list[i].high THEN 1 ELSE 0)
        /\ Return(0, <<>>)
     \/ /\ ~task_exists(list, id)
        /\ Return(-1, <<>>)
        /\ UNCHANGED <<list, high_priority_count>>
  /\ UNCHANGED <<total_enqueued, total_dequeued, blocked_threads,
                 shutting_down, freed, pc, timed>>

(* task_queue_clear; the number of tasks it returns is left out. *)
Clear(t) ==
  /\ Calls(t)
  /\ list' = <<>>
  /\ high_priority_count' = 0
  /\ Return(0, <<>>)
  /\ UNCHANGED <<total_enqueued, total_dequeued, blocked_threads,
                 shutting_down, freed, pc, timed>>

(* task_queue_wake_all: a broadcast and nothing else. *)
WakeAll(t) ==
  /\ Calls(t)
  /\ Broadcast
  /\ UNCHANGED <<list, stats, blocked_threads, shutting_down, freed, timed, out>>

(* Mutant of DestroyBegin: one waiter is woken instead of all. *)
DestroyBeginSignals(t) ==
  /\ Calls(t)
  /\ shutting_down' = TRUE
  /\ Signal
  /\ UNCHANGED <<list, stats, blocked_threads, freed, timed, out>>

(***************************************************************************)
(* task_queue_destroy up to the unlock: waiters are woken and the nodes    *)
(* freed.  head is not reset; shutting_down keeps the waiters away from it.*)
(***************************************************************************)
DestroyBegin(t) ==
  /\ Calls(t)
  /\ shutting_down' = TRUE
  /\ Broadcast
  /\ UNCHANGED <<list, stats, blocked_threads, freed, timed, out>>

(* ... and from there: the mutex, the conditions and the queue are freed. *)
DestroyEnd ==
  /\ shutting_down /\ ~freed
  /\ freed' = TRUE
  /\ UNCHANGED <<list, stats, blocked_threads, shutting_down, pc, timed, out>>

-----------------------------------------------------------------------------
(* The steps of one thread that is already inside dequeue_wait. *)
Proceed(t) == Resume(t) \/ ReturnExpired(t)

Next ==
  \/ \E t \in Thread, task \in Task : Enqueue(t, task) \/ EnqueueFails(t, task)
  \/ \E t \in Thread : Dequeue(t)
  \/ \E t \in Thread, bounded \in BOOLEAN : DequeueWait(t, bounded)
  \/ \E t \in Thread : DequeueWaitFails(t)
  \/ \E t \in Thread : Resume(t)
  \/ \E t \in Thread : ReturnExpired(t)
  \/ \E t \in Thread : SpuriousWakeup(t)
  \/ \E t \in Thread : Expire(t)
  \/ \E t \in Thread : Peek(t)
  \/ \E t \in Thread, id \in TaskId : RemoveById(t, id)
  \/ \E t \in Thread : Clear(t)
  \/ \E t \in Thread : WakeAll(t)
  \/ \E t \in Thread : DestroyBegin(t)
  \/ DestroyEnd

Spec == Init /\ [][Next]_vars

(***************************************************************************)
(* A thread that pthread_cond_wait has released obtains the mutex in the   *)
(* end, because every critical section is finite.  Nothing obliges a       *)
(* thread to start a call, and deadlines are not required to pass.         *)
(***************************************************************************)
Fairness == \A t \in Thread : WF_vars(Proceed(t))

FairSpec == Spec /\ Fairness

-----------------------------------------------------------------------------
(***************************************************************************)
(* Every variable has the type of the field or thread state it stands for. *)
(***************************************************************************)
TypeOK ==
  /\ list \in Seq(Task)
  /\ high_priority_count \in Nat
  /\ total_enqueued \in Nat
  /\ total_dequeued \in Nat
  /\ blocked_threads \in Nat
  /\ shutting_down \in BOOLEAN
  /\ freed \in BOOLEAN
  /\ pc \in [Thread -> Waiting \cup {"idle"}]
  /\ timed \in [Thread -> BOOLEAN]
  /\ out \in [rc : {0, -1, -2, -3}, got : Seq(Task)]

(***************************************************************************)
(* The high-priority tasks are exactly the first high_priority_count       *)
(* nodes: no high-priority task ever waits behind a normal one, and the    *)
(* counter that the statistics report never drifts, whatever mixture of    *)
(* inserts, takes, cancellations and clears led here.                      *)
(***************************************************************************)
HighPrefix ==
  /\ high_priority_count <= Len(list)
  /\ \A i \in 1..Len(list) : list[i].high <=> i <= high_priority_count

(***************************************************************************)
(* The capacity is never exceeded and, where duplicates are refused, no    *)
(* two queued tasks have the same id.                                      *)
(***************************************************************************)
WithinLimits ==
  /\ MaxSize > 0 => Len(list) <= MaxSize
  /\ ~AllowDuplicates =>
       \A i, j \in 1..Len(list) :
         list[i].task_id = list[j].task_id => i = j

(***************************************************************************)
(* No wake-up is lost: while a consumer sleeps on cond_not_empty, every    *)
(* queued task is matched by a consumer that has been woken and will test  *)
(* the queue again.  enqueue signals once per task, takers may be threads  *)
(* that never waited, and a deadline can pass between signal and relock.   *)
(***************************************************************************)
NoLostWakeup == Sleepers # {} => Len(list) <= Cardinality(Awake)

(***************************************************************************)
(* Once destroy has set shutting_down, no thread sleeps on cond_not_empty  *)
(* again: nothing would ever signal it.                                    *)
(***************************************************************************)
ShutdownWakes == shutting_down => Sleepers = {}

(***************************************************************************)
(* blocked_threads, incremented on entry to dequeue_wait and decremented   *)
(* on each of its ways out, is the number of threads in its wait loop.     *)
(***************************************************************************)
BlockedMatches ==
  blocked_threads = Cardinality({t \in Thread : pc[t] \in Waiting})

(***************************************************************************)
(* The queue implements the two-lane queue of PriorityFifo, with the first *)
(* high_priority_count nodes as the high lane.                             *)
(***************************************************************************)
Fifo == INSTANCE PriorityFifo WITH
          high <- SubSeq(list, 1, high_priority_count),
          normal <- SubSeq(list, high_priority_count + 1, Len(list)),
          handed <- out.got
ImplementsFifo == Fifo!Spec

(***************************************************************************)
(* A consumer does not sleep for ever beside a queue that holds tasks.     *)
(***************************************************************************)
NoStrandedSleeper ==
  \A t \in Thread : ~<>[](pc[t] = "sleeping" /\ list # <<>>)

-----------------------------------------------------------------------------
(***************************************************************************)
(* task_queue.h on wake_all: "Threads will return with error code."  A     *)
(* thread woken by a broadcast does not go back to sleep in the same call. *)
(***************************************************************************)
WakeAllReturns ==
  [][\A t \in Thread : pc[t] = "broadcast" => pc'[t] # "sleeping"]_vars

(***************************************************************************)
(* task_queue.h on destroy: "Blocked threads will receive NULL from        *)
(* dequeue", so when the queue is freed no thread is still inside it.      *)
(***************************************************************************)
FreedUnused == freed => \A t \in Thread : pc[t] = "idle"
=============================================================================
