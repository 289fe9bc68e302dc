------------------------------ MODULE TaskList ------------------------------
(***************************************************************************)
(* The linked list inside src/runtime/task_queue.c: nodes obtained from    *)
(* malloc, the head and tail pointers, each node's next pointer, and the   *)
(* counters updated with them.  TaskQueue keeps the same list as a plain   *)
(* sequence; here the pointer surgery of each critical section is spelled  *)
(* out.  The mutex makes critical sections atomic, but task_queue_enqueue  *)
(* reads its node once more, for a log line, after the unlock.             *)
(***************************************************************************)
EXTENDS QueueOps, FiniteSets, SequencesExt

CONSTANTS Node,      \* the addresses malloc can return
          NULL,
          Thread,    \* the threads that enqueue
          MaxSize    \* capacity; allow_duplicates is 0, as in both programs

ASSUME ListAssumption ==
  /\ IsFiniteSet(Node) /\ NULL \notin Node
  /\ MaxSize \in Nat

VARIABLES head, tail, next, task,     \* the pointers and the nodes' contents
          live,                       \* the nodes malloc'ed and not freed
          size, high_priority_count,
          got,                        \* the task copied to the last caller
          logging                     \* the node a thread has yet to log

vars == <<head, tail, next, task, live, size, high_priority_count, got, logging>>

(* The node i steps after head. *)
Hop == LET hop[i \in 0..Cardinality(Node)] ==
             IF i = 0 THEN head
             ELSE IF hop[i - 1] = NULL THEN NULL ELSE next[hop[i - 1]]
       IN hop

(* The nodes in list order. *)
Chain == [i \in 1..Cardinality({j \in DOMAIN Hop : Hop[j] # NULL}) |-> Hop[i - 1]]

(* The tasks in list order: the sequence that QueueOps works on. *)
list == [i \in 1..Len(Chain) |-> task[Chain[i]]]

Init ==
  /\ head = NULL /\ tail = NULL
  /\ next = [n \in Node |-> NULL]
  /\ task \in [Node -> {CHOOSE x \in Task : TRUE}]
  /\ live = {} /\ size = 0 /\ high_priority_count = 0
  /\ got = <<>>
  /\ logging = [t \in Thread |-> NULL]

(* Mutant of LinkHigh: tail is not moved when the node ends up last. *)
LinkHighKeepsTail(n) ==
  IF head = NULL \/ ~task[head].high
  THEN /\ next' = [next EXCEPT ![n] = head]
       /\ head' = n
       /\ tail' = IF tail = NULL THEN n ELSE tail
  ELSE LET prev == Chain[LeadingHigh(list)] IN
       /\ next' = [next EXCEPT ![n] = next[prev], ![prev] = n]
       /\ UNCHANGED <<head, tail>>

(* Mutant of LinkHigh: the node always becomes the head. *)
LinkHighFirst(n) ==
  /\ next' = [next EXCEPT ![n] = head]
  /\ head' = n
  /\ tail' = IF tail = NULL THEN n ELSE tail

(* Link the new node n, whose task has high priority. *)
LinkHigh(n) ==
  IF head = NULL \/ ~task[head].high
  THEN /\ next' = [next EXCEPT ![n] = head]
       /\ head' = n
       /\ tail' = IF tail = NULL THEN n ELSE tail
  ELSE LET prev == Chain[LeadingHigh(list)] IN
       /\ next' = [next EXCEPT ![n] = next[prev], ![prev] = n]
       /\ tail' = IF next[prev] = NULL THEN n ELSE tail
       /\ UNCHANGED head

(* Link the new node n, whose task has normal priority. *)
LinkNormal(n) ==
  IF head = NULL
  THEN head' = n /\ tail' = n /\ next' = [next EXCEPT ![n] = NULL]
  ELSE /\ next' = [next EXCEPT ![n] = NULL, ![tail] = n]
       /\ tail' = n
       /\ UNCHANGED head

(* The critical section of task_queue_enqueue. *)
Enqueue(t, x) ==
  /\ logging[t] = NULL
  /\ ~(MaxSize > 0 /\ size >= MaxSize)
  /\ ~task_exists(list, x.task_id)
  /\ \E n \in Node \ live :
       /\ task' = [task EXCEPT ![n] = x]
       /\ live' = live \cup {n}
       /\ IF x.high THEN LinkHigh(n) ELSE LinkNormal(n)
       /\ logging' = [logging EXCEPT ![t] = n]
  /\ size' = size + 1
  /\ high_priority_count' = high_priority_count + (IF x.high THEN 1 ELSE 0)
  /\ got' = <<>>

(* The log line after the unlock reads the node's priority. *)
EnqueueLog(t) ==
  /\ logging[t] # NULL
  /\ logging' = [logging EXCEPT ![t] = NULL]
  /\ UNCHANGED <<head, tail, next, task, live, size, high_priority_count, got>>

(* The unlinking shared by task_queue_dequeue and task_queue_dequeue_wait. *)
Dequeue ==
  /\ head # NULL
  /\ head' = next[head]
  /\ tail' = IF next[head] = NULL THEN NULL ELSE tail
  /\ got' = <<task[head]>>
  /\ live' = live \ {head}
  /\ size' = size - 1
  /\ high_priority_count' = high_priority_count - (IF task[head].high THEN 1 ELSE 0)
  /\ UNCHANGED <<next, task, logging>>

(* task_queue_remove_by_id finds the id. *)
RemoveById(id) ==
  /\ task_exists(list, id)
  /\ LET i == FirstWithId(list, id)
         curr == Chain[i]
         prev == IF i = 1 THEN NULL ELSE Chain[i - 1]
     IN /\ IF prev = NULL
           THEN head' = next[curr] /\ UNCHANGED next
           ELSE next' = [next EXCEPT ![prev] = next[curr]] /\ UNCHANGED head
        /\ tail' = IF curr = tail THEN prev ELSE tail
        /\ live' = live \ {curr}
        /\ high_priority_count' =
             high_priority_count - (IF task[curr].high THEN 1 ELSE 0)
  /\ size' = size - 1
  /\ got' = <<>>
  /\ UNCHANGED <<task, logging>>

(* task_queue_clear frees every node it walks over. *)
Clear ==
  /\ live' = live \ ToSet(Chain)
  /\ head' = NULL /\ tail' = NULL
  /\ size' = 0 /\ high_priority_count' = 0
  /\ got' = <<>>
  /\ UNCHANGED <<next, task, logging>>

Next ==
  \/ \E t \in Thread, x \in Task : Enqueue(t, x)
  \/ \E t \in Thread : EnqueueLog(t)
  \/ Dequeue
  \/ \E id \in TaskId : RemoveById(id)
  \/ Clear

Spec == Init /\ [][Next]_vars

-----------------------------------------------------------------------------
(***************************************************************************)
(* The list is intact after any sequence of inserts, takes, cancellations  *)
(* and clears: the nodes reached from head are exactly the allocated ones  *)
(* (nothing leaks, nothing freed stays linked), tail is the last of them,  *)
(* and size is their number.                                               *)
(***************************************************************************)
ListIntact ==
  /\ ToSet(Chain) = live
  /\ size = Cardinality(live)
  /\ size = Len(Chain)
  /\ tail = IF head = NULL THEN NULL ELSE Chain[Len(Chain)]

(***************************************************************************)
(* The pointer operations implement the two-lane queue: the tasks met on   *)
(* the walk from head are handed over oldest high-priority first.          *)
(***************************************************************************)
Fifo == INSTANCE PriorityFifo WITH
          high <- SelectSeq(list, LAMBDA x : x.high),
          normal <- SelectSeq(list, LAMBDA x : ~x.high),
          handed <- got
ImplementsFifo == Fifo!Spec

(***************************************************************************)
(* docs/RUNTIME.md: "All queue operations are thread-safe."  The node that *)
(* enqueue reads for its log line is still allocated when it is read.      *)
(***************************************************************************)
LogReadsLiveNode == \A t \in Thread : logging[t] # NULL => logging[t] \in live
=============================================================================
