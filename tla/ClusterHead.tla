---------------------------- MODULE ClusterHead -----------------------------
(***************************************************************************)
(* A worker started under mpirun (src/worker/main.c): rank 0 is the        *)
(* cluster head, which receives batches from the coordinator, deals the    *)
(* tasks round robin to the other ranks and forwards their results; the    *)
(* other ranks run run_mpi_worker.  MPI keeps the order of the messages    *)
(* between two ranks and buffers Buffer of them; MPI_Send blocks while the *)
(* buffer is full.  The coordinator is represented by the batches that     *)
(* arrive and the results sent to it.  Any malloc and any send to the      *)
(* coordinator may fail; the results of both are ignored.  Heartbeats and  *)
(* resource statistics change nothing here and are left out.               *)
(***************************************************************************)
EXTENDS QueueOps, SequencesExt, FiniteSets

CONSTANTS Ranks,     \* mpi_size - 1, the number of ranks that run tasks
          MaxTasks,  \* bound on the tasks that ever arrive: ids 1..MaxTasks
          Batch,     \* largest batch the coordinator sends
          LocalMax,  \* capacity of the local queue
          Buffer     \* messages MPI buffers between two ranks

ASSUME HeadAssumption ==
  /\ Ranks \in Nat \ {0} /\ MaxTasks \in Nat /\ TaskId = 1..MaxTasks
  /\ Batch \in Nat /\ LocalMax \in Nat \ {0} /\ Buffer \in Nat \ {0}

Rank == 1..Ranks
None == 0     \* no task in hand
Stop == 0     \* the message with tag 999

VARIABLES limits,    \* "ok", or "null" when resource_limits_create failed
          running,   \* the head's flag: cleared by a signal
          pc,        \* the head's place in run_worker
          local,     \* its local queue
          cur,       \* the task it has dequeued
          next_worker,
          todo,      \* messages to each rank
          hand,      \* the task a rank is executing or reporting
          done,      \* results on their way to the head
          rank,      \* "up", "stopped" by tag 999 or "killed" by a signal
          arrived,   \* tasks that have arrived from the coordinator
          refused,   \* those the local queue did not take, or take back
          sent,      \* those whose result was sent to the coordinator
          unsent     \* those whose result was to be sent and was not

head == <<limits, running, pc, local, cur, next_worker>>
ranks == <<hand, rank>>
report == <<sent, unsent>>
vars == <<head, todo, ranks, done, arrived, refused, report>>

Init ==
  /\ limits \in {"ok", "null"} /\ running = TRUE /\ pc = "recv"
  /\ local = <<>> /\ cur = None /\ next_worker = 1
  /\ todo = [r \in Rank |-> <<>>] /\ done = [r \in Rank |-> <<>>]
  /\ hand = [r \in Rank |-> None] /\ rank = [r \in Rank |-> "up"]
  /\ arrived = 0 /\ refused = {} /\ sent = {} /\ unsent = {}

-----------------------------------------------------------------------------
TaskOf(id) == [task_id |-> id, high |-> FALSE]

(* The lists that offering tasks to the local queue in turn may leave. *)
Offered(tasks) ==
  FoldLeft(LAMBDA lists, t : UNION {TryInsert(l, LocalMax, FALSE, t, TRUE) : l \in lists},
           {local}, tasks)

(***************************************************************************)
(* The top of the loop: the head tests running and receives a batch of n   *)
(* tasks, n = 0 when there is no message or one of another type.           *)
(***************************************************************************)
Receive(n) ==
  /\ pc = "recv" /\ running
  /\ arrived + n <= MaxTasks
  /\ local' \in Offered([i \in 1..n |-> TaskOf(arrived + i)])
  /\ arrived' = arrived + n
  /\ refused' = refused \cup {id \in (arrived + 1)..(arrived + n) :
                                ~task_exists(local', id)}
  /\ pc' = "work"
  /\ UNCHANGED <<limits, running, cur, next_worker, todo, ranks, done, report>>

(* Dequeue, with the reservation granted: nothing else is reserved. *)
Take ==
  /\ pc = "work" /\ local # <<>> /\ limits = "ok"
  /\ cur' = Head(local).task_id /\ local' = Tail(local)
  /\ pc' = "send"
  /\ UNCHANGED <<limits, running, next_worker, todo, ranks, done, arrived,
                 refused, report>>

(* Mutant of Requeue: the task is not queued again. *)
RequeueDrops ==
  /\ pc = "work" /\ local # <<>> /\ limits = "null"
  /\ local' = Tail(local)
  /\ pc' = "recv"
  /\ UNCHANGED <<limits, running, cur, next_worker, todo, ranks, done, arrived,
                 refused, report>>

(* Without a resource limiter every reservation fails: the task is queued
   again, last, if there is memory for its node. *)
Requeue ==
  /\ pc = "work" /\ local # <<>> /\ limits = "null"
  /\ local' \in TryInsert(Tail(local), LocalMax, FALSE, Head(local), TRUE)
  /\ refused' = IF local' = Tail(local) THEN refused \cup {Head(local).task_id} ELSE refused
  /\ pc' = "recv"
  /\ UNCHANGED <<limits, running, cur, next_worker, todo, ranks, done, arrived, report>>

(* Mutant of Distribute: the round robin counts rank 0 as well. *)
DistributePast ==
  /\ pc = "send" /\ Len(todo[next_worker]) < Buffer
  /\ todo' = [todo EXCEPT ![next_worker] = Append(@, cur)]
  /\ next_worker' = (next_worker % (Ranks + 1)) + 1
  /\ cur' = None
  /\ pc' = "recv"
  /\ UNCHANGED <<limits, running, local, ranks, done, arrived, refused, report>>

(* distribute_to_mpi_worker, the round robin and the continue. *)
Distribute ==
  /\ pc = "send" /\ Len(todo[next_worker]) < Buffer
  /\ todo' = [todo EXCEPT ![next_worker] = Append(@, cur)]
  /\ next_worker' = (next_worker % Ranks) + 1
  /\ cur' = None
  /\ pc' = "recv"
  /\ UNCHANGED <<limits, running, local, ranks, done, arrived, refused, report>>

(* The local queue is empty: go on to collecting. *)
NoTask ==
  /\ pc = "work" /\ local = <<>>
  /\ pc' = "collect"
  /\ UNCHANGED <<limits, running, local, cur, next_worker, todo, ranks, done,
                 arrived, refused, report>>

(* The ranks of which MPI_Iprobe can find a result. *)
Probed == {r \in Rank : done[r] # <<>>}

(* collect_from_mpi_worker finds a result of rank r, and it is sent on;
   whether send_result succeeds is not looked at. *)
Collect(r) ==
  /\ pc = "collect" /\ r \in Probed
  /\ done' = [done EXCEPT ![r] = Tail(@)]
  /\ \/ sent' = sent \cup {Head(done[r])} /\ UNCHANGED unsent
     \/ unsent' = unsent \cup {Head(done[r])} /\ UNCHANGED sent
  /\ UNCHANGED <<head, todo, ranks, arrived, refused>>

(* No result is left to collect. *)
CollectEnd ==
  /\ pc = "collect" /\ Probed = {}
  /\ pc' = "recv"
  /\ UNCHANGED <<limits, running, local, cur, next_worker, todo, ranks, done,
                 arrived, refused, report>>

-----------------------------------------------------------------------------
(* SIGINT or SIGTERM at the head; the loop notices at its top. *)
Signal ==
  /\ running /\ running' = FALSE
  /\ UNCHANGED <<limits, pc, local, cur, next_worker, todo, ranks, done, arrived,
                 refused, report>>

(* The loop ends; next_worker, not used again, counts the ranks told. *)
LeaveLoop ==
  /\ pc = "recv" /\ ~running
  /\ pc' = "stop" /\ next_worker' = 1
  /\ UNCHANGED <<limits, running, local, cur, todo, ranks, done, arrived, refused,
                 report>>

(* Mutant of StopRank: the loop ends one rank early. *)
StopRankShort ==
  /\ pc = "stop" /\ Len(todo[next_worker]) < Buffer
  /\ todo' = [todo EXCEPT ![next_worker] = Append(@, Stop)]
  /\ IF next_worker < Ranks - 1 THEN next_worker' = next_worker + 1 /\ UNCHANGED pc
                                ELSE pc' = "exit" /\ UNCHANGED next_worker
  /\ UNCHANGED <<limits, running, local, cur, ranks, done, arrived, refused, report>>

(* One turn of the loop of shutdown_mpi_workers. *)
StopRank ==
  /\ pc = "stop" /\ Len(todo[next_worker]) < Buffer
  /\ todo' = [todo EXCEPT ![next_worker] = Append(@, Stop)]
  /\ IF next_worker < Ranks THEN next_worker' = next_worker + 1 /\ UNCHANGED pc
                            ELSE pc' = "exit" /\ UNCHANGED next_worker
  /\ UNCHANGED <<limits, running, local, cur, ranks, done, arrived, refused, report>>

-----------------------------------------------------------------------------
(* A rank receives a task. *)
RankReceive(r) ==
  /\ rank[r] = "up" /\ hand[r] = None
  /\ todo[r] # <<>> /\ Head(todo[r]) # Stop
  /\ hand' = [hand EXCEPT ![r] = Head(todo[r])]
  /\ todo' = [todo EXCEPT ![r] = Tail(@)]
  /\ UNCHANGED <<head, rank, done, arrived, refused, report>>

(* It has executed the task and sends the result. *)
RankReport(r) ==
  /\ hand[r] # None /\ Len(done[r]) < Buffer
  /\ done' = [done EXCEPT ![r] = Append(@, hand[r])]
  /\ hand' = [hand EXCEPT ![r] = None]
  /\ UNCHANGED <<head, todo, rank, arrived, refused, report>>

(* It finds the message with tag 999 and leaves it unreceived. *)
RankStops(r) ==
  /\ rank[r] = "up" /\ hand[r] = None
  /\ todo[r] # <<>> /\ Head(todo[r]) = Stop
  /\ rank' = [rank EXCEPT ![r] = "stopped"]
  /\ UNCHANGED <<head, hand, todo, done, arrived, refused, report>>

(* A signal at a rank; a task in hand is still finished and reported. *)
RankSignal(r) ==
  /\ rank[r] = "up"
  /\ rank' = [rank EXCEPT ![r] = "killed"]
  /\ UNCHANGED <<head, hand, todo, done, arrived, refused, report>>

HeadStep ==
  \/ \E n \in 0..Batch : Receive(n)
  \/ Take \/ Requeue \/ Distribute \/ NoTask
  \/ \E r \in Rank : Collect(r)
  \/ CollectEnd \/ LeaveLoop \/ StopRank
RankStep(r) == RankReceive(r) \/ RankReport(r) \/ RankStops(r)

Next ==
  \/ HeadStep
  \/ \E r \in Rank : RankStep(r)
  \/ \E r \in Rank : RankSignal(r)
  \/ Signal

(***************************************************************************)
(* The operating system schedules every process; signals may never come.   *)
(***************************************************************************)
Fairness == WF_vars(HeadStep) /\ \A r \in Rank : WF_vars(RankStep(r))
Spec == Init /\ [][Next]_vars /\ Fairness

-----------------------------------------------------------------------------
(* In how many places on the way through the cluster the task is. *)
Places(id) ==
  LET held == {r \in Rank : hand[r] = id}
      queued == {i \in DOMAIN local : local[i].task_id = id}
      moving == {<<r, i>> \in Rank \X (1..MaxTasks) :
                   i \in DOMAIN todo[r] /\ todo[r][i] = id}
      reported == {<<r, i>> \in Rank \X (1..MaxTasks) :
                     i \in DOMAIN done[r] /\ done[r][i] = id}
  IN Cardinality(held) + Cardinality(queued) + Cardinality(moving)
     + Cardinality(reported)
     + Cardinality({i \in 1..4 : id \in <<{cur}, sent, unsent, refused>>[i]})

(* Every variable has its type, and no MPI buffer is over-full. *)
TypeOK ==
  /\ limits \in {"ok", "null"} /\ running \in BOOLEAN
  /\ pc \in {"recv", "work", "send", "collect", "stop", "exit"}
  /\ local \in Seq(Task) /\ Len(local) <= LocalMax
  /\ cur \in 0..MaxTasks /\ next_worker \in Rank
  /\ hand \in [Rank -> 0..MaxTasks]
  /\ rank \in [Rank -> {"up", "stopped", "killed"}]
  /\ arrived \in 0..MaxTasks /\ {refused, sent, unsent} \subseteq SUBSET TaskId
  /\ \A r \in Rank : /\ todo[r] \in Seq(0..MaxTasks) /\ Len(todo[r]) <= Buffer
                    /\ done[r] \in Seq(TaskId) /\ Len(done[r]) <= Buffer

(***************************************************************************)
(* Every task that arrived is in exactly one place, and there are only two *)
(* ways to lose it: the local queue, full or without memory for a node,    *)
(* does not take it or does not take it back, and the send of its result   *)
(* fails.  Queueing again after a refused reservation, dealing, collecting,*)
(* signals at any rank and stopping neither lose a task nor report it      *)
(* twice (run_worker, run_mpi_worker).                                     *)
(***************************************************************************)
InOnePlace == \A id \in 1..arrived : Places(id) = 1

(***************************************************************************)
(* worker/main.c:362: "Don't block - results collected separately".  With  *)
(* a resource limiter and no signals, every task that was taken into the   *)
(* local queue has its result collected, although the head collects only   *)
(* once its queue is empty.                                                *)
(***************************************************************************)
Quiet == limits = "ok" /\ running /\ \A r \in Rank : rank[r] = "up"
AllReported ==
  \A id \in 1..MaxTasks :
    (id \in (1..arrived) \ refused) ~> (id \in sent \cup unsent \/ ~Quiet)

(* Rank r is in MPI_Send of a result, the head in MPI_Send to rank r. *)
RankBlocked(r) == hand[r] # None /\ Len(done[r]) = Buffer
HeadBlocked(r) == pc \in {"send", "stop"} /\ next_worker = r /\ Len(todo[r]) = Buffer

(***************************************************************************)
(* Once the head is told to stop, the whole job ends: the head leaves      *)
(* shutdown_mpi_workers and every rank its loop, also ranks with tasks     *)
(* still queued.  Two things alone can keep it alive: a rank whose result  *)
(* does not fit in MPI's buffers, which nobody collects any more, and a    *)
(* message that does not fit to a rank that a signal of its own has ended. *)
(***************************************************************************)
EveryRankStops ==
  <>[](\/ running
       \/ pc = "exit" /\ \A r \in Rank : rank[r] # "up" /\ hand[r] = None
       \/ \E r \in Rank : RankBlocked(r) \/ (HeadBlocked(r) /\ rank[r] = "killed"))
=============================================================================
