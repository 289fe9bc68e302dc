------------------------------ MODULE Cluster -------------------------------
(***************************************************************************)
(* The coordinator process and its standalone workers, composed:           *)
(* run_coordinator (src/coordinator/main.c) with its task queue, scheduler *)
(* and ZeroMQ ROUTER transport, and run_worker (src/worker/main.c) with    *)
(* its local queue.  The coordinator is one thread; an iteration of its    *)
(* loop is a receive, one dispatch per idle worker of the snapshot, and a  *)
(* timeout check.  A dispatch takes a batch out of the queue, sends it     *)
(* and, when that fails, queues it again task by task, while producers go  *)
(* on submitting.  A worker process is identified by the identity it makes *)
(* for itself, so a restarted worker is a new member of Worker; transport  *)
(* and scheduler ids are identified with it.  Channels keep order; what    *)
(* may fail is governed by the constants.  The coordinator's sends may be  *)
(* cut between two frames; a worker's message is sent whole or not at all  *)
(* (Transport has the frames of both).  Workers have a resource limiter,   *)
(* which their one task at a time never exceeds.  What is written to the   *)
(* metadata store is in MetadataStore.                                     *)
(***************************************************************************)
EXTENDS QueueOps, SchedulerOps, SequencesExt

CONSTANTS Worker,       \* worker processes ever started
          Nobody,
          Crashable,    \* those that may crash or be stopped
          Lossy,        \* may sends and allocations fail?
          Suspicious,   \* may a live worker be silent for too long?
          QueueMax, LocalMax,   \* capacities of the two kinds of queue
          Batch,        \* max_batch_size every worker registers with
          MaxKnown,     \* MAX_WORKERS of the ZeroMQ registry
          MaxInFlight   \* bound on messages under way when a heartbeat is sent

ASSUME ClusterAssumption ==
  /\ IsFiniteSet(Worker) /\ Nobody \notin Worker /\ Crashable \subseteq Worker
  /\ Lossy \in BOOLEAN /\ Suspicious \in BOOLEAN
  /\ QueueMax \in Nat \ {0} /\ LocalMax \in Nat \ {0} /\ Batch \in Nat \ {0}
  /\ MaxKnown \in Nat /\ MaxInFlight \in Nat
  /\ MaxWorkers <= MaxKnown   \* 256 and 1024 in the code

VARIABLES queue,      \* the coordinator's task queue
          sched,      \* its scheduler
          known,      \* identities in the ZeroMQ worker registry
          cpc, visit, \* place in the loop, idle workers still to be visited
          hand, to,   \* the batch that has left the queue, and its worker
          unfinished, \* the worker a cut send had begun a message to, or Nobody
          proc,       \* each worker process: "off", "up" or "gone"
          inbox,      \* batches on their way to a worker
          local,      \* each worker's local queue
          net,        \* messages on their way to the coordinator
          submitted,  \* history: ids ever put into the queue
          dropped,    \* those a queue refused when they were to go back
          untracked   \* those sent to a worker while the task table was full

batch == <<hand, to>>
coordinator == <<queue, sched, known, cpc, visit, batch, unfinished>>
history == <<submitted, dropped, untracked>>
vars == <<coordinator, proc, inbox, local, net, history>>

Msg(type, id) == [type |-> type, task_id |-> id]
Send(w, m) == net' = [net EXCEPT ![w] = Append(@, m)]

Init ==
  /\ queue = <<>> /\ sched = scheduler_create /\ known = {}
  /\ cpc = "recv" /\ visit = {} /\ hand = <<>> /\ to = Nobody
  /\ unfinished = Nobody
  /\ proc = [w \in Worker |-> "off"]
  /\ inbox = [w \in Worker |-> <<>>]
  /\ local = [w \in Worker |-> <<>>]
  /\ net = [w \in Worker |-> <<>>]
  /\ submitted = {} /\ dropped = {} /\ untracked = {}

(* A producer enqueues a task; ids are unique across a run. *)
Submit(id) ==
  /\ id \notin submitted
  /\ LET task == [task_id |-> id, high |-> FALSE] IN
       /\ EnqueueCode(queue, QueueMax, FALSE, task) = 0
       /\ queue' = Insert(queue, task)
  /\ submitted' = submitted \cup {id}
  /\ UNCHANGED <<sched, known, cpc, visit, batch, unfinished, proc, inbox, local, net,
                 dropped, untracked>>

-----------------------------------------------------------------------------
(***************************************************************************)
(* Coordinator, receive.  transport_zmq_recv maps the sender's identity to *)
(* its index.  For an identity that is not in the registry src_worker is   *)
(* left uninitialised: the message may be attributed to any worker.        *)
(***************************************************************************)
Sources(w) == IF w \in known THEN {w} ELSE Worker

(* Mutant of HandleHeartbeat: a worker that was dead registers afresh. *)
HandleHeartbeatFresh(w) ==
  /\ sched' = IF w \in InState(sched, "DEAD")
              THEN [update_heartbeat(sched, w) EXCEPT
                      !.workers = Put(sched, w, NewWorker(Batch))]
              ELSE sched
  /\ UNCHANGED known

(* Mutant of HandleHeartbeat: the time is noted, nobody is revived. *)
HandleHeartbeatNoRevival(w) == UNCHANGED <<sched, known>>

(* Mutant of HandleRegister: the transport does not note a new identity. *)
HandleRegisterUnknown(w) ==
  /\ sched' = register_worker(sched, w, Batch)
  /\ UNCHANGED known

(* WORKER_REGISTER, in the transport and in handle_worker_register. *)
HandleRegister(w) ==
  /\ known' = IF Cardinality(known) < MaxKnown THEN known \cup {w} ELSE known
  /\ sched' = register_worker(sched, w, Batch)

HandleHeartbeat(w) ==
  /\ \E src \in Sources(w) : sched' = update_heartbeat(sched, src)
  /\ UNCHANGED known

(* TASK_RESULT; execute_task_standalone reports status 0.  The scheduler
   credits the worker it tracked, whoever the sender is. *)
HandleResult(id) ==
  /\ sched' = mark_task_complete(sched, id, 0)
  /\ UNCHANGED known

(* WORKER_SHUTDOWN is not a case of the switch. *)
HandleUnknown == UNCHANGED <<sched, known>>

RecvMessage(w) ==
  /\ cpc = "recv" /\ net[w] # <<>>
  /\ LET m == Head(net[w]) IN
       \/ m.type = "register" /\ HandleRegister(w)
       \/ m.type = "heartbeat" /\ HandleHeartbeat(w)
       \/ m.type = "result" /\ HandleResult(m.task_id)
       \/ m.type = "shutdown" /\ HandleUnknown
  /\ net' = [net EXCEPT ![w] = Tail(@)]
  /\ cpc' = "dispatch" /\ visit' = get_idle_workers(sched')
  /\ UNCHANGED <<queue, batch, unfinished, proc, inbox, local, history>>

(* Nothing arrives within timeout_ms. *)
RecvNothing ==
  /\ cpc = "recv"
  /\ cpc' = "dispatch" /\ visit' = get_idle_workers(sched)
  /\ UNCHANGED <<queue, sched, known, batch, unfinished, proc, inbox, local, net, history>>

-----------------------------------------------------------------------------
(* create_task_batch: up to Batch tasks from the head of the queue. *)
BatchSize == IF Len(queue) < Batch THEN Len(queue) ELSE Batch

TakeBatch(w) ==
  /\ cpc = "dispatch" /\ w \in visit /\ queue # <<>>
  /\ visit' = visit \ {w}
  /\ hand' = SubSeq(queue, 1, BatchSize) /\ to' = w
  /\ queue' = SubSeq(queue, BatchSize + 1, Len(queue))
  /\ cpc' = "send"
  /\ UNCHANGED <<sched, known, unfinished, proc, inbox, local, net, history>>

(* One scheduler_track_task per task of the batch, results ignored. *)
TrackBatch(s) ==
  FoldLeft(LAMBDA sc, task : track_task(sc, task.task_id, to), s, hand)

(***************************************************************************)
(* The worker a message for w reaches: an unfinished one takes the frames  *)
(* of the next with it, to the worker it was begun for.                    *)
(***************************************************************************)
Receiver(w) == IF unfinished = Nobody THEN w ELSE unfinished

(***************************************************************************)
(* send_task_batch succeeds, and the worker is charged with the batch.  A  *)
(* ROUTER socket silently drops what is addressed to a peer that is gone.  *)
(***************************************************************************)
DispatchSent ==
  /\ cpc = "send" /\ cpc' = "dispatch" /\ hand' = <<>> /\ to' = Nobody
  /\ sched' = TrackBatch(mark_worker_busy(sched, to, Len(hand)))
  /\ untracked' = untracked \cup {<<hand[i].task_id, to>> : i \in
                     {j \in DOMAIN hand : Len(sched.tasks) + j > MaxTracked}}
  /\ LET w == Receiver(to) IN
       \/ proc[w] = "up" /\ inbox' = [inbox EXCEPT ![w] = Append(@, hand)]
       \/ (proc[w] # "up" \/ Lossy) /\ UNCHANGED inbox
  /\ unfinished' = Nobody
  /\ UNCHANGED <<queue, known, visit, proc, local, net, submitted, dropped>>

(* Mutant of DispatchFailed: the batch is not put back. *)
DispatchFailedDrops ==
  /\ Lossy
  /\ cpc = "send" /\ cpc' = "dispatch" /\ hand' = <<>> /\ to' = Nobody
  /\ UNCHANGED <<queue, sched, known, visit, unfinished, proc, inbox, local, net, history>>

(* send_task_batch fails, for want of memory or in a send: nothing was sent,
   or the message has been begun and stays unfinished. *)
DispatchFailed ==
  /\ Lossy
  /\ cpc = "send" /\ cpc' = "requeue" /\ to' = Nobody
  /\ unfinished' \in {unfinished, Receiver(to)}
  /\ UNCHANGED <<queue, sched, known, visit, hand, proc, inbox, local, net, history>>

(* The next task of the batch goes back, to the tail; a full queue or a
   failing malloc goes unnoticed. *)
Requeue ==
  /\ cpc = "requeue"
  /\ queue' \in TryInsert(queue, QueueMax, FALSE, Head(hand), Lossy)
  /\ dropped' = IF queue' = queue THEN dropped \cup {Head(hand).task_id} ELSE dropped
  /\ hand' = Tail(hand)
  /\ cpc' = IF Len(hand) = 1 THEN "dispatch" ELSE "requeue"
  /\ UNCHANGED <<sched, known, visit, to, unfinished, proc, inbox, local, net, submitted,
                 untracked>>

(* The lists that one task_queue_enqueue per task of a batch, with the
   results ignored, may leave. *)
EnqueueBatch(list, max, tasks) ==
  FoldLeft(LAMBDA lists, task : UNION {TryInsert(l, max, FALSE, task, Lossy) : l \in lists},
           {list}, tasks)

(* Mutant of CheckTimeouts: a dead worker's tasks are queued again. *)
CheckTimeoutsRequeues ==
  /\ cpc = "dispatch" /\ (visit = {} \/ queue = <<>>)
  /\ \E silent \in SUBSET {w \in Worker : proc[w] = "gone" \/ Suspicious} :
       LET owed == SelectSeq(sched.tasks, LAMBDA t : t.status = Pending
                                                    /\ t.worker_id \in silent)
       IN /\ sched' = check_timeouts(sched, silent)
          /\ queue' \in EnqueueBatch(queue, QueueMax,
                           [i \in DOMAIN owed |-> [task_id |-> owed[i].task_id,
                                                    high |-> FALSE]])
  /\ cpc' = "recv" /\ visit' = {}
  /\ UNCHANGED <<known, batch, unfinished, proc, inbox, local, net, history>>

(* scheduler_check_timeouts, and back to the top of the loop. *)
CheckTimeouts ==
  /\ cpc = "dispatch" /\ (visit = {} \/ queue = <<>>)
  /\ \E silent \in SUBSET {w \in Worker : proc[w] = "gone" \/ Suspicious} :
       sched' = check_timeouts(sched, silent)
  /\ cpc' = "recv" /\ visit' = {}
  /\ UNCHANGED <<queue, known, batch, unfinished, proc, inbox, local, net, history>>

-----------------------------------------------------------------------------
(* A worker process starts and sends its registration, result ignored. *)
Start(w) ==
  /\ proc[w] = "off"
  /\ proc' = [proc EXCEPT ![w] = "up"]
  /\ Send(w, Msg("register", 0)) \/ (Lossy /\ UNCHANGED net)
  /\ UNCHANGED <<coordinator, inbox, local, history>>

SendHeartbeat(w) ==
  /\ proc[w] = "up" /\ Len(net[w]) < MaxInFlight
  /\ Send(w, Msg("heartbeat", 0))
  /\ UNCHANGED <<coordinator, proc, inbox, local, history>>

(***************************************************************************)
(* The rest of an iteration of run_worker: it unpacks a batch if one has   *)
(* arrived (got), then executes the head of its local queue and sends the  *)
(* result.  Both results of enqueue and of send are ignored.               *)
(***************************************************************************)
Iterate(w, got) ==
  /\ proc[w] = "up" /\ IF got THEN inbox[w] # <<>> ELSE local[w] # <<>>
  /\ inbox' = IF got THEN [inbox EXCEPT ![w] = Tail(@)] ELSE inbox
  /\ \E tasks \in IF got THEN EnqueueBatch(local[w], LocalMax, Head(inbox[w])) ELSE {local[w]} :
       \/ tasks = <<>> /\ UNCHANGED <<local, net>>
       \/ /\ tasks # <<>>
          /\ local' = [local EXCEPT ![w] = Tail(tasks)]
          /\ \/ Send(w, Msg("result", Head(tasks).task_id))
             \/ Lossy /\ UNCHANGED net
  /\ UNCHANGED <<coordinator, proc, history>>

(* Both ways out lose the local queue and what had not been received. *)
Leave(w) ==
  /\ w \in Crashable /\ proc[w] = "up"
  /\ proc' = [proc EXCEPT ![w] = "gone"]
  /\ inbox' = [inbox EXCEPT ![w] = <<>>]
  /\ local' = [local EXCEPT ![w] = <<>>]
  /\ UNCHANGED <<coordinator, history>>

(* The process dies; only a prefix of what it sent arrives. *)
Crash(w) ==
  /\ Leave(w)
  /\ \E k \in 0..Len(net[w]) : net' = [net EXCEPT ![w] = SubSeq(@, 1, k)]

(* The process is told to stop; transport_zmq_shutdown says goodbye. *)
Stop(w) == Leave(w) /\ Send(w, Msg("shutdown", 0))

-----------------------------------------------------------------------------
Coordinate ==
  \/ \E w \in Worker : RecvMessage(w)
  \/ RecvNothing
  \/ \E w \in Worker : TakeBatch(w)
  \/ DispatchSent \/ DispatchFailed \/ Requeue
  \/ CheckTimeouts

Next ==
  \/ \E id \in TaskId : Submit(id)
  \/ Coordinate
  \/ \E w \in Worker : Start(w)
  \/ \E w \in Worker : SendHeartbeat(w)
  \/ \E w \in Worker, got \in BOOLEAN : Iterate(w, got)
  \/ \E w \in Worker : Crash(w)
  \/ \E w \in Worker : Stop(w)

Spec == Init /\ [][Next]_vars

(***************************************************************************)
(* The coordinator's loop never blocks for long, and a ROUTER socket       *)
(* receives from its peers in turn (SF: a peer's message is not passed     *)
(* over for ever).  Worker processes are started, keep iterating, receive  *)
(* what has been sent to them and send heartbeats every 10 seconds.        *)
(***************************************************************************)
Fairness ==
  /\ WF_vars(Coordinate)
  /\ \A w \in Worker :
       /\ SF_vars(RecvMessage(w))
       /\ WF_vars(Start(w))
       /\ WF_vars(SendHeartbeat(w))
       /\ \A got \in BOOLEAN : WF_vars(Iterate(w, got))

FairSpec == Spec /\ Fairness

-----------------------------------------------------------------------------
(* How often a task is met in a sequence of tasks or of messages. *)
Copies(seq, id) == Cardinality({i \in DOMAIN seq : seq[i].task_id = id})

(* Copies of a task that w holds or has reported. *)
Outstanding(w, id) ==
  Copies(FlattenSeq(inbox[w]), id) + Copies(local[w], id) + Copies(net[w], id)

Entries(id) == {i \in DOMAIN sched.tasks : sched.tasks[i].task_id = id}
Completed(id) == \E i \in Entries(id) : sched.tasks[i].status = 0

(***************************************************************************)
(* No task runs twice: at any time at most one copy of it exists, in the   *)
(* queue, in the dispatcher's hand, on its way to a worker, in a local     *)
(* queue or as a result on its way back, and none once its result has been *)
(* recorded.  Timeouts, revivals, cut and failed sends and requeues do not *)
(* duplicate work.                                                         *)
(***************************************************************************)
AtMostOnce ==
  \A id \in TaskId :
    Copies(queue, id) + Copies(hand, id)
      + MapThenSumSet(LAMBDA w : Outstanding(w, id), Worker)
      <= IF Completed(id) THEN 0 ELSE 1

(***************************************************************************)
(* The coordinator forgets a task in two ways only: the queue refuses to   *)
(* take it back after a failed send, because producers have filled it in   *)
(* the meantime or malloc fails, or it is sent while the task table is     *)
(* full.  Every other submitted task is in exactly one place: queued, in   *)
(* the dispatcher's hand or tracked (run_coordinator, create_task_batch).  *)
(***************************************************************************)
NothingForgotten ==
  \A id \in submitted :
    Copies(queue, id) + Copies(hand, id) + Cardinality(Entries(id))
      + Cardinality({id} \cap dropped) + Cardinality({u \in untracked : u[1] = id}) = 1

(***************************************************************************)
(* tasks_running, which alone decides when a worker is idle again, is the  *)
(* number of the worker's tracked tasks that have no result and of those   *)
(* it was sent while the task table was full, whose results count for      *)
(* nothing; through timeouts, revivals, late results, and batches that a   *)
(* cut send took to another worker.                                        *)
(***************************************************************************)
LoadIsPending ==
  \A w \in Registered(sched) :
    sched.workers[w].tasks_running =
      Cardinality({i \in DOMAIN sched.tasks :
                     sched.tasks[i].worker_id = w /\ sched.tasks[i].status = Pending})
      + Cardinality({u \in untracked : u[2] = w})

(***************************************************************************)
(* A worker whose result is on its way is in the transport's registry, so  *)
(* that src_worker, which transport_zmq_recv leaves uninitialised for an   *)
(* unknown sender, is set when handle_task_result records which worker ran *)
(* the task; also for a batch that a cut send took to it, and for results  *)
(* that outlive their worker.  Heartbeats may come from unknown senders.   *)
(***************************************************************************)
ResultsAttributed ==
  \A w \in Worker :
    (\E i \in DOMAIN net[w] : net[w][i].type = "result") => Sources(w) = {w}

(***************************************************************************)
(* Without crashes and losses what the scheduler believes a worker to be   *)
(* running is what the worker really has: a BUSY worker owes results that  *)
(* will free it, even when it was wrongly declared dead and revived.       *)
(***************************************************************************)
LoadIsReal ==
  \A w \in Registered(sched) :
    sched.workers[w].tasks_running =
      MapThenSumSet(LAMBDA id : Outstanding(w, id), TaskId)

(***************************************************************************)
(* Without crashes and losses every submitted task is completed, even if   *)
(* live workers are declared dead over and over: a heartbeat revives a     *)
(* worker in time for the dispatch of the same loop iteration.             *)
(***************************************************************************)
AllCompleted == \A id \in TaskId : id \in submitted ~> Completed(id)

(***************************************************************************)
(* docs/DESIGN.md: "Distributed code must be robust against failure".  A   *)
(* task is in the end completed or recorded as failed although a worker    *)
(* may crash, as long as another one stays up.                             *)
(***************************************************************************)
SurvivesCrash ==
  \A id \in TaskId :
    id \in submitted ~> \E i \in Entries(id) : sched.tasks[i].status # Pending
=============================================================================
