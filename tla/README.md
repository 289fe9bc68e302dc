# Verification of the distributed computing project

TLA+ models of the C processes and libraries under `src/src`, the TLC runs that check them on
small instances, and TLAPS proofs for the task queue. `PROJECT.json` maps every
definition to the lines it models and lists runs, mutants, findings, hazards and
theorems.

## The system

A **coordinator** holds a queue of tasks and a scheduler; **workers** connect to
it over ZeroMQ, register, send heartbeats, receive batches of tasks and send one
result per task. A worker is *standalone*, or, under `mpirun`, the *head* of a
cluster of MPI ranks to which it deals its tasks.

| part | state | operations | what is hard |
|---|---|---|---|
| task queue (`runtime/task_queue.c`) | linked list, counters, `blocked_threads`, `shutting_down` | enqueue, dequeue, dequeue_wait, peek, remove_by_id, clear, wake_all, destroy | threads on one condition variable, deadlines, destruction under waiters, list ends |
| scheduler (`coordinator/scheduler.c`) | worker table, task table, statistics | register, unregister, heartbeat, mark busy/idle, track, complete, check timeouts | death and revival, repeated results, unsigned counters, full tables |
| coordinator loop (`coordinator/main.c`) | queue, scheduler, place in the loop | receive and handlers, dispatch to idle workers, timeout check | stale snapshot, failed sends, messages of unknown senders |
| coordinator process (same file) | global pointers | set up, loop, signal, clean up, read the task file | order of these steps |
| standalone worker (`worker/main.c`) | local queue | register, heartbeat, iterate, leave | crashes, ignored send results |
| cluster head and ranks (same file) | local queue, `next_worker`, MPI channels | receive, reserve, deal, collect, stop; ranks receive, report, stop | blocking `MPI_Send`, results after the loop |
| ZeroMQ transport (`net/transport_zmq.c`) | identity registry, frames | send, receive, broadcast | multipart messages cut short, one lock taken twice |
| MPI transport (`net/transport_mpi.c`) | none | send, receive, probe | header and payload in two steps |
| metadata store (`storage/metadata.c`) | one file per key | put, get, delete, query | crash between truncation and write |
| HDF5 index (`storage/hdf5_index.c`) | SQLite index and HDF5 files | create, add, query, rebuild | two stores that can differ |
| resource limits (`runtime/resource_limits.c`) | `tasks_running`, limits, statistics | reserve, release, set limits, check | release without reserve, lowered limits |
| error reporter (`common/errors.c`) | a re-entrancy flag | install, handle a signal | two threads faulting together |
| logging (`common/log.c`) | `log_file` | write, shut down | a pointer no lock protects |

The unused executor, the string helpers of the worker registry and the
Fortran kernels complete the repository.

## Modules

- `QueueOps`: the task list as a sequence, and what each queue function does to it.
  No state: the queue, the coordinator and the workers share it.
- `PriorityFifo`: the abstract specification of the queue, two lanes (high, normal),
  each first in, first out, with cancellation.
- `TaskQueue`: the queue with threads. A call under the mutex is one action.
  `dequeue_wait` is split where the code releases the mutex: a thread is `idle`,
  `sleeping` on the condition, `woken` or `expired` and about to relock. POSIX
  semantics: a signal wakes some sleeper if there is one, spurious wake-ups happen,
  a thread whose deadline passed takes no signal. `cond_not_full` has no waiters.
  `destroy` is two actions, because it unlocks before it frees.
- `TaskList`: the same list as nodes with `head`, `tail` and `next`, and the log line
  of `enqueue` that reads its node after the unlock.
- `SchedulerOps`, `Scheduler`: each function of `scheduler.c` as an operator on the
  structure's value (each holds the mutex throughout); the state machine calls them in
  any order and lets time pass. Counters wrap modulo `Word`, as `size_t` does.
  Those that only grow are left out.
- `Cluster`: the coordinator's loop composed with `QueueOps`, `SchedulerOps`, the
  transport's registry, and standalone worker processes. A receive, taking a batch,
  sending it, putting each task of a failed one back, and the timeout check are
  separate steps, so messages arrive and producers submit between them. A message
  whose sender is not in the registry is attributed to any worker, because the
  code leaves `src_worker` unset. A send of the coordinator that is cut between two
  frames stays `unfinished` and takes the next message to its own worker; a worker's
  message is sent whole or not at all. A restarted worker makes a new identity: a new
  member of `Worker`. Ghost variables remember the two ways the coordinator forgets a
  task: `dropped` (the queue did not take it back) and `untracked` (the task table
  was full).
- `CoordinatorMain`: the life of the coordinator process around its loop.
- `ClusterHead`: the head's loop in MPI mode and the ranks'. `MPI_Send` blocks while
  `Buffer` messages are under way between two ranks. The limiter is present or, when
  its allocation failed, absent: then every reservation is refused. A task the local
  queue does not take is remembered as `refused`, a result that is not sent as `unsent`.
- `Transport`: the transport layer with both backends, one coordinator and its workers.
  ZeroMQ: a message is a sequence of frames; a send that fails between two frames
  leaves the message open and the next one continues it, and a receive that gives up
  leaves the rest in the stream. Closing a worker's context waits for its last message
  to reach the coordinator, for ever if that is gone. MPI: header and payload are two
  steps on two channels; a send returns at once when MPI buffers its kind of message
  (`eager`: none, headers, both), otherwise when it is received. The registry gives a
  rank to an identity frame, whatever frame that is.
- `MetadataStore`: one file per key, with the renaming of `sanitise_key`. A put is
  opening (which truncates), the moment the buffer is written, and closing;
  `task_info` and `experiment` are sequences of puts whose results are ignored.
- `Hdf5Index`: HDF5 files and the rows of the two SQL tables. A call is a sequence of
  library calls, each a step: every SQL statement commits by itself and every dataset
  opens its file again. `good` remembers what was stored with no step failing.
- `ResourceLimits`: each function of the limiter under its mutex, called by the loop of
  `example_integrated` (whose test, checks, reservation and dequeue are separate steps)
  and by clients, while limits and measurements change. A limit on tasks may be set
  to 0, and is cut to 32 bits (`TaskWord`).
- `CrashReporter`: threads that run, log, fault and end; the signal handler step by step
  (flag, report file, log shutdown, reset, raise), where creating or writing the file
  may fail; the allocator's lock kept by a thread that faulted inside it.
- `Storage`, `Bookkeeping`, `Runtime`, `Messaging`: specifications that put components
  with no common state side by side (`MetadataStore` and `Hdf5Index`; those,
  `TaskList` and `Scheduler`; `TaskQueue`, `ResourceLimits` and `CrashReporter`;
  `ClusterHead` and `Transport`). A variable chosen at the start says which one a
  behaviour is of; an interleaving of parts that share nothing would add states and no
  behaviour of either part.
- `MCTaskQueue`, `MCTaskList`, `MCCluster`, `MCBookkeeping`: instances and symmetry for TLC.
- `TaskQueueProofs`: the theorems.

Two specifications are shown to implement `PriorityFifo`: `TaskQueue` (the lanes are
the high prefix of `list` and the rest) and `TaskList` (the same of the chain from
`head`), each as a `PROPERTY` through `INSTANCE ... WITH`.

## Runs

| run | instance | shows |
|---|---|---|
| `Runtime`, queue | 3 threads, 3 ids, capacity 2, no duplicates | `TypeOK`; `HighPrefix`: high-priority tasks are the first `high_priority_count`; `WithinLimits`; `ImplementsFifo`: the queue implements the two lanes; `NoLostWakeup`, `ShutdownWakes`, `BlockedMatches`; `NoStrandedSleeper`: no consumer sleeps for ever beside a queue that holds tasks |
| `Runtime`, limits | the loop, 2 clients, 2 tasks queued, limits 0 to 2 and one that wraps, memory at and below its limit | `RunningMatches`: the count is the reservations held; `Admission`: granted only within the limit in force; `AllProcessed`: once measurements stay low and the limit on tasks above 0, everything gets through |
| `Runtime`, crash | 3 threads, 2 signals, any number of faults | `OneReporter`: `handling_event` is set exactly while one thread reports; `ReportWhole`: a single fault leaves a whole report if the file could be written; `LogUsedOpen`: without a fault the log is not used once closed, and it is closed once unless main faults while closing it; `FaultKills`: the process ends unless a thread waits for its own allocator lock |
| `QueueWakeAll` (violated) | the queue | consumers woken by `task_queue_wake_all` sleep on |
| `QueueDestroy` (violated) | the queue | the queue is freed under a woken consumer |
| `Bookkeeping`, list | 3 nodes, reused after being freed | `ListIntact`; `ImplementsFifo`: the pointer code implements the two lanes |
| `Bookkeeping`, scheduler | 2 workers, one task tracked up to twice, tables that fill up, any caller | `SchedulerTypeOK`; `StatsMatch`: the counters of live workers are exact while no id registers over its own record, all four while nobody leaves, and idle and busy add up to active in any case; `EmptiedIsReleased`: a worker that loses its last task is not left BUSY; `HistoryKept`: the task table is not rewritten |
| `Bookkeeping`, metadata | 2 keys that share a file, a refused key, a task, an experiment; 2 calls, 2 failures or crashes | `AckedIsRead`: what put acknowledged is what get returns and queries find; `TaskUnmixed`: a task's five entries are of one call unless it was cut |
| `Bookkeeping`, HDF5 | 3 files, tasks 0, small and with the sign bit set, a failure or crash | `ResultFound`: a dataset reads back as stored, and an indexed file is found by task and by model; `DatasetRowsTrue`: a row of a dataset has its file's row and its dataset |
| `ListLog` (violated) | the list | `enqueue` logs from a node that may have been freed |
| `ClusterFaults` | 2 workers that crash or are stopped, 3 tasks, a queue and a task table for 2, failing sends and allocations, wrong suspicions | `AtMostOnce`, `NothingForgotten`, `LoadIsPending`, `ResultsAttributed` |
| `ClusterSteady` | 2 workers, no crash, no loss, suspicions at will | `LoadIsReal`: `tasks_running` is what the worker owes; `AllCompleted`: each submitted task is completed |
| `ClusterCrash` (violated) | a worker that may crash beside one that stays up | a task sent to the crashed worker is never retried |
| `Messaging`, head | 2 ranks, 5 tasks, batches up to 3, buffers for 1 message | `InOnePlace`: a task is lost in two ways only, and never reported twice; `EveryRankStops`: a stopped head ends the job unless somebody is blocked in `MPI_Send` in one of two ways |
| `Messaging`, transport | 2 workers, new or registered; 3 messages over ZeroMQ, 2 and broadcasts over MPI, one failing send or allocation | `ReceivedAsSent`: once, under the sender's rank, with its own payload up to MPI faults; `MisdirectedPerFault`: one wrong recipient per cut send; `Delivered`: calls return but those `Stuck` names, and messages arrive |
| `HeadBlocks` (violated) | 1 rank, one batch of 4 tasks, buffers for 1 message | the head, dealing, and the rank, reporting, block each other |
| `BroadcastReturns` (violated) | as `Messaging` | a ZeroMQ broadcast to a worker never returns |
| `CoordinatorTasks` (violated) | the `--tasks` option | the file is read after the queue was freed |

(`MessagingTypeOK` is the type invariant of the head and the transport.)

**Findings.** The seven violated runs are disagreements between the code and its
headers, comments, docs or help text; `PROJECT.json` quotes the lines. `HeadBlocks`
depends on how much MPI buffers: implementations buffer many messages of this size,
the standard promises none. With `Buffer` messages each way, `2 * Buffer + 2` tasks for
a rank in one dealing are enough.

What the properties except is as much a result as what they say. Each exception is
a behaviour TLC finds when the exception is removed:

- The coordinator ignores the result of queueing a task again. When producers have
  filled the queue since, or malloc fails, the task is gone (`dropped` in
  `NothingForgotten`). Tasks sent while the task table is full are not tracked, their
  results count for nothing and their worker stays BUSY (`untracked` in
  `LoadIsPending`).
- The head loses tasks its local queue does not take, and results whose send fails
  (`InOnePlace`). A rank whose result finds the buffer full after the head has left its
  loop waits for ever; so does a head with a message for a rank that a signal has
  ended (`EveryRankStops`).
- Two nodes that send each other MPI messages that are not buffered wait for each
  other. A worker that shuts down after the coordinator waits in `zmq_ctx_destroy`
  for its last message to be delivered (`Stuck` in `Delivered`).
- After a ZeroMQ send is cut behind the identity frame, the next message goes to the
  destination of the cut one (`MisdirectedPerFault`). After an MPI payload is lost, its
  header takes the payload of the next message (`ReceivedAsSent`), or waits for one for
  ever (`Delivered`).
- A heartbeat of a worker whose registration was lost is attributed to any worker;
  a result is not, because no such worker is given a task (`ResultsAttributed`).
- A worker that registers again over its own record makes the scheduler count idle
  and busy workers as each other (`StatsMatch`).
- A crash in the middle of a put loses the old value with the new (`AckedIsRead` excepts
  `cut`); a failing `fclose` does so with `META_OK`. A blob put without data is
  acknowledged and unreadable.
- `hdf5_store_task_result` says `HDF5_OK` whatever its writes did: `ResultFound` is about
  the datasets that were written, and about finding files that were indexed.
  `hdf5_index_rebuild` only deletes. Task 0 cannot be looked up, nor can an id of 2^63
  or more.
- A limit of 0 on concurrent tasks, or one that 32 bits cut to 0, admits nobody
  (`Quiet` in `AllProcessed`).
- A second fault kills the process under the first handler, with the report partial
  (`ReportWhole`). A handler closes the log under a thread that writes to it
  (`LogUsedOpen`).

In `metadata_store_query`, `query->type >= 0` is always true for an unsigned
enumeration, so a query cannot leave the type open; `Matches` says what the code does.

**Mutants.** For each property of a passing run a plausible bug (a dropped guard, a
missing signal, an off-by-one) is defined next to the definition it changes, and
violates the property.

**Bounds.** Each bound is the smallest at which the interesting case happens: a
capacity that is reached; two takers and a sleeper for the wake-ups; two workers, so
that one can be dead while the other goes on; tables (`MaxWorkers`, `MaxTracked`) small
enough to be full. In `ClusterFaults` three tasks meet a queue for two, so that a batch
of two finds it full when it comes back. In `Messaging` buffers hold one message, which
five tasks for two ranks fill in both directions.
`MaxEnqueued`, `MaxLoad`, `MaxInFlight` and `MaxTasks`
cap counters and channels that the code leaves unbounded.
`MaxRun`, `MaxWork`, `MaxRows`, `ZmqSends`, `MpiSends` and `ClientTasks` bound calls;
`MaxFaults` and `MaxLapses` bound failures and crashes. Of the transport, a registered
start leaves all three ZeroMQ messages to what comes after registration: a send that
is cut, the message that goes astray and the next one. (The transport alone also
passes with four ZeroMQ messages, with three over MPI, and with two faults; the run has
less for time.) Two metadata calls let a task be recorded over an earlier record that a
crash has cut; the HDF5 bounds let a result be stored, stored again and written to.

**Fairness.** The queue of `Runtime` assumes that a woken or expired thread eventually
relocks the mutex (weak fairness), which a pthread mutex that is held for bounded time
gives; `Runtime` assumes it also of the steps of the loop and the clients of the
limiter, and of the steps of a signal handler, which include the user answering its
prompt.
`ClusterSteady` and `ClusterCrash` assume weak fairness of the coordinator's loop steps
and of the iterations and heartbeats of workers that are up: both loops sleep for a
bounded time and go round. Receiving from each worker is strongly fair: the ROUTER
socket takes from its peers in turn, so a worker's message is not passed over for
ever. `Messaging` and `HeadBlocks` assume weak fairness of the head and of each rank,
and, for the transport, of each node receiving or going on with its call: every main
loop polls for as long as it runs. The stores have no liveness property.
Nothing is assumed of submissions, crashes, signals, losses or suspicions.

**Deadlock** is checked except where a process may really have ended (a destroyed
queue, a stopped head, a process that died, a transport with nothing left to send).

## Proofs

`TaskQueueProofs` proves, for any finite set of threads, any ids, any capacity:

- `TypeCorrect`, `HighPrefixHolds`, `WithinLimitsHolds`, `NoLostWakeupHolds`: the
  invariants of the same names hold in every behaviour;
- `WaitersCounted`: `blocked_threads` is exact, and a queue being destroyed has no
  sleeper.

They follow from one inductive invariant,
`Inv == TypeOK /\ ListInv /\ ThreadInv /\ NoLostWakeup /\ WithinLimits`, proved by
`InvInit` and `InvStep`, with one lemma per conjunct and a step per action.

- `HighPrefix` is needed for types: `high_priority_count` is decremented without a
  test, and is positive then only because the high tasks form a prefix.
- `NoLostWakeup` needs the waiters: a taker that was woken leaves the set of woken
  threads as it takes a task, and so keeps the inequality; one that never waited only
  removes a task. A signal adds a woken thread unless nobody sleeps, in which case
  there is nothing to show.
- `ShutdownWakes` (in `ThreadInv`) holds because the broadcast and the flag are one
  step and because `dequeue_wait` tests the flag before it sleeps.

The assumptions are `QueueAssumption` and the like in the modules that declare the
constants: finite sets of threads, natural-number bounds.

**Only model-checked:** the refinements of `PriorityFifo`, the linked list, the
scheduler, the cluster, the head, the transport, the stores, the limiter and the
crash reporter; every liveness property (fairness and `ENABLED`
are out of the prover's reach).

## Not modelled

The getters that read one value under a lock; message layouts and checks of magic
numbers; the registry's heartbeat times, `poll` and statistics of the transports, which
nothing reads; errors returned by `MPI_Recv` (MPI's default handler aborts); what
`/proc`, `getrusage` and `statvfs` measure (an environment that changes at will);
contents of blobs, dimensions and element types of datasets; levels and layout of log
lines; counters that only grow and peaks, which only statistics report, with
`resource_limits_reset_stats`; `error_reporter_uninstall`, which nothing calls, the upload of a report and the
C++ terminate handler; the executor, which nothing calls; the floating-point
computations of the Fortran kernels. `PROJECT.json` lists the parts with their hazards.

Hazards with no property: a `task_queue_dequeue` that arrives during `destroy` does not
test `shutting_down` (the model lets only `enqueue` and `dequeue_wait` begin then); the
batch array of 100 in `coordinator/main.c` is filled up to the size a worker registered
with, which a head of more than 20 ranks exceeds (`Cluster` has batches without an array);
`resource_limits.c` reads its counters for debug messages after the unlock; a release
without a reservation is absorbed at zero (every caller modelled releases what it
reserved).
