------------------------------- MODULE Runtime -------------------------------
(***************************************************************************)
(* Three parts of the library that examples/minimal_cluster/               *)
(* runtime_example.c uses: the queue with its threads, the resource        *)
(* limits, the crash reporter.  They share no state, so a behaviour of all *)
(* three says nothing that the behaviours of each do not: a behaviour is   *)
(* one of the part chosen at the start.                                    *)
(***************************************************************************)
EXTENDS TaskQueue, ResourceLimits, CrashReporter

VARIABLE part

runtimeVars == <<part, vars, limitVars, crashVars>>

(* Where the limits take no part, one configuration of them is enough. *)
RuntimeInit ==
  /\ part \in {"queue", "limits", "crash"}
  /\ Init /\ LimitsInit /\ CrashInit
  /\ \/ part = "limits"
     \/ /\ \A v \in TaskLimits : max_concurrent_tasks >= v % TaskWord
        /\ \A l \in MemLimits : max_memory >= l /\ warn_memory >= l

RuntimeNext ==
  \/ part = "queue" /\ Next /\ UNCHANGED <<part, limitVars, crashVars>>
  \/ part = "limits" /\ LimitsNext /\ UNCHANGED <<part, vars, crashVars>>
  \/ part = "crash" /\ CrashNext /\ UNCHANGED <<part, vars, limitVars>>

(* Threads are scheduled, critical sections are finite, the user answers. *)
RuntimeFairness ==
  /\ \A t \in Thread : WF_runtimeVars(part = "queue" /\ Proceed(t) /\ UNCHANGED <<part, limitVars, crashVars>>)
  /\ \A t \in LimitThread : WF_runtimeVars(part = "limits" /\ LimitStep(t) /\ UNCHANGED <<part, vars, crashVars>>)
  /\ \A t \in CrashThread : WF_runtimeVars(part = "crash" /\ Handler(t) /\ UNCHANGED <<part, vars, limitVars>>)

RuntimeSpec == RuntimeInit /\ [][RuntimeNext]_runtimeVars /\ RuntimeFairness

(* Nothing the limits measure is at any value the limits may take, and the
   limit on concurrent tasks, which may be 0, lets one task run. *)
Quiet ==
  other < EXCEEDED /\ max_concurrent_tasks > 0 /\ \A l \in MemLimits \ {0} : mem < l

(***************************************************************************)
(* Once memory, CPU, disk and open files stay below their limits and the   *)
(* limit on concurrent tasks stays above 0, the loop ends with the queue   *)
(* empty and every client gets all its tasks through, although the limits  *)
(* go on being moved and had been at 0 (check_all, reserve_task,           *)
(* set_hard_limit, example_integrated).                                    *)
(***************************************************************************)
AllProcessed ==
  part = "limits" /\ <>[]Quiet =>
    <>[](queue = 0 /\ place[Loop] = "done" /\ \A c \in Client : left[c] = 0)
=============================================================================
