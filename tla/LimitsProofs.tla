---------------------------- MODULE LimitsProofs ----------------------------
(***************************************************************************)
(* For any finite set of clients and any limits: the count of running      *)
(* tasks is exact, and no reservation is granted beyond the limit in       *)
(* force.  The inductive invariant says, besides RunningMatches, where a   *)
(* thread may be and that count and limit are numbers.                     *)
(***************************************************************************)
EXTENDS ResourceLimits, FiniteSetTheorems, TLAPS

Held == {"reserved", "working"}
NotHeld == {"top", "update", "memory", "tasks", "rest", "paused", "reserve", "done"}

LimitsInv ==
  /\ place \in [LimitThread -> Held \cup NotHeld]
  /\ max_concurrent_tasks \in Nat
  /\ RunningMatches

(* Finitely many threads hold a reservation, so that they can be counted. *)
LEMMA HoldersFinite == IsFiniteSet(Holders) /\ Cardinality(Holders) \in Nat
<1>1. IsFiniteSet(LimitThread)
  BY LimitsAssumption, FS_AddElement DEF LimitThread
<1>2. Holders \in SUBSET LimitThread
  BY DEF Holders
<1> QED
  BY <1>1, <1>2, FS_Subset, FS_CardinalityType

(* A thread that goes where a reservation is held adds one to the holders. *)
LEMMA HolderGained ==
  ASSUME NEW t \in LimitThread, NEW to \in Held,
         place \in [LimitThread -> Held \cup NotHeld], place[t] \in NotHeld, Goto(t, to)
  PROVE  /\ Cardinality(Holders') = Cardinality(Holders) + 1
         /\ place' \in [LimitThread -> Held \cup NotHeld]
<1>1. place' \in [LimitThread -> Held \cup NotHeld]
  BY DEF Goto
<1>2. Holders' = Holders \cup {t} /\ t \notin Holders
  BY DEF Goto, Holders, Held, NotHeld
<1> QED
  BY <1>1, <1>2, HoldersFinite, FS_AddElement, Zenon

(* One that gives its reservation up takes one from them. *)
LEMMA HolderLost ==
  ASSUME NEW t \in LimitThread, NEW to \in NotHeld,
         place \in [LimitThread -> Held \cup NotHeld], place[t] \in Held, Goto(t, to)
  PROVE  /\ Cardinality(Holders') = Cardinality(Holders) - 1
         /\ Holders' \ Holders = {}
         /\ place' \in [LimitThread -> Held \cup NotHeld]
<1>1. place' \in [LimitThread -> Held \cup NotHeld]
  BY DEF Goto
<1>2. Holders' = Holders \ {t} /\ t \in Holders
  BY DEF Goto, Holders, Held, NotHeld
<1> QED
  BY <1>1, <1>2, HoldersFinite, FS_RemoveElement, Zenon

(* Any other move leaves the holders alone. *)
LEMMA HoldersKept ==
  ASSUME NEW t \in LimitThread, NEW to \in Held \cup NotHeld,
         place \in [LimitThread -> Held \cup NotHeld],
         place[t] \in Held <=> to \in Held, Goto(t, to)
  PROVE  /\ Holders' = Holders
         /\ place' \in [LimitThread -> Held \cup NotHeld]
<1>1. place' \in [LimitThread -> Held \cup NotHeld]
  BY DEF Goto
<1>2. Holders' = Holders
  BY DEF Goto, Holders, Held, NotHeld
<1> QED
  BY <1>1, <1>2

(* A limit that is set fits its word, so that it is a number. *)
LEMMA LimitsAreNumbers == {v % TaskWord : v \in TaskLimits} \subseteq Nat
<1> SUFFICES ASSUME NEW v \in TaskLimits PROVE v % TaskWord \in Nat
  OBVIOUS
<1>1. v \in Nat /\ TaskWord \in Nat /\ TaskWord > 0
  BY LimitsAssumption
<1> QED
  BY <1>1

(* Nobody holds a reservation when the limiter has been created. *)
LEMMA LimitsInvInit == LimitsInit => LimitsInv
<1> SUFFICES ASSUME LimitsInit PROVE LimitsInv
  OBVIOUS
<1>1. Holders = {} /\ place \in [LimitThread -> Held \cup NotHeld]
  BY DEF LimitsInit, Holders, Held, NotHeld
<1> QED
  BY <1>1, LimitsAreNumbers, FS_EmptySet DEF LimitsInit, LimitsInv, RunningMatches

(***************************************************************************)
(* A step keeps the invariant, and one that adds a holder finds room for   *)
(* it within the limit: reserve_task tests the limit and counts the task   *)
(* under one lock, and every other function either leaves the holders and  *)
(* the count alone or takes one from both.                                 *)
(***************************************************************************)
LEMMA LimitsInvStep ==
  LimitsInv /\ [LimitsNext]_limitVars =>
    /\ LimitsInv'
    /\ Holders' \ Holders # {} => Cardinality(Holders') <= max_concurrent_tasks
<1> SUFFICES ASSUME LimitsInv, [LimitsNext]_limitVars
             PROVE  /\ LimitsInv'
                    /\ Holders' \ Holders # {} => Cardinality(Holders') <= max_concurrent_tasks
  OBVIOUS
<1> DEFINE Typed == place \in [LimitThread -> Held \cup NotHeld]
<1>0. Typed /\ tasks_running = Cardinality(Holders) /\ tasks_running \in Nat
      /\ max_concurrent_tasks \in Nat
  BY HoldersFinite DEF LimitsInv, RunningMatches
<1> DEFINE Kept == Holders' = Holders /\ Typed' /\ tasks_running' = tasks_running
                   /\ max_concurrent_tasks' \in Nat
<1>k. ASSUME Kept PROVE /\ LimitsInv'
                        /\ Holders' \ Holders # {} => Cardinality(Holders') <= max_concurrent_tasks
  BY <1>0, <1>k DEF LimitsInv, RunningMatches
<1>l. Loop \in LimitThread
  BY DEF LimitThread
<1> HIDE DEF Typed
<1>1. CASE UNCHANGED limitVars
  BY <1>0, <1>1, <1>k DEF limitVars, Holders, Typed
<1>2. CASE set_limits
  BY <1>0, <1>2, <1>k, LimitsAreNumbers DEF set_limits, Holders, Typed
<1>3. CASE Environment
  BY <1>0, <1>3, <1>k DEF Environment, config, Holders, Typed
<1>4. ASSUME NEW t \in LimitThread, update(t)
      PROVE Kept
  <2>1. tasks_running' = tasks_running /\ max_concurrent_tasks' = max_concurrent_tasks
    BY <1>4 DEF update, config
  <2>2. \/ place[t] = "update" /\ Goto(t, "memory")
        \/ place[t] = "paused" /\ Goto(t, "top")
    BY <1>4 DEF update
  <2> QED
    BY <1>0, <2>1, <2>2, HoldersKept DEF Typed, Held, NotHeld
<1>5. ASSUME check_all PROVE Kept
  <2>1. tasks_running' = tasks_running /\ max_concurrent_tasks' = max_concurrent_tasks
    BY <1>5 DEF check_all, config
  <2>2. /\ place[Loop] \in {"memory", "tasks", "rest"}
        /\ \E to \in {"tasks", "rest", "paused", "reserve"} : Goto(Loop, to)
    BY <1>5 DEF check_all
  <2> QED
    BY <1>0, <1>l, <2>1, <2>2, HoldersKept DEF Typed, Held, NotHeld
<1>6. ASSUME IsEmpty PROVE Kept
  <2>1. tasks_running' = tasks_running /\ max_concurrent_tasks' = max_concurrent_tasks
    BY <1>6 DEF IsEmpty, config
  <2>2. place[Loop] = "top" /\ \E to \in {"done", "update"} : Goto(Loop, to)
    BY <1>6 DEF IsEmpty
  <2> QED
    BY <1>0, <1>l, <2>1, <2>2, HoldersKept DEF Typed, Held, NotHeld
<1>7. ASSUME TakeTask PROVE Kept
  <2>1. tasks_running' = tasks_running /\ max_concurrent_tasks' = max_concurrent_tasks
    BY <1>7 DEF TakeTask, config
  <2>2. place[Loop] = "reserved" /\ Goto(Loop, "working")
    BY <1>7 DEF TakeTask
  <2> QED
    BY <1>0, <1>l, <2>1, <2>2, HoldersKept DEF Typed, Held, NotHeld
<1>8. ASSUME NEW t \in LimitThread, Reserve(t)
      PROVE  /\ LimitsInv'
             /\ Holders' \ Holders # {} => Cardinality(Holders') <= max_concurrent_tasks
  <2>1. place[t] \in {"top", "reserve"} /\ reserve_task(t)
    BY <1>8 DEF Reserve
  <2>2. max_concurrent_tasks' = max_concurrent_tasks
    BY <2>1 DEF reserve_task, config
  <2>3. CASE tasks_running >= max_concurrent_tasks
    <3>1. tasks_running' = tasks_running /\ Goto(t, "top")
      BY <2>1, <2>3 DEF reserve_task
    <3>2. Kept
      BY <1>0, <2>1, <2>2, <3>1, HoldersKept DEF Typed, Held, NotHeld
    <3> QED
      BY <1>k, <3>2
  <2>4. CASE ~(tasks_running >= max_concurrent_tasks)
    <3>1. tasks_running' = tasks_running + 1 /\ Goto(t, "reserved")
      BY <2>1, <2>4 DEF reserve_task
    <3>2. Cardinality(Holders') = Cardinality(Holders) + 1 /\ Typed'
      BY <1>0, <2>1, <3>1, HolderGained DEF Typed, Held, NotHeld
    <3> QED
      BY <1>0, <2>2, <2>4, <3>1, <3>2 DEF LimitsInv, RunningMatches, Typed
  <2> QED
    BY <2>3, <2>4
<1>9. ASSUME NEW t \in LimitThread, Release(t)
      PROVE  /\ LimitsInv'
             /\ Holders' \ Holders # {} => Cardinality(Holders') <= max_concurrent_tasks
  <2>1. place[t] \in Held /\ \E success \in BOOLEAN : release_task(t, success)
    BY <1>9, Zenon DEF Release, Held
  <2>2. /\ tasks_running' = IF tasks_running > 0 THEN tasks_running - 1 ELSE 0
        /\ Goto(t, "top") /\ max_concurrent_tasks' = max_concurrent_tasks
    BY <2>1 DEF release_task, config
  <2>3. /\ Cardinality(Holders') = Cardinality(Holders) - 1
        /\ Holders' \ Holders = {} /\ Typed'
    BY <1>0, <2>1, <2>2, HolderLost DEF Typed, NotHeld
  <2>4. t \in Holders
    BY <2>1 DEF Holders, Held
  <2>5. Cardinality(Holders) # 0
    BY <2>4, HoldersFinite, FS_EmptySet
  <2> QED
    BY <1>0, <2>2, <2>3, <2>5 DEF LimitsInv, RunningMatches, Typed
<1> QED
  BY <1>1, <1>2, <1>3, <1>4, <1>5, <1>6, <1>7, <1>8, <1>9, <1>k DEF LimitsNext, LimitStep

(* tasks_running is the number of threads that hold a reservation, in every
   behaviour of the limiter (reserve_task, release_task). *)
THEOREM RunningIsExact == LimitsSpec => []RunningMatches
<1>1. LimitsInv => RunningMatches
  BY DEF LimitsInv
<1>2. LimitsInv /\ [LimitsNext]_limitVars => LimitsInv'
  BY LimitsInvStep
<1> QED
  BY <1>1, <1>2, LimitsInvInit, PTL DEF LimitsSpec

(* A reservation is granted only within the limit in force, whatever the
   limit was moved to while tasks ran (reserve_task, set_hard_limit). *)
THEOREM AdmissionHolds == LimitsSpec => Admission
<1>1. LimitsInv /\ [LimitsNext]_limitVars => LimitsInv'
  BY LimitsInvStep
<1>2. LimitsInv /\ [LimitsNext]_limitVars =>
        [Holders' \ Holders # {} => Cardinality(Holders') <= max_concurrent_tasks]_limitVars
  BY LimitsInvStep
<1> QED
  BY <1>1, <1>2, LimitsInvInit, PTL DEF LimitsSpec, Admission
=============================================================================
