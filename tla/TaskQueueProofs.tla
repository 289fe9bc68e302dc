-------------------------- MODULE TaskQueueProofs ---------------------------
(* Proofs about the task queue, for any threads, ids and limits. *)
EXTENDS TaskQueue, SequenceTheorems, FiniteSetTheorems,
        WellFoundedInduction, TLAPS

(***************************************************************************)
(* What InsertAfter does: the first k tasks stay, the new one follows, and *)
(* the others move up by one.                                              *)
(***************************************************************************)
LEMMA InsertAfterFacts ==
  ASSUME NEW s \in Seq(Task), NEW e \in Task, NEW k \in 0..Len(s)
  PROVE  /\ InsertAfter(s, k, e) \in Seq(Task)
         /\ Len(InsertAfter(s, k, e)) = Len(s) + 1
         /\ \A i \in 1..k : InsertAfter(s, k, e)[i] = s[i]
         /\ InsertAfter(s, k, e)[k + 1] = e
         /\ \A i \in (k + 2)..(Len(s) + 1) : InsertAfter(s, k, e)[i] = s[i - 1]
<1> DEFINE a == SubSeq(s, 1, k)
           b == SubSeq(s, k + 1, Len(s))
           c == a \o <<e>>
           r == c \o b
<1>0. Len(s) \in Nat /\ k \in Nat
  BY LenProperties
<1>1. /\ a \in Seq(Task) /\ Len(a) = k /\ \A i \in 1..k : a[i] = s[i]
      /\ b \in Seq(Task) /\ Len(b) = Len(s) - k
      /\ \A i \in 1..(Len(s) - k) : b[i] = s[k + i]
  BY <1>0, SubSeqProperties, LenProperties
<1> HIDE DEF a, b
<1>2. /\ c \in Seq(Task) /\ Len(c) = k + 1
      /\ \A i \in 1..(k + 1) : c[i] = IF i <= k THEN s[i] ELSE e
  BY <1>0, <1>1, ConcatProperties
<1> HIDE DEF c
<1>3. /\ r \in Seq(Task) /\ Len(r) = Len(c) + Len(b)
      /\ \A i \in 1..(Len(c) + Len(b)) :
           r[i] = IF i <= Len(c) THEN c[i] ELSE b[i - Len(c)]
  BY <1>1, <1>2, ConcatProperties, ZenonT(60)
<1>4. InsertAfter(s, k, e) = r
  BY DEF InsertAfter, a, b, c
<1> HIDE DEF r
<1>5. Len(r) = Len(s) + 1
  BY <1>0, <1>1, <1>2, <1>3
<1>6. ASSUME NEW i \in 1..(Len(s) + 1)
      PROVE  r[i] = IF i <= k + 1 THEN c[i] ELSE b[i - (k + 1)]
  BY <1>2, <1>3, <1>5
<1>7. (\A i \in 1..k : r[i] = s[i]) /\ r[k + 1] = e
  BY <1>0, <1>2, <1>6
<1>8. ASSUME NEW i \in (k + 2)..(Len(s) + 1)
      PROVE  r[i] = s[i - 1]
  <2>1. i - (k + 1) \in 1..(Len(s) - k) /\ k + (i - (k + 1)) = i - 1
    BY <1>0
  <2>2. b[i - (k + 1)] = s[i - 1]
    BY <1>1, <2>1
  <2>3. QED BY <1>0, <1>6, <2>2
<1>9. QED BY <1>3, <1>4, <1>5, <1>7, <1>8, Zenon

(* What Unlink does: the tasks behind position k move down by one. *)
LEMMA UnlinkFacts ==
  ASSUME NEW s \in Seq(Task), NEW k \in 1..Len(s)
  PROVE  /\ Unlink(s, k) \in Seq(Task)
         /\ Len(Unlink(s, k)) = Len(s) - 1
         /\ \A i \in 1..(Len(s) - 1) :
              Unlink(s, k)[i] = IF i < k THEN s[i] ELSE s[i + 1]
<1> DEFINE a == SubSeq(s, 1, k - 1)
           b == SubSeq(s, k + 1, Len(s))
           r == a \o b
<1>0. Len(s) \in Nat /\ k \in Nat
  BY LenProperties
<1>1. /\ a \in Seq(Task) /\ Len(a) = k - 1 /\ \A i \in 1..(k - 1) : a[i] = s[i]
      /\ b \in Seq(Task) /\ Len(b) = Len(s) - k
      /\ \A i \in 1..(Len(s) - k) : b[i] = s[k + i]
  BY <1>0, SubSeqProperties, LenProperties
<1> HIDE DEF a, b
<1>2. /\ r \in Seq(Task) /\ Len(r) = Len(a) + Len(b)
      /\ \A i \in 1..(Len(a) + Len(b)) :
           r[i] = IF i <= Len(a) THEN a[i] ELSE b[i - Len(a)]
  BY <1>1, ConcatProperties, Zenon
<1>3. Unlink(s, k) = r
  BY DEF Unlink, a, b
<1> HIDE DEF r
<1>4. Len(r) = Len(s) - 1
  BY <1>0, <1>1, <1>2
<1>5. ASSUME NEW i \in 1..(Len(s) - 1)
      PROVE  r[i] = IF i < k THEN s[i] ELSE s[i + 1]
  <2>1. r[i] = IF i <= k - 1 THEN a[i] ELSE b[i - (k - 1)]
    BY <1>1, <1>2, <1>4
  <2>2. CASE i < k
    BY <1>0, <1>1, <2>1, <2>2
  <2>3. CASE i >= k
    <3>1. i - (k - 1) \in 1..(Len(s) - k) /\ k + (i - (k - 1)) = i + 1
      BY <1>0, <2>3
    <3>2. b[i - (k - 1)] = s[i + 1]
      BY <1>1, <3>1
    <3>3. QED BY <1>0, <2>1, <2>3, <3>2
  <2>4. QED BY <1>0, <2>2, <2>3
<1>6. QED BY <1>2, <1>3, <1>4, <1>5, Zenon

(* A non-empty set of natural numbers has a least element. *)
LEMMA LeastNat ==
  ASSUME NEW T, T \subseteq Nat, T # {}
  PROVE  \E x \in T : \A y \in T : x <= y
<1> DEFINE R == OpToRel(<, Nat)
<1>1. PICK x \in T : \A y \in T : <<y, x>> \notin R
  <2> HIDE DEF R
  <2>1. IsWellFoundedOn(R, Nat)
    BY NatLessThanWellFounded, Zenon DEF R
  <2>2. QED BY <2>1, WFMin, Zenon
<1>2. \A y \in T : ~(y < x)
  BY <1>1, Zenon DEF OpToRel
<1>3. QED BY <1>2

(***************************************************************************)
(* The walk over the leading high-priority nodes stops after n nodes when  *)
(* exactly the first n nodes have high priority.                           *)
(***************************************************************************)
LEMMA LeadingHighIs ==
  ASSUME NEW s \in Seq(Task), NEW n \in 0..Len(s),
         \A i \in 1..Len(s) : s[i].high <=> i <= n
  PROVE  LeadingHigh(s) = n
<1> DEFINE P(k) == /\ \A i \in 1..k : s[i].high
                   /\ k < Len(s) => ~s[k + 1].high
<1>0. Len(s) \in Nat
  BY LenProperties
<1>1. P(n)
  BY <1>0
<1>2. ASSUME NEW k \in 0..Len(s), P(k) PROVE k = n
  <2>1. ~(k < n)
    <3>1. SUFFICES ASSUME k < n PROVE FALSE
      OBVIOUS
    <3>2. k + 1 \in 1..Len(s) /\ k + 1 <= n
      BY <1>0, <3>1
    <3>3. QED BY <1>0, <1>2, <3>1, <3>2
  <2>2. ~(n < k)
    <3>1. SUFFICES ASSUME n < k PROVE FALSE
      OBVIOUS
    <3>2. n + 1 \in 1..Len(s) /\ n + 1 \in 1..k
      BY <1>0, <3>1
    <3>3. QED BY <1>0, <1>2, <3>1, <3>2
  <2>3. QED BY <1>0, <2>1, <2>2
<1>3. LeadingHigh(s) = CHOOSE k \in 0..Len(s) : P(k)
  BY DEF LeadingHigh
<1> HIDE DEF P
<1>4. QED BY <1>1, <1>2, <1>3

(* remove_by_id finds a position of the list that carries the id. *)
LEMMA FirstWithIdFound ==
  ASSUME NEW s \in Seq(Task), NEW id, task_exists(s, id)
  PROVE  /\ FirstWithId(s, id) \in 1..Len(s)
         /\ s[FirstWithId(s, id)].task_id = id
<1> DEFINE T == {i \in 1..Len(s) : s[i].task_id = id}
           P(i) == s[i].task_id = id /\ \A j \in 1..(i - 1) : s[j].task_id # id
<1>0. Len(s) \in Nat /\ DOMAIN s = 1..Len(s)
  BY LenProperties
<1>1. T # {} /\ T \subseteq Nat
  BY <1>0 DEF task_exists
<1>2. PICK x \in T : \A y \in T : x <= y
  BY <1>1, LeastNat, Zenon
<1>3. x \in DOMAIN s /\ P(x)
  BY <1>0, <1>2
<1>4. FirstWithId(s, id) = CHOOSE i \in DOMAIN s : P(i)
  BY DEF FirstWithId
<1>5. FirstWithId(s, id) \in DOMAIN s /\ P(FirstWithId(s, id))
  <2> HIDE DEF P, T
  <2>1. QED BY <1>3, <1>4
<1>6. QED BY <1>0, <1>5

-----------------------------------------------------------------------------
(* Exactly the first n tasks of s have high priority. *)
Prefix(s, n) ==
  /\ n <= Len(s)
  /\ \A i \in 1..Len(s) : s[i].high <=> i <= n

Weight(x) == IF x.high THEN 1 ELSE 0

(* Inserting a task keeps the high-priority tasks in front. *)
LEMMA InsertPrefix ==
  ASSUME NEW s \in Seq(Task), NEW n \in Nat, NEW x \in Task, Prefix(s, n)
  PROVE  /\ Insert(s, x) \in Seq(Task)
         /\ Len(Insert(s, x)) = Len(s) + 1
         /\ n + Weight(x) \in Nat
         /\ Prefix(Insert(s, x), n + Weight(x))
<1>0. Len(s) \in Nat /\ n \in 0..Len(s) /\ x.high \in BOOLEAN
  BY LenProperties DEF Prefix, Task
<1>1. CASE x.high
  <2>1. LeadingHigh(s) = n
    BY <1>0, LeadingHighIs DEF Prefix
  <2> DEFINE r == InsertAfter(s, n, x)
  <2>2. Insert(s, x) = r /\ Weight(x) = 1
    BY <1>1, <2>1 DEF Insert, Weight
  <2>3. /\ r \in Seq(Task) /\ Len(r) = Len(s) + 1
        /\ \A i \in 1..n : r[i] = s[i]
        /\ r[n + 1] = x
        /\ \A i \in (n + 2)..(Len(s) + 1) : r[i] = s[i - 1]
    <3>1. n \in 0..Len(s)
      BY <1>0
    <3>2. r \in Seq(Task) /\ Len(r) = Len(s) + 1
      BY <3>1, InsertAfterFacts, Zenon
    <3>3. (\A i \in 1..n : r[i] = s[i]) /\ r[n + 1] = x
      BY <3>1, InsertAfterFacts, Zenon
    <3>4. \A i \in (n + 2)..(Len(s) + 1) : r[i] = s[i - 1]
      BY <3>1, InsertAfterFacts, ZenonT(60)
    <3>5. QED BY <3>2, <3>3, <3>4, Zenon
  <2> HIDE DEF r
  <2>4. ASSUME NEW i \in 1..(Len(s) + 1)
        PROVE  r[i].high <=> i <= n + 1
    <3>1. CASE i <= n
      BY <1>0, <2>3, <3>1 DEF Prefix
    <3>2. CASE i = n + 1
      BY <1>0, <1>1, <2>3, <3>2
    <3>3. CASE i > n + 1
      <4>1. /\ i - 1 \in 1..Len(s) /\ ~(i - 1 <= n) /\ ~(i <= n + 1)
            /\ i \in (n + 2)..(Len(s) + 1)
        BY <1>0, <3>3
      <4>2. QED BY <2>3, <4>1 DEF Prefix
    <3>4. QED BY <1>0, <3>1, <3>2, <3>3
  <2>5. QED BY <1>0, <2>2, <2>3, <2>4 DEF Prefix
<1>2. CASE ~x.high
  <2> DEFINE r == Append(s, x)
  <2>1. Insert(s, x) = r /\ Weight(x) = 0
    BY <1>2 DEF Insert, Weight
  <2>2. /\ r \in Seq(Task) /\ Len(r) = Len(s) + 1
        /\ \A i \in 1..Len(s) : r[i] = s[i]
        /\ r[Len(s) + 1] = x
    BY AppendProperties
  <2> HIDE DEF r
  <2>3. ASSUME NEW i \in 1..(Len(s) + 1)
        PROVE  r[i].high <=> i <= n
    <3>1. CASE i <= Len(s)
      BY <1>0, <2>2, <3>1 DEF Prefix
    <3>2. CASE i = Len(s) + 1
      BY <1>0, <1>2, <2>2, <3>2
    <3>3. QED BY <1>0, <3>1, <3>2
  <2>4. QED BY <1>0, <2>1, <2>2, <2>3 DEF Prefix
<1>3. QED BY <1>0, <1>1, <1>2

(* Taking a task out, from any position, keeps them in front too. *)
LEMMA UnlinkPrefix ==
  ASSUME NEW s \in Seq(Task), NEW n \in Nat, NEW k \in 1..Len(s), Prefix(s, n)
  PROVE  /\ Unlink(s, k) \in Seq(Task)
         /\ Len(Unlink(s, k)) = Len(s) - 1
         /\ n - Weight(s[k]) \in Nat
         /\ Prefix(Unlink(s, k), n - Weight(s[k]))
<1> DEFINE r == Unlink(s, k)
           m == n - Weight(s[k])
<1>0. Len(s) \in Nat /\ k \in Nat /\ n <= Len(s)
  BY LenProperties DEF Prefix
<1>1. /\ r \in Seq(Task) /\ Len(r) = Len(s) - 1
      /\ \A i \in 1..(Len(s) - 1) : r[i] = IF i < k THEN s[i] ELSE s[i + 1]
  BY UnlinkFacts, Zenon
<1> HIDE DEF r
<1>2. m = IF k <= n THEN n - 1 ELSE n
  BY <1>0 DEF Prefix, Weight
<1> HIDE DEF m
<1>3. ASSUME NEW i \in 1..(Len(s) - 1)
      PROVE  r[i].high <=> i <= m
  <2>1. CASE i < k
    <3>1. r[i] = s[i] /\ i \in 1..Len(s)
      BY <1>0, <1>1, <2>1
    <3>2. s[i].high <=> i <= n
      BY <3>1 DEF Prefix
    <3>3. QED BY <1>0, <1>2, <2>1, <3>1, <3>2
  <2>2. CASE i >= k
    <3>1. r[i] = s[i + 1] /\ i + 1 \in 1..Len(s)
      BY <1>0, <1>1, <2>2
    <3>2. s[i + 1].high <=> i + 1 <= n
      BY <3>1 DEF Prefix
    <3>3. QED BY <1>0, <1>2, <2>2, <3>1, <3>2
  <2>3. QED BY <1>0, <2>1, <2>2
<1>4. m \in Nat /\ m <= Len(s) - 1
  BY <1>0, <1>2
<1>5. QED BY <1>1, <1>3, <1>4 DEF Prefix, r, m

(* Taking the head is taking the task at position 1. *)
LEMMA TailIsUnlink ==
  ASSUME NEW s \in Seq(Task), s # <<>>
  PROVE  Tail(s) = Unlink(s, 1) /\ Head(s) = s[1] /\ 1 \in 1..Len(s)
<1>1. Len(s) \in Nat /\ Len(s) >= 1
  BY LenProperties, EmptySeq
<1>2. Tail(s) = SubSeq(s, 2, Len(s)) /\ Head(s) = s[1]
  BY TailIsSubSeq, HeadTailProperties
<1>3. SubSeq(s, 1, 1 - 1) = <<>>
  BY SubSeqEmpty
<1>4. SubSeq(s, 2, Len(s)) \in Seq(Task)
  BY <1>1, LenProperties, SubSeqProperties
<1>5. QED BY <1>1, <1>2, <1>3, <1>4, ConcatEmptySeq DEF Unlink

-----------------------------------------------------------------------------
(* The threads whose state, under f, is in V. *)
Members(f, V) == {t \in Thread : f[t] \in V}

(* The threads in some set of states are finitely many. *)
LEMMA MembersFinite ==
  ASSUME NEW f, NEW V
  PROVE  IsFiniteSet(Members(f, V)) /\ Cardinality(Members(f, V)) \in Nat
<1>1. Members(f, V) \subseteq Thread
  BY DEF Members
<1>2. QED BY <1>1, QueueAssumption, FS_Subset, FS_CardinalityType

(* A thread that comes to be in V adds one to the count. *)
LEMMA MembersAdd ==
  ASSUME NEW S, NEW f \in [Thread -> S], NEW V, NEW t \in Thread, NEW v \in V,
         f[t] \notin V
  PROVE  Cardinality(Members([f EXCEPT ![t] = v], V))
           = Cardinality(Members(f, V)) + 1
<1>1. Members([f EXCEPT ![t] = v], V) = Members(f, V) \cup {t}
  BY DEF Members
<1>2. t \notin Members(f, V)
  BY DEF Members
<1>3. QED BY <1>1, <1>2, MembersFinite, FS_AddElement, Zenon

(* A thread that ceases to be in V takes one off. *)
LEMMA MembersDrop ==
  ASSUME NEW S, NEW f \in [Thread -> S], NEW V, NEW t \in Thread, NEW v,
         f[t] \in V, v \notin V
  PROVE  Cardinality(Members([f EXCEPT ![t] = v], V))
           = Cardinality(Members(f, V)) - 1
<1>1. Members([f EXCEPT ![t] = v], V) = Members(f, V) \ {t}
  BY DEF Members
<1>2. t \in Members(f, V)
  BY DEF Members
<1>3. QED BY <1>1, <1>2, MembersFinite, FS_RemoveElement, Zenon

(* A change within V, or outside it, leaves the set alone. *)
LEMMA MembersSame ==
  ASSUME NEW S, NEW f \in [Thread -> S], NEW V, NEW t \in Thread, NEW v,
         f[t] \in V <=> v \in V
  PROVE  Members([f EXCEPT ![t] = v], V) = Members(f, V)
BY DEF Members

-----------------------------------------------------------------------------
(* The part of the invariant about the list. *)
ListInv ==
  /\ list \in Seq(Task)
  /\ high_priority_count \in Nat
  /\ HighPrefix

(* Taking the head preserves it and hands a task over. *)
LEMMA TakeHeadList ==
  ASSUME ListInv, TakeHead
  PROVE  /\ ListInv'
         /\ Len(list') = Len(list) - 1
         /\ Head(list) \in Task
<1>1. /\ Tail(list) = Unlink(list, 1) /\ Head(list) = list[1]
      /\ 1 \in 1..Len(list)
  BY TailIsUnlink DEF ListInv, TakeHead
<1>2. Prefix(list, high_priority_count)
  BY DEF ListInv, HighPrefix, Prefix
<1>3. /\ Unlink(list, 1) \in Seq(Task)
      /\ Len(Unlink(list, 1)) = Len(list) - 1
      /\ high_priority_count - Weight(list[1]) \in Nat
      /\ Prefix(Unlink(list, 1), high_priority_count - Weight(list[1]))
  BY <1>1, <1>2, UnlinkPrefix DEF ListInv
<1>4. /\ list' = Unlink(list, 1)
      /\ high_priority_count' = high_priority_count - Weight(list[1])
  BY <1>1 DEF TakeHead, Weight
<1>5. Head(list) \in Task
  BY <1>1, SMTT(60) DEF ListInv
<1>6. QED BY <1>3, <1>4, <1>5 DEF ListInv, HighPrefix, Prefix

(* Every step of every thread preserves the part about the list. *)
LEMMA ListInvStep ==
  ASSUME ListInv, [Next]_vars
  PROVE  ListInv'
<1>0. Prefix(list, high_priority_count)
  BY DEF ListInv, HighPrefix, Prefix
<1>1. CASE UNCHANGED <<list, high_priority_count>>
  BY <1>1 DEF ListInv, HighPrefix
<1>2. CASE TakeHead
  BY <1>2, TakeHeadList
<1>3. CASE \E t \in Thread, task \in Task : Enqueue(t, task)
  <2>1. PICK t \in Thread, task \in Task : Enqueue(t, task)
    BY <1>3
  <2>2. /\ list' = Insert(list, task)
        /\ high_priority_count' = high_priority_count + Weight(task)
    BY <2>1 DEF Enqueue, Weight
  <2>3. QED BY <1>0, <2>2, InsertPrefix, Zenon DEF ListInv, HighPrefix, Prefix
<1>4. CASE \E t \in Thread, id \in TaskId : RemoveById(t, id)
  <2>1. PICK t \in Thread, id \in TaskId : RemoveById(t, id)
    BY <1>4
  <2>2. CASE task_exists(list, id)
    <3> DEFINE i == FirstWithId(list, id)
    <3>1. i \in 1..Len(list)
      BY <2>2, FirstWithIdFound DEF ListInv
    <3>2. /\ list' = Unlink(list, i)
          /\ high_priority_count' = high_priority_count - Weight(list[i])
      BY <2>1, <2>2 DEF RemoveById, Weight
    <3> HIDE DEF i
    <3>3. QED BY <1>0, <3>1, <3>2, UnlinkPrefix DEF ListInv, HighPrefix, Prefix
  <2>3. CASE ~task_exists(list, id)
    BY <1>1, <2>1, <2>3 DEF RemoveById
  <2>4. QED BY <2>2, <2>3
<1>5. CASE \E t \in Thread : Clear(t)
  <2>1. list' = <<>> /\ high_priority_count' = 0
    BY <1>5 DEF Clear
  <2>2. QED BY <2>1 DEF ListInv, HighPrefix
<1>6. QED
  BY <1>1, <1>2, <1>3, <1>4, <1>5
     DEF Next, vars, stats, EnqueueFails, Dequeue, DequeueWait, DequeueWaitFails, Resume,
         ReturnExpired, SpuriousWakeup, Expire, Peek, WakeAll, DestroyBegin,
         DestroyEnd

-----------------------------------------------------------------------------
(* The part of the invariant about the threads. *)
State == Waiting \cup {"idle"}
Woken == {"signalled", "broadcast"}

ThreadInv ==
  /\ pc \in [Thread -> State]
  /\ BlockedMatches
  /\ ShutdownWakes

(* A signal moves one sleeper, if there is one, to the woken threads. *)
LEMMA SignalMoves ==
  ASSUME pc \in [Thread -> State], Signal
  PROVE  /\ pc' \in [Thread -> State]
         /\ Members(pc', Waiting) = Members(pc, Waiting)
         /\ Sleepers' \subseteq Sleepers
         /\ Sleepers # {} => Cardinality(Members(pc', Woken))
                               = Cardinality(Members(pc, Woken)) + 1
<1>1. CASE Sleepers = {}
  BY <1>1 DEF Signal, Sleepers
<1>2. CASE Sleepers # {}
  <2>1. PICK t \in Sleepers : pc' = [pc EXCEPT ![t] = "signalled"]
    BY <1>2 DEF Signal
  <2>2. t \in Thread /\ pc[t] = "sleeping"
    BY <2>1 DEF Sleepers
  <2>3. pc' \in [Thread -> State]
    BY <2>1, Zenon DEF State, Waiting
  <2>4. Members(pc', Waiting) = Members(pc, Waiting)
    BY <2>1, <2>2, MembersSame, Zenon DEF Waiting
  <2>5. Sleepers' \subseteq Sleepers
    BY <2>1, <2>2 DEF Sleepers
  <2>6. Cardinality(Members(pc', Woken)) = Cardinality(Members(pc, Woken)) + 1
    <3>1. pc[t] \notin Woken /\ "signalled" \in Woken
      BY <2>2 DEF Woken
    <3>2. QED BY <2>1, <2>2, <3>1, MembersAdd, Zenon
  <2>7. QED BY <2>3, <2>4, <2>5, <2>6
<1>3. QED BY <1>1, <1>2

(* A broadcast leaves no sleeper and moves nobody out of the wait. *)
LEMMA BroadcastMoves ==
  ASSUME pc \in [Thread -> State], Broadcast
  PROVE  /\ pc' \in [Thread -> State]
         /\ Members(pc', Waiting) = Members(pc, Waiting)
         /\ Sleepers' = {}
BY DEF Broadcast, State, Waiting, Members, Sleepers

(* A thread that leaves dequeue_wait is one waiter less. *)
LEMMA LeaveMoves ==
  ASSUME ThreadInv, NEW t \in Thread, pc[t] \in Waiting, LeaveWait(t)
  PROVE  /\ pc' \in [Thread -> State]
         /\ BlockedMatches'
         /\ Sleepers' \subseteq Sleepers
<1>1. pc' = [pc EXCEPT ![t] = "idle"] /\ blocked_threads' = blocked_threads - 1
  BY DEF LeaveWait
<1>2. pc' \in [Thread -> State] /\ Sleepers' \subseteq Sleepers
  BY <1>1 DEF ThreadInv, State, Sleepers
<1>3. "idle" \notin Waiting
  BY DEF Waiting
<1>4. Cardinality(Members(pc', Waiting)) = Cardinality(Members(pc, Waiting)) - 1
  BY <1>1, <1>3, MembersDrop, Zenon DEF ThreadInv
<1>5. QED BY <1>1, <1>2, <1>4 DEF ThreadInv, BlockedMatches, Members

(* A thread that stays in the wait is the same number of waiters. *)
LEMMA StayMoves ==
  ASSUME ThreadInv, NEW t \in Thread, pc[t] \in Waiting, NEW v \in Waiting,
         pc' = [pc EXCEPT ![t] = v], UNCHANGED blocked_threads
  PROVE  pc' \in [Thread -> State] /\ BlockedMatches'
<1>1. pc' \in [Thread -> State]
  BY DEF ThreadInv, State
<1>2. Members(pc', Waiting) = Members(pc, Waiting)
  BY MembersSame, ZenonT(60) DEF ThreadInv
<1>3. QED BY <1>1, <1>2 DEF ThreadInv, BlockedMatches, Members

(* Every step of every thread preserves the part about the threads. *)
LEMMA ThreadInvStep ==
  ASSUME ThreadInv, [Next]_vars
  PROVE  ThreadInv'
<1> USE DEF ThreadInv
<1>1. CASE UNCHANGED <<pc, blocked_threads, shutting_down>>
  BY <1>1 DEF BlockedMatches, ShutdownWakes, Sleepers
<1>2. CASE \E t \in Thread, task \in Task : Enqueue(t, task)
  <2>1. Signal /\ UNCHANGED <<blocked_threads, shutting_down>>
    BY <1>2 DEF Enqueue
  <2>2. QED BY <2>1, SignalMoves DEF BlockedMatches, ShutdownWakes, Members
<1>3. CASE \E t \in Thread : WakeAll(t) \/ DestroyBegin(t)
  <2>1. Broadcast /\ UNCHANGED blocked_threads
    BY <1>3 DEF WakeAll, DestroyBegin
  <2>2. QED BY <2>1, BroadcastMoves DEF BlockedMatches, ShutdownWakes, Members
<1>4. ASSUME NEW t \in Thread, LeaveWait(t), pc[t] \in Waiting,
             UNCHANGED shutting_down
      PROVE  ThreadInv'
  BY <1>4, LeaveMoves DEF ShutdownWakes
<1>5. CASE \E t \in Thread : SpuriousWakeup(t) \/ Expire(t)
  <2>1. PICK t \in Thread : SpuriousWakeup(t) \/ Expire(t)
    BY <1>5
  <2>2. PICK v \in {"signalled", "expired"} : pc' = [pc EXCEPT ![t] = v]
    BY <2>1 DEF SpuriousWakeup, Expire
  <2>3. /\ UNCHANGED <<blocked_threads, shutting_down>>
        /\ pc[t] = "sleeping" /\ v \in Waiting /\ pc[t] \in Waiting
    BY <2>1 DEF SpuriousWakeup, Expire, Waiting
  <2>4. pc' \in [Thread -> State] /\ BlockedMatches'
    BY <2>2, <2>3, StayMoves, Zenon
  <2>5. ShutdownWakes'
    BY <2>2, <2>3 DEF ShutdownWakes, Sleepers
  <2>6. QED BY <2>4, <2>5
<1>6. CASE \E t \in Thread : Resume(t)
  <2>1. PICK t \in Thread : Resume(t)
    BY <1>6
  <2>2. pc[t] \in Waiting /\ UNCHANGED shutting_down
    BY <2>1 DEF Resume, Awake, Waiting
  <2>3. CASE LeaveWait(t)
    BY <1>4, <2>2, <2>3
  <2>4. CASE ~LeaveWait(t)
    <3>1. /\ ~shutting_down /\ UNCHANGED blocked_threads
          /\ pc' = [pc EXCEPT ![t] = "sleeping"] /\ "sleeping" \in Waiting
      BY <2>1, <2>4 DEF Resume, Waiting
    <3>2. QED BY <2>2, <3>1, StayMoves, Zenon DEF ShutdownWakes
  <2>5. QED BY <2>3, <2>4
<1>7. CASE \E t \in Thread : ReturnExpired(t)
  BY <1>4, <1>7 DEF ReturnExpired, Waiting
<1>8. CASE \E t \in Thread, bounded \in BOOLEAN : DequeueWait(t, bounded)
  <2>1. PICK t \in Thread, bounded \in BOOLEAN : DequeueWait(t, bounded)
    BY <1>8
  <2>2. CASE UNCHANGED <<blocked_threads, pc>>
    BY <1>1, <2>1, <2>2 DEF DequeueWait
  <2>3. CASE ~UNCHANGED <<blocked_threads, pc>>
    <3>1. /\ blocked_threads' = blocked_threads + 1
          /\ pc' = [pc EXCEPT ![t] = "sleeping"]
          /\ UNCHANGED shutting_down /\ ~shutting_down
          /\ pc[t] \notin Waiting /\ "sleeping" \in Waiting
      BY <2>1, <2>3 DEF DequeueWait, Calls, Waiting
    <3>2. pc' \in [Thread -> State]
      BY <3>1 DEF State
    <3>3. Cardinality(Members(pc', Waiting))
            = Cardinality(Members(pc, Waiting)) + 1
      BY <3>1, MembersAdd, ZenonT(60)
    <3>4. QED BY <3>1, <3>2, <3>3 DEF BlockedMatches, ShutdownWakes, Members
  <2>4. QED BY <2>2, <2>3
<1>9. QED
  BY <1>1, <1>2, <1>3, <1>5, <1>6, <1>7, <1>8
     DEF Next, vars, EnqueueFails, Dequeue, DequeueWaitFails, Peek, RemoveById,
         Clear, DestroyEnd

-----------------------------------------------------------------------------
(* The calls that end return one of the documented codes and a task or none. *)
LEMMA OutStep ==
  ASSUME ListInv, out \in [rc : {0, -1, -2, -3}, got : Seq(Task)], [Next]_vars
  PROVE  out' \in [rc : {0, -1, -2, -3}, got : Seq(Task)]
<1>1. ASSUME NEW rc \in {0, -1, -2, -3}, Return(rc, <<>>)
      PROVE  out' \in [rc : {0, -1, -2, -3}, got : Seq(Task)]
  BY <1>1 DEF Return
<1>2. CASE TakeHead
  <2>1. Head(list) \in Task
    BY <1>2, TakeHeadList
  <2>2. QED BY <1>2, <2>1 DEF TakeHead, Return
<1>3. CASE UNCHANGED out
  BY <1>3
<1>4. CASE \E t \in Thread, task \in Task : Enqueue(t, task) \/ EnqueueFails(t, task)
  <2>1. PICK rc \in {0, -1, -2, -3} : Return(rc, <<>>)
    BY <1>4 DEF Enqueue, EnqueueFails, EnqueueCode
  <2>2. QED BY <1>1, <2>1
<1>5. CASE \E t \in Thread : Peek(t)
  <2>1. CASE list = <<>>
    BY <1>1, <1>5, <2>1 DEF Peek
  <2>2. CASE list # <<>>
    <3>1. Head(list) \in Task
      BY <2>2, TailIsUnlink DEF ListInv
    <3>2. out' = [rc |-> 0, got |-> <<Head(list)>>]
      BY <1>5, <2>2, ZenonT(60) DEF Peek, Return
    <3>3. QED BY <3>1, <3>2
  <2>3. QED BY <2>1, <2>2
<1>6. CASE \/ \E t \in Thread : Dequeue(t) \/ DequeueWaitFails(t) \/ Clear(t)
                              \/ Resume(t) \/ ReturnExpired(t)
           \/ \E t \in Thread, id \in TaskId : RemoveById(t, id)
  BY <1>1, <1>2, <1>3, <1>6
     DEF Dequeue, DequeueWaitFails, Clear, Resume, ReturnExpired, RemoveById
<1>7. QED
  BY <1>2, <1>3, <1>4, <1>5, <1>6
     DEF Next, vars, DequeueWait, SpuriousWakeup, Expire, WakeAll, DestroyBegin,
         DestroyEnd

(* Every step of every thread preserves the types. *)
LEMMA TypeStep ==
  ASSUME TypeOK, ListInv, ListInv', ThreadInv', [Next]_vars
  PROVE  TypeOK'
<1>1. blocked_threads' \in Nat
  <2>1. blocked_threads' = Cardinality(Members(pc', Waiting))
    BY DEF ThreadInv, BlockedMatches, Members
  <2>2. QED BY <2>1, MembersFinite
<1>2. out' \in [rc : {0, -1, -2, -3}, got : Seq(Task)]
  BY OutStep DEF TypeOK
<1>3. timed' \in [Thread -> BOOLEAN]
  BY ZenonT(60) DEF TypeOK, Next, vars, Enqueue, EnqueueFails, Dequeue, DequeueWait,
         DequeueWaitFails, Resume, ReturnExpired, LeaveWait, SpuriousWakeup, Expire, Peek,
         RemoveById, Clear, WakeAll, DestroyBegin, DestroyEnd
<1>4. total_enqueued' \in Nat /\ total_dequeued' \in Nat
  BY SMTT(60) DEF TypeOK, Next, vars, stats, TakeHead, Enqueue, EnqueueFails, Dequeue,
         DequeueWait, DequeueWaitFails, Resume, ReturnExpired, SpuriousWakeup,
         Expire, Peek,
         RemoveById, Clear, WakeAll, DestroyBegin, DestroyEnd
<1>5. shutting_down' \in BOOLEAN /\ freed' \in BOOLEAN
  BY ZenonT(60) DEF TypeOK, Next, vars, Enqueue, EnqueueFails, Dequeue, DequeueWait,
         DequeueWaitFails, Resume, ReturnExpired, SpuriousWakeup, Expire, Peek,
         RemoveById, Clear, WakeAll, DestroyBegin, DestroyEnd
<1>6. QED
  BY <1>1, <1>2, <1>3, <1>4, <1>5 DEF TypeOK, ListInv, ThreadInv, State

-----------------------------------------------------------------------------
(* Wake-ups are not lost by any step. *)
LEMMA WakeupStep ==
  ASSUME ListInv, ListInv', ThreadInv, ThreadInv', NoLostWakeup, [Next]_vars
  PROVE  NoLostWakeup'
<1> DEFINE n == Cardinality(Members(pc, Woken))
<1>0. /\ Awake = Members(pc, Woken) /\ Awake' = Members(pc', Woken)
      /\ n \in Nat /\ Cardinality(Members(pc', Woken)) \in Nat
      /\ Len(list) \in Nat /\ Len(list') \in Nat
  BY MembersFinite, LenProperties, Zenon DEF Awake, Members, Woken, ListInv
<1>1. ASSUME Sleepers' \subseteq Sleepers, Len(list') <= Len(list),
             Cardinality(Members(pc', Woken)) >= n
      PROVE  NoLostWakeup'
  BY <1>0, <1>1 DEF NoLostWakeup
<1>2. CASE UNCHANGED <<list, pc>>
  BY <1>0, <1>1, <1>2 DEF Sleepers
<1>3. CASE UNCHANGED pc /\ TakeHead
  <2>1. Len(list') = Len(list) - 1
    BY <1>3, TakeHeadList
  <2>2. QED BY <1>0, <1>1, <1>3, <2>1 DEF Sleepers
<1>4. CASE list' = <<>>
  BY <1>0, <1>4 DEF NoLostWakeup
<1>5. CASE Sleepers' = {}
  BY <1>5 DEF NoLostWakeup
<1>6. CASE \E t \in Thread, task \in Task : Enqueue(t, task)
  <2>1. PICK t \in Thread, task \in Task : Enqueue(t, task)
    BY <1>6
  <2>2. Signal /\ list' = Insert(list, task)
    BY <2>1 DEF Enqueue
  <2>3. Len(list') = Len(list) + 1
    BY <2>2, InsertPrefix DEF ListInv, HighPrefix, Prefix
  <2>4. CASE Sleepers = {}
    BY <1>5, <2>2, <2>4, SignalMoves DEF ThreadInv
  <2>5. CASE Sleepers # {}
    BY <1>0, <2>2, <2>3, <2>5, SignalMoves DEF ThreadInv, NoLostWakeup
  <2>6. QED BY <2>4, <2>5
<1>7. CASE \E t \in Thread : SpuriousWakeup(t) \/ Expire(t)
  <2>1. PICK t \in Thread : SpuriousWakeup(t) \/ Expire(t)
    BY <1>7
  <2>2. /\ pc[t] = "sleeping" /\ UNCHANGED list
        /\ pc[t] \notin Woken /\ "signalled" \in Woken /\ "expired" \notin Woken
    BY <2>1 DEF SpuriousWakeup, Expire, Woken
  <2>3. CASE pc' = [pc EXCEPT ![t] = "signalled"]
    <3>1. Cardinality(Members(pc', Woken)) = n + 1
      BY <2>2, <2>3, MembersAdd, Zenon DEF ThreadInv
    <3>2. Sleepers' \subseteq Sleepers
      BY <2>2, <2>3 DEF ThreadInv, Sleepers
    <3>3. QED BY <1>0, <1>1, <2>2, <3>1, <3>2
  <2>4. CASE pc' = [pc EXCEPT ![t] = "expired"]
    <3>1. Members(pc', Woken) = Members(pc, Woken)
      BY <2>2, <2>4, MembersSame, Zenon DEF ThreadInv
    <3>2. Sleepers' \subseteq Sleepers
      BY <2>2, <2>4 DEF ThreadInv, Sleepers
    <3>3. QED BY <1>0, <1>1, <2>2, <3>1, <3>2
  <2>5. QED BY <2>1, <2>3, <2>4 DEF SpuriousWakeup, Expire
<1>8. CASE \E t \in Thread : Resume(t)
  <2>1. PICK t \in Thread : Resume(t)
    BY <1>8
  <2>2. pc[t] \in Woken /\ pc[t] \in Waiting /\ "idle" \notin Woken
    BY <2>1 DEF Resume, Awake, Woken, Waiting
  <2>3. CASE shutting_down
    <3>1. Sleepers' = {}
      BY <2>1, <2>3 DEF Resume, ThreadInv, ShutdownWakes
    <3>2. QED BY <1>5, <3>1
  <2>4. CASE TakeHead /\ LeaveWait(t)
    <3>1. Sleepers' \subseteq Sleepers
      BY <2>2, <2>4, LeaveMoves, Zenon
    <3>2. Cardinality(Members(pc', Woken)) = n - 1
      <4>1. pc' = [pc EXCEPT ![t] = "idle"]
        BY <2>4 DEF LeaveWait
      <4>2. QED BY <2>2, <4>1, MembersDrop, Zenon DEF ThreadInv
    <3>3. Len(list') = Len(list) - 1
      BY <2>4, TakeHeadList
    <3>4. QED BY <1>0, <3>1, <3>2, <3>3 DEF NoLostWakeup
  <2>5. CASE list = <<>> /\ UNCHANGED list
    BY <1>4, <2>5
  <2>6. QED BY <2>1, <2>3, <2>4, <2>5 DEF Resume
<1>9. CASE \E t \in Thread : ReturnExpired(t)
  <2>1. PICK t \in Thread : ReturnExpired(t)
    BY <1>9
  <2>2. /\ LeaveWait(t) /\ UNCHANGED list /\ pc[t] \in Waiting
        /\ pc[t] \notin Woken /\ "idle" \notin Woken
        /\ pc' = [pc EXCEPT ![t] = "idle"]
    BY <2>1 DEF ReturnExpired, LeaveWait, Waiting, Woken
  <2>3. Sleepers' \subseteq Sleepers
    BY <2>2, LeaveMoves, Zenon
  <2>4. Members(pc', Woken) = Members(pc, Woken)
    BY <2>2, MembersSame, Zenon DEF ThreadInv
  <2>5. QED BY <1>0, <1>1, <2>2, <2>3, <2>4
<1>10. CASE \E t \in Thread : WakeAll(t) \/ DestroyBegin(t)
  <2>1. Broadcast
    BY <1>10 DEF WakeAll, DestroyBegin
  <2>2. QED BY <1>5, <2>1, BroadcastMoves DEF ThreadInv
<1>11. CASE \E t \in Thread, id \in TaskId : RemoveById(t, id)
  <2>1. PICK t \in Thread, id \in TaskId : RemoveById(t, id)
    BY <1>11
  <2>2. CASE task_exists(list, id)
    <3>1. /\ list' = Unlink(list, FirstWithId(list, id))
          /\ UNCHANGED pc
          /\ FirstWithId(list, id) \in 1..Len(list)
      BY <2>1, <2>2, FirstWithIdFound DEF RemoveById, ListInv
    <3>2. Len(list') = Len(list) - 1
      BY <3>1, UnlinkFacts DEF ListInv
    <3>3. QED BY <1>0, <1>1, <3>1, <3>2 DEF Sleepers
  <2>3. CASE ~task_exists(list, id)
    BY <1>2, <2>1, <2>3 DEF RemoveById
  <2>4. QED BY <2>2, <2>3
<1>12. QED
  BY <1>2, <1>3, <1>4, <1>6, <1>7, <1>8, <1>9, <1>10, <1>11
     DEF Next, vars, EnqueueFails, Dequeue, DequeueWait, DequeueWaitFails, Peek,
         Clear, DestroyEnd

-----------------------------------------------------------------------------
(* No two tasks of s have the same id. *)
Distinct(s) ==
  \A i, j \in 1..Len(s) : s[i].task_id = s[j].task_id => i = j

(* Insert puts the task at one position p and moves the others aside. *)
LEMMA InsertPosition ==
  ASSUME NEW s \in Seq(Task), NEW n \in Nat, NEW x \in Task, Prefix(s, n)
  PROVE  /\ Len(Insert(s, x)) = Len(s) + 1
         /\ \E p \in 1..(Len(s) + 1) :
              /\ Insert(s, x)[p] = x
              /\ \A i \in 1..(p - 1) : Insert(s, x)[i] = s[i]
              /\ \A i \in (p + 1)..(Len(s) + 1) : Insert(s, x)[i] = s[i - 1]
<1>0. Len(s) \in Nat /\ n \in 0..Len(s)
  BY LenProperties DEF Prefix
<1>1. CASE x.high
  <2> DEFINE r == InsertAfter(s, n, x)
  <2>1. Insert(s, x) = r
    BY <1>0, <1>1, LeadingHighIs DEF Prefix, Insert
  <2>2. n \in 0..Len(s)
    BY <1>0
  <2>3. Len(r) = Len(s) + 1 /\ r[n + 1] = x
    BY <2>2, InsertAfterFacts, Zenon
  <2>4. \A i \in 1..n : r[i] = s[i]
    BY <2>2, InsertAfterFacts, Zenon
  <2>5. \A i \in (n + 2)..(Len(s) + 1) : r[i] = s[i - 1]
    BY <2>2, InsertAfterFacts, Zenon
  <2>6. n + 1 \in 1..(Len(s) + 1) /\ (n + 1) - 1 = n /\ (n + 1) + 1 = n + 2
    BY <1>0
  <2> HIDE DEF r
  <2>7. QED BY <2>1, <2>3, <2>4, <2>5, <2>6
<1>2. CASE ~x.high
  <2> DEFINE r == Append(s, x)
  <2>1. Insert(s, x) = r
    BY <1>2 DEF Insert
  <2>2. /\ Len(r) = Len(s) + 1
        /\ \A i \in 1..Len(s) : r[i] = s[i]
        /\ r[Len(s) + 1] = x
    BY AppendProperties
  <2> HIDE DEF r
  <2>3. /\ Len(s) + 1 \in 1..(Len(s) + 1) /\ (Len(s) + 1) - 1 = Len(s)
        /\ (Len(s) + 1 + 1)..(Len(s) + 1) = {}
    BY <1>0
  <2>4. QED BY <2>1, <2>2, <2>3
<1>3. QED BY <1>1, <1>2

(* A task with a new id keeps the ids of the list distinct. *)
LEMMA InsertDistinct ==
  ASSUME NEW s \in Seq(Task), NEW n \in Nat, NEW x \in Task, Prefix(s, n),
         Distinct(s), ~task_exists(s, x.task_id)
  PROVE  Distinct(Insert(s, x))
<1> DEFINE r == Insert(s, x)
<1>0. Len(s) \in Nat /\ DOMAIN s = 1..Len(s)
  BY LenProperties
<1>1. Len(r) = Len(s) + 1
  BY InsertPosition, SMTT(60)
<1>2. PICK p \in 1..(Len(s) + 1) :
        /\ r[p] = x
        /\ \A i \in 1..(p - 1) : r[i] = s[i]
        /\ \A i \in (p + 1)..(Len(s) + 1) : r[i] = s[i - 1]
  BY InsertPosition, SMTT(60)
<1> HIDE DEF r
<1>3. \A k \in 1..Len(s) : s[k].task_id # x.task_id
  BY <1>0 DEF task_exists
<1> DEFINE old(i) == IF i < p THEN i ELSE i - 1
<1>4. ASSUME NEW i \in 1..(Len(s) + 1), i # p
      PROVE  old(i) \in 1..Len(s) /\ r[i] = s[old(i)]
  <2>1. CASE i < p
    BY <1>0, <1>2, <2>1
  <2>2. CASE i > p
    BY <1>0, <1>2, <2>2
  <2>3. QED BY <1>4, <2>1, <2>2
<1>5. ASSUME NEW i \in 1..(Len(s) + 1), NEW j \in 1..(Len(s) + 1),
             i # p, j # p, old(i) = old(j)
      PROVE  i = j
  BY <1>0, <1>5
<1> HIDE DEF old
<1>6. ASSUME NEW i \in 1..(Len(s) + 1), NEW j \in 1..(Len(s) + 1),
             r[i].task_id = r[j].task_id
      PROVE  i = j
  <2>1. CASE i = p /\ j # p
    BY <1>2, <1>3, <1>4, <1>6, <2>1
  <2>2. CASE i # p /\ j = p
    BY <1>2, <1>3, <1>4, <1>6, <2>2
  <2>3. CASE i # p /\ j # p
    BY <1>4, <1>5, <1>6, <2>3 DEF Distinct
  <2>4. QED BY <2>1, <2>2, <2>3
<1>7. QED BY <1>1, <1>6 DEF Distinct, r

(* Taking a node out keeps the ids of the list distinct. *)
LEMMA UnlinkDistinct ==
  ASSUME NEW s \in Seq(Task), NEW k \in 1..Len(s), Distinct(s)
  PROVE  Distinct(Unlink(s, k))
<1> DEFINE r == Unlink(s, k)
<1>0. Len(s) \in Nat
  BY LenProperties
<1>1. /\ Len(r) = Len(s) - 1
      /\ \A i \in 1..(Len(s) - 1) : r[i] = IF i < k THEN s[i] ELSE s[i + 1]
  BY UnlinkFacts, Zenon
<1> HIDE DEF r
<1> DEFINE old(i) == IF i < k THEN i ELSE i + 1
<1>2. ASSUME NEW i \in 1..(Len(s) - 1)
      PROVE  old(i) \in 1..Len(s) /\ r[i] = s[old(i)]
  BY <1>0, <1>1
<1>3. ASSUME NEW i \in 1..(Len(s) - 1), NEW j \in 1..(Len(s) - 1),
             old(i) = old(j)
      PROVE  i = j
  BY <1>0, <1>3
<1> HIDE DEF old
<1>4. ASSUME NEW i \in 1..(Len(s) - 1), NEW j \in 1..(Len(s) - 1),
             r[i].task_id = r[j].task_id
      PROVE  i = j
  <2>1. /\ old(i) \in 1..Len(s) /\ r[i] = s[old(i)]
        /\ old(j) \in 1..Len(s) /\ r[j] = s[old(j)]
    BY <1>2, Zenon
  <2>2. s[old(i)].task_id = s[old(j)].task_id
    BY <1>4, <2>1, Zenon
  <2>3. old(i) = old(j)
    BY <2>1, <2>2, ZenonT(60) DEF Distinct
  <2>4. QED BY <1>3, <2>3, Zenon
<1>5. QED BY <1>1, <1>4 DEF Distinct, r

(* Every step of every thread preserves capacity and distinct ids. *)
LEMMA LimitsStep ==
  ASSUME ListInv, WithinLimits, [Next]_vars
  PROVE  WithinLimits'
<1>0. /\ WithinLimits <=> /\ MaxSize > 0 => Len(list) <= MaxSize
                          /\ ~AllowDuplicates => Distinct(list)
      /\ WithinLimits' <=> /\ MaxSize > 0 => Len(list') <= MaxSize
                           /\ ~AllowDuplicates => Distinct(list')
      /\ MaxSize \in Nat /\ Len(list) \in Nat
      /\ Prefix(list, high_priority_count)
  BY QueueAssumption, LenProperties
     DEF WithinLimits, Distinct, ListInv, HighPrefix, Prefix
<1>1. CASE UNCHANGED list
  BY <1>1 DEF WithinLimits
<1>2. ASSUME NEW k \in 1..Len(list), list' = Unlink(list, k)
      PROVE  WithinLimits'
  <2>1. Len(list') = Len(list) - 1
    BY <1>2, UnlinkFacts DEF ListInv
  <2>2. Distinct(list) => Distinct(list')
    BY <1>2, UnlinkDistinct DEF ListInv
  <2>3. QED BY <1>0, <2>1, <2>2
<1>3. CASE TakeHead
  <2>1. list' = Unlink(list, 1) /\ 1 \in 1..Len(list)
    BY <1>3, TailIsUnlink DEF TakeHead, ListInv
  <2>2. QED BY <1>2, <2>1
<1>4. CASE \E t \in Thread, task \in Task : Enqueue(t, task)
  <2>1. PICK t \in Thread, task \in Task : Enqueue(t, task)
    BY <1>4
  <2>2. /\ list' = Insert(list, task)
        /\ MaxSize > 0 => ~(Len(list) >= MaxSize)
        /\ ~AllowDuplicates => ~task_exists(list, task.task_id)
    BY <2>1 DEF Enqueue, EnqueueCode, IsFull
  <2>3. Len(list') = Len(list) + 1
    BY <1>0, <2>2, InsertPosition DEF ListInv
  <2>4. ~AllowDuplicates => Distinct(list')
    BY <1>0, <2>2, InsertDistinct DEF ListInv
  <2>5. QED BY <1>0, <2>2, <2>3, <2>4
<1>5. CASE \E t \in Thread, id \in TaskId : RemoveById(t, id)
  <2>1. PICK t \in Thread, id \in TaskId : RemoveById(t, id)
    BY <1>5
  <2>2. CASE task_exists(list, id)
    BY <1>2, <2>1, <2>2, FirstWithIdFound DEF RemoveById, ListInv
  <2>3. CASE ~task_exists(list, id)
    BY <1>1, <2>1, <2>3 DEF RemoveById
  <2>4. QED BY <2>2, <2>3
<1>6. CASE \E t \in Thread : Clear(t)
  <2>1. list' = <<>>
    BY <1>6 DEF Clear
  <2>2. Len(list') = 0 /\ 1..0 = {}
    BY <2>1
  <2>3. QED BY <1>0, <2>2 DEF Distinct
<1>7. QED
  BY <1>1, <1>3, <1>4, <1>5, <1>6
     DEF Next, vars, EnqueueFails, Dequeue, DequeueWait, DequeueWaitFails,
         Resume, ReturnExpired,
         SpuriousWakeup, Expire, Peek, WakeAll, DestroyBegin, DestroyEnd

-----------------------------------------------------------------------------
(* The inductive invariant of the queue. *)
Inv == TypeOK /\ ListInv /\ ThreadInv /\ NoLostWakeup /\ WithinLimits

(* A queue that has just been created satisfies the invariant. *)
LEMMA InvInit == Init => Inv
<1> SUFFICES ASSUME Init PROVE Inv
  OBVIOUS
<1>1. TypeOK
  <2>1. <<>> \in Seq(Task)
    OBVIOUS
  <2>2. out \in [rc : {0, -1, -2, -3}, got : Seq(Task)]
    BY <2>1 DEF Init
  <2>3. /\ pc \in [Thread -> Waiting \cup {"idle"}]
        /\ timed \in [Thread -> BOOLEAN]
    BY DEF Init
  <2>4. QED BY <2>1, <2>2, <2>3, ZenonT(60) DEF Init, TypeOK
<1>2. ListInv /\ WithinLimits
  BY QueueAssumption DEF Init, ListInv, HighPrefix, WithinLimits
<1>3. ThreadInv /\ NoLostWakeup
  <2>1. {t \in Thread : pc[t] \in Waiting} = {} /\ Sleepers = {}
    BY DEF Init, Waiting, Sleepers
  <2>2. QED
    BY <2>1, FS_EmptySet, Zenon
       DEF Init, ThreadInv, BlockedMatches, ShutdownWakes, NoLostWakeup, State
<1>4. QED BY <1>1, <1>2, <1>3 DEF Inv

(* Every step of every thread preserves the invariant. *)
LEMMA InvStep == Inv /\ [Next]_vars => Inv'
<1> SUFFICES ASSUME Inv, [Next]_vars PROVE Inv'
  OBVIOUS
<1>1. ListInv' /\ ThreadInv'
  BY ListInvStep, ThreadInvStep DEF Inv
<1>2. TypeOK'
  BY <1>1, TypeStep DEF Inv
<1>3. NoLostWakeup'
  BY <1>1, WakeupStep DEF Inv
<1>4. WithinLimits'
  BY LimitsStep DEF Inv
<1>5. QED BY <1>1, <1>2, <1>3, <1>4 DEF Inv

(* Every reachable state satisfies the inductive invariant. *)
THEOREM InvHolds == Spec => []Inv
BY InvInit, InvStep, PTL DEF Spec

(***************************************************************************)
(* The fields of the queue keep their types; in particular neither         *)
(* high_priority_count nor blocked_threads, decremented without a test,    *)
(* ever goes below zero.                                                   *)
(***************************************************************************)
THEOREM TypeCorrect == Spec => []TypeOK
<1>1. Inv => TypeOK
  BY DEF Inv
<1>2. QED BY <1>1, InvHolds, PTL

(***************************************************************************)
(* The high-priority tasks are always exactly the first                    *)
(* high_priority_count nodes of the list.                                  *)
(***************************************************************************)
THEOREM HighPrefixHolds == Spec => []HighPrefix
<1>1. Inv => HighPrefix
  BY DEF Inv, ListInv
<1>2. QED BY <1>1, InvHolds, PTL

(* The capacity and the ban on duplicates are respected for ever. *)
THEOREM WithinLimitsHolds == Spec => []WithinLimits
<1>1. Inv => WithinLimits
  BY DEF Inv
<1>2. QED BY <1>1, InvHolds, PTL

(***************************************************************************)
(* While a consumer sleeps, as many woken consumers are on their way as    *)
(* there are queued tasks: for any number of threads, deadlines, spurious  *)
(* wake-ups, cancellations and a destroy, no wake-up is lost.              *)
(***************************************************************************)
THEOREM NoLostWakeupHolds == Spec => []NoLostWakeup
<1>1. Inv => NoLostWakeup
  BY DEF Inv
<1>2. QED BY <1>1, InvHolds, PTL

(***************************************************************************)
(* blocked_threads is exact and a queue being destroyed has no sleeper.    *)
(***************************************************************************)
THEOREM WaitersCounted == Spec => [](BlockedMatches /\ ShutdownWakes)
<1>1. Inv => BlockedMatches /\ ShutdownWakes
  BY DEF Inv, ThreadInv
<1>2. QED BY <1>1, InvHolds, PTL
=============================================================================
