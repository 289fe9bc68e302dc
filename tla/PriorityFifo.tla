---------------------------- MODULE PriorityFifo ----------------------------
(***************************************************************************)
(* What task_queue.h promises of a queue, without its representation: two  *)
(* first-in-first-out lanes, and a consumer is always given the oldest     *)
(* high-priority task, or the oldest normal one when there is none         *)
(* ("FIFO ordering within priority levels", "High priority tasks jump      *)
(* ahead of normal tasks").  A task can also be cancelled by id, and all   *)
(* tasks dropped at once.                                                  *)
(***************************************************************************)
EXTENDS Integers, Sequences

CONSTANT TaskId

VARIABLES high,     \* waiting high-priority tasks, oldest first
          normal,   \* waiting normal-priority tasks, oldest first
          handed    \* <<t>>: t was copied to the caller of the last call

vars == <<high, normal, handed>>

Task == [task_id : TaskId, high : BOOLEAN]

Init == high = <<>> /\ normal = <<>> /\ handed = <<>>

Add(t) ==
  /\ IF t.high THEN high' = Append(high, t) /\ UNCHANGED normal
               ELSE normal' = Append(normal, t) /\ UNCHANGED high
  /\ handed' = <<>>

Take ==
  \/ /\ high # <<>>
     /\ handed' = <<Head(high)>>
     /\ high' = Tail(high)
     /\ UNCHANGED normal
  \/ /\ high = <<>> /\ normal # <<>>
     /\ handed' = <<Head(normal)>>
     /\ normal' = Tail(normal)
     /\ UNCHANGED high

(* Look at the task that Take would hand over. *)
Look ==
  /\ high \o normal # <<>>
  /\ handed' = <<Head(high \o normal)>>
  /\ UNCHANGED <<high, normal>>

Has(lane, id) == \E i \in DOMAIN lane : lane[i].task_id = id

(* The lane without its oldest task with this id. *)
Without(lane, id) ==
  LET i == CHOOSE i \in DOMAIN lane :
             lane[i].task_id = id /\ \A j \in 1..(i - 1) : lane[j].task_id # id
  IN SubSeq(lane, 1, i - 1) \o SubSeq(lane, i + 1, Len(lane))

(* Cancel the task with this id that would be handed over first. *)
Cancel(id) ==
  /\ \/ Has(high, id) /\ high' = Without(high, id) /\ UNCHANGED normal
     \/ /\ ~Has(high, id) /\ Has(normal, id)
        /\ normal' = Without(normal, id)
        /\ UNCHANGED high
  /\ handed' = <<>>

DropAll == high' = <<>> /\ normal' = <<>> /\ handed' = <<>>

(* A call that fails, or that only reads, hands nothing over. *)
Nothing == handed' = <<>> /\ UNCHANGED <<high, normal>>

Next ==
  \/ Nothing
  \/ \E t \in Task : Add(t)
  \/ Take
  \/ Look
  \/ \E id \in TaskId : Cancel(id)
  \/ DropAll

Spec == Init /\ [][Next]_vars
=============================================================================
