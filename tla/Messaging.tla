------------------------------ MODULE Messaging ------------------------------
(***************************************************************************)
(* The two ways processes exchange messages: the cluster head and its      *)
(* ranks, which call MPI themselves (ClusterHead), and the transport layer *)
(* with its backends (Transport).  They share no state, so a behaviour of  *)
(* both says nothing that the behaviours of each do not: a behaviour is    *)
(* one of the layer chosen at the start.                                   *)
(***************************************************************************)
EXTENDS ClusterHead, Transport

VARIABLE layer

messagingVars == <<layer, vars, netVars>>

(* The layer that is not used starts in one of its initial states. *)
MessagingInit ==
  /\ layer \in {"head", "transport"} /\ Init /\ TransportInit
  /\ layer = "head" => backend = "zmq" /\ workers = <<>>
  /\ layer = "transport" => limits = "ok"

HeadOnly(A) == layer = "head" /\ A /\ UNCHANGED <<layer, netVars>>
TransportOnly(A) == layer = "transport" /\ A /\ UNCHANGED <<layer, vars>>

MessagingNext == HeadOnly(Next) \/ TransportOnly(TransportNext)

(* The operating system schedules every process; every main loop polls and
   receives for as long as it runs. *)
MessagingFairness ==
  /\ WF_messagingVars(HeadOnly(HeadStep))
  /\ \A r \in Rank : WF_messagingVars(HeadOnly(RankStep(r)))
  /\ \A x \in Node : WF_messagingVars(TransportOnly(transport_recv(x) \/ Proceed(x)))

MessagingSpec == MessagingInit /\ [][MessagingNext]_messagingVars /\ MessagingFairness

(***************************************************************************)
(* Type invariant of both layers: next_worker is a rank, the head's queue  *)
(* and channels are within their bounds; the transport's registry gives a  *)
(* worker one rank.                                                        *)
(***************************************************************************)
MessagingTypeOK == TypeOK /\ TransportTypeOK
=============================================================================
