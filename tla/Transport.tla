----------------------------- MODULE Transport ------------------------------
(***************************************************************************)
(* src/net: one coordinator, node 0, and its workers over the ZeroMQ or    *)
(* the MPI backend of transport_init.                                      *)
(*                                                                         *)
(* ZeroMQ (external): a message is one or more frames and travels whole;   *)
(* zmq_recv reads one frame, and what is not read of a message stays next  *)
(* in the stream; a zmq_send that fails between two frames leaves the      *)
(* message open, and the next frame sent on the socket continues it.  On   *)
(* the coordinator's ROUTER socket the first frame of a message is the     *)
(* identity it goes to, and is put in front of what arrives.  Destroying a *)
(* context waits, by default for ever, until what the sockets have sent is *)
(* with its peer; a ROUTER drops what is for a peer that is gone, a DEALER *)
(* keeps it for the coordinator to come back.                              *)
(*                                                                         *)
(* MPI (external): headers and payloads of a pair of ranks are two FIFO    *)
(* channels; MPI_Send of a kind that MPI buffers (eager) returns at once,  *)
(* one of another kind when it has been received.                          *)
(*                                                                         *)
(* All payloads have the same length, which is that of no header and no    *)
(* identity: a payload taken for another is accepted, any other confusion  *)
(* of frames is noticed by its length.                                     *)
(***************************************************************************)
EXTENDS Integers, SequencesExt, FiniteSetsExt

CONSTANTS Worker,       \* ranks of the workers, 1..N
          MAX_WORKERS,
          ZmqSends, MpiSends,   \* bounds on the messages sent; a broadcast may pass it
          MaxFaults     \* bound on the failed sends and allocations

ASSUME TransportAssumption ==
  Worker \subseteq Nat \ {0} /\ MAX_WORKERS \in Nat /\ {ZmqSends, MpiSends} \subseteq Nat /\ MaxFaults \in Nat

VARIABLES backend, eager,
          up,        \* nodes that have not shut the transport down
          pipe,      \* ZeroMQ: frames a node can read
          half,      \* ZeroMQ: frames of the message a socket has open
          hdrs, pays,  \* MPI: the channels of a pair of ranks
          workers,   \* the coordinator's registry: identity frames
          call,      \* the call each node is in
          posted,      \* messages whose send returned 0
          got,       \* messages accepted by recv
          n,         \* messages so far
          faults     \* <<sender, receiver, what failed>>

netVars == <<backend, eager, up, pipe, half, hdrs, pays, workers, call, posted, got, n, faults>>

MaxSends == IF backend = "zmq" THEN ZmqSends ELSE MpiSends
Node == {0} \cup Worker
Pair == {<<s, d>> \in Node \X Node : (s = 0) # (d = 0)}

Id(w) == [k |-> "id", of |-> w]
Hdr(m) == [k |-> "hdr", of |-> m]
Pay(m) == [k |-> "pay", of |-> m]

NoMsg == [id |-> 0, src |-> 0, dst |-> 0, type |-> "none", pay |-> FALSE]
Msg(s, d, type, pay) == [id |-> n + 1, src |-> s, dst |-> d, type |-> type, pay |-> pay]
Idle == [at |-> "idle", msg |-> NoMsg, todo |-> <<>>]

(* transport_init; identities are unique. *)
transport_init_zmq == backend = "zmq" /\ eager = {}
transport_init_mpi == backend = "mpi" /\ eager \in {{}, {"hdr"}, {"hdr", "pay"}}

(***************************************************************************)
(* A behaviour starts after transport_init or, to leave its messages to    *)
(* what follows, when the first workers have registered.                   *)
(***************************************************************************)
Registry == [i \in 1..Min({MAX_WORKERS, Cardinality(Worker)}) |->
               Id(SetToSortSeq(Worker, <)[i])]

TransportInit ==
  /\ transport_init_zmq \/ transport_init_mpi
  /\ up = Node
  /\ pipe = [x \in Node |-> <<>>] /\ half = [x \in Node |-> <<>>]
  /\ hdrs = [p \in Pair |-> <<>>] /\ pays = [p \in Pair |-> <<>>]
  /\ workers \in {<<>>} \cup (IF backend = "zmq" THEN {Registry} ELSE {})
  /\ call = [x \in Node |-> Idle]
  /\ posted = {} /\ got = {} /\ n = 0 /\ faults = <<>>

Free(x) == x \in up /\ call[x] = Idle
Fault(p) == Len(faults) < MaxFaults /\ faults' = Append(faults, p)

-----------------------------------------------------------------------------
(* ZeroMQ *)

(* A finished message leaves socket s; one to nobody known is dropped, one
   for a coordinator that is gone stays. *)
Deliver(s, frames) ==
  IF s # 0 THEN pipe' = [pipe EXCEPT ![0] = IF 0 \in up THEN @ \o <<Id(s)>> \o frames ELSE @]
  ELSE IF frames[1].k = "id" /\ frames[1].of \in up
       THEN pipe' = [pipe EXCEPT ![frames[1].of] = @ \o Tail(frames)]
       ELSE UNCHANGED pipe

(* transport_zmq_send of m; to is the identity frame the coordinator sends first. *)
Frames(m, to) == to \o <<Hdr(m)>> \o (IF m.pay THEN <<Pay(m)>> ELSE <<>>)

ZmqSend(s, m, to) ==
  \/ /\ Deliver(s, half[s] \o Frames(m, to))
     /\ half' = [half EXCEPT ![s] = <<>>]
     /\ posted' = posted \cup {m} /\ UNCHANGED faults
  \/ /\ Fault(<<s, m.dst, "send">>)
     /\ \E k \in 0..Len(Frames(m, to)) - 1 :
          half' = [half EXCEPT ![s] = @ \o SubSeq(Frames(m, to), 1, k)]
     /\ UNCHANGED <<pipe, posted>>

(* Mutant of transport_zmq_send: the first worker gets everything. *)
zmq_send_first(s, kind) ==
  /\ backend = "zmq" /\ Free(s) /\ n < MaxSends
  /\ n' = n + 1
  /\ \/ s = 0 /\ kind.type = "task"
        /\ \E r \in DOMAIN workers :
             ZmqSend(0, Msg(0, workers[r].of, kind.type, kind.pay), <<workers[1]>>)
     \/ s # 0 /\ kind.type # "task" /\ ZmqSend(s, Msg(s, 0, kind.type, kind.pay), <<>>)
  /\ UNCHANGED <<backend, eager, up, hdrs, pays, workers, call, got>>

(***************************************************************************)
(* The coordinator sends batches; workers register, report results and     *)
(* send heartbeats, which have no payload.  A rank may stand for a frame   *)
(* that was taken for an identity.                                         *)
(***************************************************************************)
Kinds == {[type |-> type, pay |-> type # "heartbeat"] :
            type \in {"task", "register", "result", "heartbeat"}}

transport_zmq_send(s, kind) ==
  /\ backend = "zmq" /\ Free(s) /\ n < MaxSends
  /\ n' = n + 1
  /\ \/ s = 0 /\ kind.type = "task"
        /\ \E r \in DOMAIN workers :
             LET d == IF workers[r].k = "id" THEN workers[r].of ELSE 0
             IN ZmqSend(0, Msg(0, d, kind.type, kind.pay), <<workers[r]>>)
     \/ s # 0 /\ kind.type # "task" /\ ZmqSend(s, Msg(s, 0, kind.type, kind.pay), <<>>)
  /\ UNCHANGED <<backend, eager, up, hdrs, pays, workers, call, got>>

(***************************************************************************)
(* Under worker_lock broadcast calls transport_zmq_send, which locks       *)
(* worker_lock: with a worker to send to, neither returns.                 *)
(***************************************************************************)
transport_zmq_broadcast ==
  /\ backend = "zmq" /\ Free(0) /\ workers # <<>>
  /\ call' = [call EXCEPT ![0].at = "relock"]
  /\ UNCHANGED <<backend, eager, up, pipe, half, hdrs, pays, workers, posted, got, n, faults>>

(* The registry: known identities keep their rank, a full one takes no more. *)
zmq_register_worker(identity) ==
  workers' = IF identity \in ToSet(workers) \/ Len(workers) >= MAX_WORKERS
             THEN workers ELSE Append(workers, identity)

(* The rank given to a message from identity; 0 when none is. *)
RankOf(identity, ws) == Max({0} \cup {i \in DOMAIN ws : ws[i] = identity})

(* Mutant of Parse: a message without payload is taken for a bad one. *)
ParsePayloadOnly(s, skip) ==
  IF Len(s) <= skip + 1 THEN [used |-> Len(s), ok |-> FALSE]
  ELSE IF s[skip + 1].k # "hdr" \/ ~s[skip + 1].of.pay THEN [used |-> skip + 1, ok |-> FALSE]
  ELSE [used |-> skip + 2, ok |-> s[skip + 2].k = "pay"]

(***************************************************************************)
(* transport_zmq_recv takes used frames off the stream: the coordinator's  *)
(* starts with an identity, whatever frame that is.  It gives up on a      *)
(* header or a payload of the wrong length, and on a stream that ends      *)
(* before the timeout, without reading the rest of the message.            *)
(***************************************************************************)
Parse(s, skip) ==
  LET h == s[skip + 1] IN
  IF Len(s) <= skip THEN [used |-> Len(s), ok |-> FALSE]
  ELSE IF h.k # "hdr" \/ (h.of.pay /\ Len(s) < skip + 2) THEN [used |-> skip + 1, ok |-> FALSE]
  ELSE IF ~h.of.pay THEN [used |-> skip + 1, ok |-> TRUE]
  ELSE [used |-> skip + 2, ok |-> s[skip + 2].k = "pay"]

Accept(x, m, payload, rank) ==
  got' = got \cup {[msg |-> m, by |-> x, payload |-> payload, rank |-> rank]}

transport_zmq_recv(x) ==
  LET skip == IF x = 0 THEN 1 ELSE 0
      p == Parse(pipe[x], skip)
      m == pipe[x][skip + 1].of
  IN
  /\ backend = "zmq" /\ Free(x) /\ pipe[x] # <<>>
  /\ \/ /\ pipe' = [pipe EXCEPT ![x] = SubSeq(@, p.used + 1, Len(@))]
        /\ IF p.ok
           THEN /\ IF x = 0 /\ m.type = "register"
                   THEN zmq_register_worker(pipe[0][1]) ELSE UNCHANGED workers
                /\ Accept(x, m, IF m.pay THEN pipe[x][p.used].of.id ELSE m.id,
                          IF x = 0 THEN RankOf(pipe[0][1], workers') ELSE 0)
           ELSE UNCHANGED <<workers, got>>
        /\ UNCHANGED faults
     \/ /\ Len(pipe[x]) > skip /\ pipe[x][skip + 1].k = "hdr"   \* message_alloc fails
        /\ Fault(<<m.src, x, "alloc">>)
        /\ pipe' = [pipe EXCEPT ![x] = SubSeq(@, skip + 2, Len(@))]
        /\ UNCHANGED <<workers, got>>
  /\ UNCHANGED <<backend, eager, up, half, hdrs, pays, call, posted, n>>

(***************************************************************************)
(* What x has not read is lost.  A worker sends a last header, if there is *)
(* memory for it; zmq_ctx_destroy then waits for the coordinator, if that  *)
(* is gone.                                                                *)
(***************************************************************************)
transport_zmq_shutdown(x) ==
  /\ backend = "zmq" /\ Free(x)
  /\ LET m == Msg(x, 0, "shutdown", FALSE)
         left == [pipe EXCEPT ![x] = <<>>]
     IN
     \/ x = 0 /\ pipe' = left /\ UNCHANGED <<posted, n, faults>>
     \/ /\ x # 0 /\ n < MaxSends
        /\ n' = n + 1 /\ posted' = posted \cup {m}
        /\ pipe' = IF 0 \in up
                   THEN [left EXCEPT ![0] = @ \o <<Id(x)>> \o half[x] \o <<Hdr(m)>>]
                   ELSE left
        /\ UNCHANGED faults
     \/ /\ x # 0 /\ Fault(<<x, 0, "alloc">>)
        /\ pipe' = left /\ UNCHANGED <<posted, n>>
  /\ half' = [half EXCEPT ![x] = <<>>]
  /\ up' = up \ {x}
  /\ call' = IF x = 0 \/ 0 \in up THEN call ELSE [call EXCEPT ![x].at = "linger"]
  /\ UNCHANGED <<backend, eager, hdrs, pays, workers, got>>

-----------------------------------------------------------------------------
(* MPI *)

(* mpi_send: the header, and then a step of its own for the payload. *)
Sending(s, m, at, todo) == call' = [call EXCEPT ![s] = [at |-> at, msg |-> m, todo |-> todo]]

SendHeader(s, d, type, pay, todo) ==
  LET m == Msg(s, d, type, pay) IN
  /\ n' = n + 1
  /\ \/ /\ hdrs' = [hdrs EXCEPT ![s, d] = Append(@, m)]
        /\ \/ "hdr" \notin eager /\ Sending(s, m, "header", todo) /\ UNCHANGED posted
           \/ "hdr" \in eager /\ pay /\ Sending(s, m, "payload", todo) /\ UNCHANGED posted
           \/ "hdr" \in eager /\ ~pay /\ Sending(s, NoMsg, "idle", todo)
              /\ posted' = posted \cup {m}
        /\ UNCHANGED faults
     \/ /\ Fault(<<s, d, "send">>)
        /\ Sending(s, NoMsg, "idle", todo)
        /\ UNCHANGED <<hdrs, posted>>
  /\ UNCHANGED <<backend, eager, up, pipe, half, pays, workers, got>>

mpi_send(s, pay) ==
  /\ backend = "mpi" /\ Free(s) /\ n < MaxSends
  /\ \E d \in Node : <<s, d>> \in Pair /\ SendHeader(s, d, "task", pay, <<>>)

(* mpi_broadcast: mpi_send to each rank in turn; errors are only counted. *)
mpi_broadcast ==
  /\ backend = "mpi" /\ Free(0) /\ n < MaxSends
  /\ call' = [call EXCEPT ![0].todo = SetToSortSeq(Worker, <)]
  /\ UNCHANGED <<backend, eager, up, pipe, half, hdrs, pays, workers, posted, got, n, faults>>

BroadcastNext ==
  /\ call[0].at = "idle" /\ call[0].todo # <<>>
  /\ SendHeader(0, Head(call[0].todo), "task", TRUE, Tail(call[0].todo))

Ended(x) == call' = [call EXCEPT ![x].at = "idle", ![x].msg = NoMsg]

(* The header has been received. *)
HeaderReturns(s) ==
  LET m == call[s].msg IN
  /\ call[s].at = "header" /\ m \notin ToSet(hdrs[s, m.dst])
  /\ IF m.pay THEN call' = [call EXCEPT ![s].at = "payload"] /\ UNCHANGED posted
              ELSE Ended(s) /\ posted' = posted \cup {m}
  /\ UNCHANGED <<backend, eager, up, pipe, half, hdrs, pays, workers, got, n, faults>>

SendPayload(s) ==
  LET m == call[s].msg IN
  /\ call[s].at = "payload"
  /\ \/ /\ pays' = [pays EXCEPT ![s, m.dst] = Append(@, m)]
        /\ IF "pay" \in eager THEN Ended(s) /\ posted' = posted \cup {m}
           ELSE call' = [call EXCEPT ![s].at = "rendezvous"] /\ UNCHANGED posted
        /\ UNCHANGED faults
     \/ Fault(<<s, m.dst, "send">>) /\ Ended(s) /\ UNCHANGED <<pays, posted>>
  /\ UNCHANGED <<backend, eager, up, pipe, half, hdrs, workers, got, n>>

(* The payload has been received. *)
PayloadReturns(s) ==
  LET m == call[s].msg IN
  /\ call[s].at = "rendezvous" /\ m \notin ToSet(pays[s, m.dst])
  /\ Ended(s) /\ posted' = posted \cup {m}
  /\ UNCHANGED <<backend, eager, up, pipe, half, hdrs, pays, workers, got, n, faults>>

(***************************************************************************)
(* mpi_recv: the probe finds a header of any source; its payload, if any,  *)
(* is awaited from that source and without a timeout, unless there is no   *)
(* memory for it.                                                          *)
(***************************************************************************)
RecvHeader(s, d) ==
  LET m == Head(hdrs[s, d]) IN
  /\ backend = "mpi" /\ Free(d) /\ hdrs[s, d] # <<>>
  /\ hdrs' = [hdrs EXCEPT ![s, d] = Tail(@)]
  /\ \/ /\ IF m.pay THEN /\ call' = [call EXCEPT ![d] = [Idle EXCEPT !.at = "wait", !.msg = m]]
                         /\ UNCHANGED got
           ELSE Accept(d, m, m.id, s) /\ UNCHANGED call
        /\ UNCHANGED faults
     \/ Fault(<<s, d, "alloc">>) /\ UNCHANGED <<call, got>>
  /\ UNCHANGED <<backend, eager, up, pipe, half, pays, workers, posted, n>>

(* Mutant of RecvPayload: a payload of any source is taken. *)
RecvPayloadAny(d) ==
  LET m == call[d].msg IN
  /\ call[d].at = "wait"
  /\ \E s \in Node : /\ <<s, d>> \in Pair /\ pays[s, d] # <<>>
                     /\ pays' = [pays EXCEPT ![s, d] = Tail(@)]
                     /\ Accept(d, m, Head(pays[s, d]).id, m.src)
  /\ Ended(d)
  /\ UNCHANGED <<backend, eager, up, pipe, half, hdrs, workers, posted, n, faults>>

RecvPayload(d) ==
  LET m == call[d].msg IN
  /\ call[d].at = "wait" /\ pays[m.src, d] # <<>>
  /\ pays' = [pays EXCEPT ![m.src, d] = Tail(@)]
  /\ Accept(d, m, Head(pays[m.src, d]).id, m.src)
  /\ Ended(d)
  /\ UNCHANGED <<backend, eager, up, pipe, half, hdrs, workers, posted, n, faults>>

(* mpi_shutdown only frees; MPI itself goes on. *)
mpi_shutdown(x) ==
  /\ backend = "mpi" /\ Free(x)
  /\ up' = up \ {x}
  /\ UNCHANGED <<backend, eager, pipe, half, hdrs, pays, workers, call, posted, got, n, faults>>

-----------------------------------------------------------------------------
transport_send(x) ==
  (\E kind \in Kinds : transport_zmq_send(x, kind)) \/ (\E pay \in BOOLEAN : mpi_send(x, pay))
transport_broadcast == transport_zmq_broadcast \/ mpi_broadcast
transport_shutdown(x) == transport_zmq_shutdown(x) \/ mpi_shutdown(x)

(* Receiving, and the rest of a call that has begun. *)
transport_recv(x) ==
  \/ transport_zmq_recv(x)
  \/ \E s \in Node : <<s, x>> \in Pair /\ RecvHeader(s, x)
Proceed(x) ==
  \/ HeaderReturns(x) \/ SendPayload(x) \/ PayloadReturns(x)
  \/ RecvPayload(x)
  \/ x = 0 /\ BroadcastNext

TransportNext ==
  \/ \E x \in Node : transport_send(x) \/ transport_recv(x) \/ Proceed(x) \/ transport_shutdown(x)
  \/ transport_broadcast

-----------------------------------------------------------------------------
(***************************************************************************)
(* Type invariant: the registry is within MAX_WORKERS and gives a worker   *)
(* one rank (zmq_register_worker), and nodes are in calls of their backend. *)
(***************************************************************************)
TransportTypeOK ==
  /\ up \subseteq Node /\ posted \subseteq [id : 1..n, src : Node, dst : Node,
       type : {"task", "register", "result", "heartbeat", "shutdown"}, pay : BOOLEAN]
  /\ Len(workers) <= MAX_WORKERS /\ IsInjective(workers)
  /\ \A x \in Node : call[x].at \in IF backend = "zmq" THEN {"idle", "relock", "linger"}
                     ELSE {"idle", "header", "payload", "rendezvous", "wait"}

FaultyPairs == {<<f[1], f[2]>> : f \in ToSet(faults)}

(***************************************************************************)
(* What is accepted was sent like that: no message is accepted twice; one  *)
(* that the coordinator accepts under the rank of a worker was sent by     *)
(* that worker, whatever sends were cut and however far the receiver has   *)
(* got out of step with the frames; and it carries its own payload, except *)
(* that over MPI it may carry that of another message of the same sender,  *)
(* once a send of a payload or an allocation for one has failed between    *)
(* the two (transport_zmq_recv, mpi_send, mpi_recv).                       *)
(***************************************************************************)
ReceivedAsSent ==
  /\ \A g, h \in got : g.msg = h.msg => g = h
  /\ \A g \in got : g.by = 0 /\ g.rank > 0 =>
       IF backend = "mpi" THEN g.rank = g.msg.src
       ELSE workers[g.rank].k = "id" => workers[g.rank].of = g.msg.src
  /\ \A g \in got : \/ g.payload = g.msg.id
                    \/ backend = "mpi" /\ <<g.msg.src, g.by>> \in FaultyPairs

(***************************************************************************)
(* A worker may accept a message meant for another one, but never more     *)
(* than one for each send of the coordinator that failed: the message      *)
(* after the cut goes to the destination of the cut one, and the next is   *)
(* on its way again (transport_zmq_send).                                  *)
(***************************************************************************)
MisdirectedPerFault ==
  Cardinality({g \in got : g.by # g.msg.dst})
    <= Cardinality({i \in DOMAIN faults : faults[i][1] = 0 /\ faults[i][3] = "send"})

(***************************************************************************)
(* transport.h:118-120: "Broadcast message to all workers / Returns: 0 on  *)
(* success, negative on error".  A ZeroMQ broadcast returns.               *)
(***************************************************************************)
BroadcastReturns == call[0].at = "relock" ~> call[0] = Idle

(* What failed, if anything, on the way from s to d. *)
Failed(s, d) == {f[3] : f \in {g \in ToSet(faults) : g[1] = s /\ g[2] = d}}

(***************************************************************************)
(* The calls that never return: a ZeroMQ broadcast, which locks            *)
(* worker_lock twice; a shutdown that cannot deliver the last message; an  *)
(* mpi_recv whose payload could not be sent; an mpi_send to a node that    *)
(* has shut down, is in such a call itself or had no memory to receive the *)
(* payload.                                                                *)
(***************************************************************************)
Stuck(x) ==
  LET m == call[x].msg IN
  \/ call[x].at = "relock"
  \/ call[x].at = "linger" /\ 0 \notin up
  \/ call[x].at = "wait" /\ "send" \in Failed(m.src, x)
  \/ /\ call[x].at \in {"header", "rendezvous"}
     /\ m.dst \notin up \/ call[m.dst] # Idle \/ "alloc" \in Failed(x, m.dst)

(***************************************************************************)
(* Sends are bounded, so things come to rest, and then nobody is in a call *)
(* but those stuck for one of the reasons above, and every message whose   *)
(* send returned 0 has been accepted by the node it was sent to, unless    *)
(* that node shut down or is stuck itself, or a send of the same sender or *)
(* a send or an allocation for the same receiver has failed.  A call that  *)
(* is stuck elsewhere loses nobody a message.                              *)
(***************************************************************************)
Delivered ==
  <>[](/\ \A x \in Node : call[x] = Idle \/ Stuck(x)
       /\ \A m \in posted :
            \/ \E g \in got : g.msg = m /\ g.by = m.dst
            \/ m.dst \notin up \/ Stuck(m.dst)
            \/ \E f \in ToSet(faults) : f[1] = m.src \/ f[2] = m.dst)
=============================================================================
