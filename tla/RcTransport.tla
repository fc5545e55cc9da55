---------------------------- MODULE RcTransport ----------------------------
(***************************************************************************)
(* The reliable connection between two RDMA engines                        *)
(* (src/src/rocev2/engine.cpp): one queue pair on each side                *)
(* (rocev2/queue_pair.cpp), the SEND, WRITE and READ processors            *)
(* (rocev2/send_recv.cpp, rdma_write.cpp, rdma_read.cpp) and the           *)
(* reliability manager (rocev2/congestion.cpp).  Packets travel either     *)
(* through the in-order packet router (driver/src/packet_router.cpp) or    *)
(* through a network that may lose, repeat and reorder them; on the wire   *)
(* they are what RocePacket builds, and a side sees what it parses.        *)
(*                                                                         *)
(* Lengths are counted in path MTUs; the payload of the i-th packet of     *)
(* work request w is its i-th fragment, its immediate is w itself.         *)
(***************************************************************************)
EXTENDS Integers, Sequences, RocePacket

CONSTANTS Endpoints,       \* the two queue pairs
          PsnModulus,      \* 2^24 in the code: kMaxPsn + 1
          StartPsn,        \* the sq_psn each side is connected with
          Connected,       \* start with the connection made, or from Reset
          Ops,             \* the work request opcodes in use
          Lengths,         \* message lengths
          BufferSizes,     \* lengths of receive buffers
          MaxPosts,        \* bound on the send requests of each side
          MaxRecvs,        \* bound on the receive requests of each side
          Targets,         \* the states modify_qp is called with
          MemoryFaults,    \* memory checks and transfers may fail
          max_retries, rnr_retry_count, ack_timeout_us,
          Elapsed,         \* arguments of advance_time
          TimeModulus,     \* 2^64 in the code
          Lossy            \* the network loses, repeats and reorders

ASSUME EndpointsAssumption == \E a, b \in Endpoints : a # b /\ Endpoints = {a, b}
ASSUME PsnAssumption == /\ PsnModulus \in Nat \ {0} /\ PsnModulus % 2 = 0
                        /\ StartPsn \in [Endpoints -> 0..(PsnModulus - 1)]
ASSUME LossyAssumption == Lossy \in BOOLEAN /\ Connected \in BOOLEAN
ASSUME WorkAssumption ==
  /\ Ops \subseteq {"Send", "SendImm", "RdmaWrite", "RdmaWriteImm", "RdmaRead"}
  /\ Lengths \subseteq Nat /\ BufferSizes \subseteq Nat

VARIABLES state, sq_psn, rq_psn, recv_queue,   \* the queue pair
          recv_state, write_state,             \* messages being received
          request_state,                       \* the READ being answered
          pending,                             \* ReliabilityManager::pending_ops_
          wire,                                \* packets on their way to a side
          posted,                              \* work requests accepted
          recvs,                               \* number of receives posted
          delivered,                           \* messages that took effect
          completed,                           \* wr_ids of Success send CQEs
          failures                             \* statuses of other send CQEs

qpVars == <<state, sq_psn, rq_psn, recv_queue>>
requester == <<request_state, pending, posted, completed, failures>>
responder == <<recv_state, write_state, recvs, delivered>>
vars == <<qpVars, requester, responder, wire>>

QpStates == {"Reset", "Init", "Rtr", "Rts", "Sqd", "SqErr", "Error"}

Peer(e) == CHOOSE p \in Endpoints : p # e

Idle == [in_progress |-> FALSE, wr_id |-> 0, size |-> 0, expected_psn |-> 0, data |-> <<>>]

Init ==
  /\ state = [e \in Endpoints |-> IF Connected THEN "Rts" ELSE "Reset"]
  /\ sq_psn = [e \in Endpoints |-> IF Connected THEN StartPsn[e] ELSE 0]
  /\ rq_psn = [e \in Endpoints |-> IF Connected THEN StartPsn[Peer(e)] ELSE 0]
  /\ recv_queue = [e \in Endpoints |-> <<>>]
  /\ recv_state = [e \in Endpoints |-> Idle]
  /\ write_state = [e \in Endpoints |-> Idle]
  /\ request_state = [e \in Endpoints |-> Idle]
  /\ pending = [e \in Endpoints |-> <<>>]
  /\ wire = [e \in Endpoints |-> IF Lossy THEN {} ELSE <<>>]
  /\ posted = [e \in Endpoints |-> <<>>]
  /\ recvs = [e \in Endpoints |-> 0]
  /\ delivered = [e \in Endpoints |-> <<>>]
  /\ completed = [e \in Endpoints |-> <<>>]
  /\ failures = [e \in Endpoints |-> {}]

-----------------------------------------------------------------------------
(* Packet sequence numbers. *)

(* Mutant of advance_psn: no wrap. *)
advance_psnUnwrapped(psn) == psn + 1

advance_psn(psn) == (psn + 1) % PsnModulus

psn_in_window(psn, base, window) == (psn - base) % PsnModulus < window

(* The outgoing queue of e and the network.  The router hands packets over *)
(* in order; a lossy network may deliver anything ever sent, or nothing.   *)

Members(s) == {s[i] : i \in DOMAIN s}

Sent(w, packets) == IF Lossy THEN w \cup Members(packets) ELSE w \o packets

Arriving(w) == IF Lossy THEN w ELSE IF w = <<>> THEN {} ELSE {Head(w)}

Remaining(w) == IF Lossy THEN w ELSE Tail(w)

(* A step of e that sends packets, and one that takes a packet and answers. *)
queue_outgoing(e, packets) ==
  wire' = [wire EXCEPT ![Peer(e)] = Sent(@, packets)]

Answer(e, packets) ==
  wire' = [wire EXCEPT ![e] = Remaining(@), ![Peer(e)] = Sent(@, packets)]

generate_ack(psn, syndrome) ==
  <<build(RdmaPacketBuilder("Ack", psn, FALSE, 0, 0, syndrome, <<>>, <<>>))>>

-----------------------------------------------------------------------------
(* Queue pair states. *)

is_valid_transition(from, to) ==
  CASE from = "Reset" -> to \in {"Init", "Reset"}
    [] from = "Init"  -> to \in {"Rtr", "Reset", "Error"}
    [] from = "Rtr"   -> to \in {"Rts", "Reset", "Error"}
    [] from = "Rts"   -> to \in {"Sqd", "Reset", "Error", "SqErr"}
    [] from = "Sqd"   -> to \in {"Rts", "Reset", "Error"}
    [] from = "SqErr" -> to \in {"Reset", "Error"}
    [] from = "Error" -> to = "Reset"

can_receive(e) == state[e] \in {"Rtr", "Rts"}

(* modify, called the way the driver and the tests connect a pair: the  *)
(* receive PSN is given on the way to Rtr, the send PSN on the way to Rts. *)
modify(e, target) ==
  /\ is_valid_transition(state[e], target)
  /\ state' = [state EXCEPT ![e] = target]
  /\ rq_psn' = IF target = "Rtr" THEN [rq_psn EXCEPT ![e] = StartPsn[Peer(e)]] ELSE rq_psn
  /\ sq_psn' = IF state[e] = "Rtr" /\ target = "Rts"
               THEN [sq_psn EXCEPT ![e] = StartPsn[e]] ELSE sq_psn

(* Nothing but the pair's own state changes, on the way to Reset too. *)
modify_qp(e, target) ==
  modify(e, target) /\ UNCHANGED <<recv_queue, requester, responder, wire>>

-----------------------------------------------------------------------------
(* Posting. *)

Count(len) == IF len = 0 THEN 1 ELSE len

Fragments(w, n) == [i \in 1..n |-> [wr_id |-> w, part |-> i]]

Immediate(w) == IF w.op \in {"SendImm", "RdmaWriteImm"} THEN <<w.wr_id>> ELSE <<>>

(* Everything the message of work request w carries. *)
Whole(w) == [wr_id |-> w.wr_id, data |-> Fragments(w.wr_id, w.len), imm |-> Immediate(w)]

get_send_opcode(first, last, imm) ==
  CASE first /\ last -> IF imm THEN "SendOnlyImm" ELSE "SendOnly"
    [] first /\ ~last -> "SendFirst"
    [] ~first /\ last -> IF imm THEN "SendLastImm" ELSE "SendLast"
    [] OTHER -> "SendMiddle"

get_write_opcode(first, last, imm) ==
  CASE first /\ last -> IF imm THEN "WriteOnlyImm" ELSE "WriteOnly"
    [] first /\ ~last -> "WriteFirst"
    [] ~first /\ last -> IF imm THEN "WriteLastImm" ELSE "WriteLast"
    [] OTHER -> "WriteMiddle"

get_read_response_opcode(first, last) ==
  CASE first /\ last -> "ReadResponseOnly"
    [] first /\ ~last -> "ReadResponseFirst"
    [] ~first /\ last -> "ReadResponseLast"
    [] OTHER -> "ReadResponseMiddle"

(* The i-th fragment of w; the one packet of an empty message has none. *)
Fragment(w, i) == IF i <= w.len THEN <<[wr_id |-> w.wr_id, part |-> i]>> ELSE <<>>

(* The i-th packet of the message of w; the last one carries its immediate. *)
Segment(w, psn, i, opcode, ack_request, dma_length) ==
  RdmaPacketBuilder(opcode, (psn + i - 1) % PsnModulus, ack_request, w.wr_id, dma_length,
                    "Ack", IF i = Count(w.len) THEN Immediate(w) ELSE <<>>, Fragment(w, i))

generate_send_packets(w, psn) ==
  [i \in 1..Count(w.len) |->
     build(Segment(w, psn, i, get_send_opcode(i = 1, i = Count(w.len), Immediate(w) # <<>>),
                   i = Count(w.len), 0))]

generate_write_packets(w, psn) ==
  [i \in 1..Count(w.len) |->
     build(Segment(w, psn, i, get_write_opcode(i = 1, i = Count(w.len), Immediate(w) # <<>>),
                   i = Count(w.len), IF i = 1 THEN w.len ELSE 0))]

(* A READ sends one packet, the request, which carries no data. *)
generate_read_request(w, psn) ==
  <<build(RdmaPacketBuilder("ReadRequest", psn, FALSE, w.wr_id, w.len, "Ack", <<>>, <<>>))>>

generate_packets(w, psn) ==
  CASE w.op \in {"Send", "SendImm"} -> generate_send_packets(w, psn)
    [] w.op \in {"RdmaWrite", "RdmaWriteImm"} -> generate_write_packets(w, psn)
    [] w.op = "RdmaRead" -> generate_read_request(w, psn)

PendingAck(w, start, end) ==
  [wr_id |-> w.wr_id, start_psn |-> start, end_psn |-> end,
   send_time_us |-> 0, retry_count |-> 0, waiting |-> TRUE]

(* A request whose buffers cannot be read is refused before anything changes. *)
post_send(e, op, len) ==
  LET w == [wr_id |-> Len(posted[e]) + 1, op |-> op, len |-> len]
      packets == generate_packets(w, sq_psn[e])
      end == (sq_psn[e] + Len(packets) - 1) % PsnModulus
  IN  /\ Len(posted[e]) < MaxPosts[e]
      /\ state[e] = "Rts"
      /\ posted' = [posted EXCEPT ![e] = Append(@, w)]
      /\ sq_psn' = [sq_psn EXCEPT ![e] = advance_psn(end)]
      /\ pending' = [pending EXCEPT ![e] = Append(@, PendingAck(w, sq_psn[e], end))]
      /\ request_state' =
           IF op = "RdmaRead"
           THEN [request_state EXCEPT ![e] =
                   [in_progress |-> TRUE, wr_id |-> w.wr_id, size |-> len,
                    expected_psn |-> sq_psn[e], data |-> <<>>]]
           ELSE request_state
      /\ queue_outgoing(e, packets)
      /\ UNCHANGED <<state, rq_psn, recv_queue, completed, failures, responder>>

can_post_recv(e) == state[e] \in {"Init", "Rtr", "Rts"} /\ recvs[e] < MaxRecvs[e]

post_recv(e, size) ==
  /\ can_post_recv(e)
  /\ recvs' = [recvs EXCEPT ![e] = @ + 1]
  /\ recv_queue' = [recv_queue EXCEPT ![e] =
                      Append(@, [wr_id |-> recvs[e] + 1, size |-> size])]
  /\ UNCHANGED <<state, sq_psn, rq_psn, recv_state, write_state, delivered, requester, wire>>

-----------------------------------------------------------------------------
(* The responder. *)

(* A request that is refused: a NAK and no other effect. *)
Nak(e, psn, syndrome) ==
  /\ UNCHANGED <<qpVars, requester, responder>>
  /\ Answer(e, generate_ack(psn, syndrome))

(* Mutant of Acceptable: the PSN is not checked. *)
AcceptableAnyPsn(e, p) == can_receive(e)

(* The checks every request meets first; those for a missing RETH or AETH  *)
(* cannot fail, the parser expects them of the same opcodes.               *)
Acceptable(e, p) == can_receive(e) /\ p.psn = rq_psn[e]

Refused(e, p) ==
  \/ ~can_receive(e) /\ Nak(e, p.psn, "InvalidRequest")
  \/ can_receive(e) /\ p.psn # rq_psn[e] /\ Nak(e, rq_psn[e], "PsnSeqError")

(* A packet that continues a message none of whose earlier packets is held, *)
(* or that does not follow the last one.                                    *)
OutOfPlace(e, p, st) ==
  \/ ~st.in_progress /\ Nak(e, p.psn, "InvalidRequest")
  \/ st.in_progress /\ st.expected_psn # p.psn /\ Nak(e, st.expected_psn, "PsnSeqError")

InPlace(p, st) == st.in_progress /\ (p.first \/ st.expected_psn = p.psn)

(* write_to_sgl: the payload goes behind what was received before, when it *)
(* fits and memory can be written.                                         *)
SglTakes(p, st) == Len(st.data \o p.payload) <= st.size

SglFails(p, st) == ~SglTakes(p, st) \/ (MemoryFaults /\ p.payload # <<>>)

Message(p, st, recv) ==
  [wr_id |-> p.wr_id, data |-> st.data \o p.payload, imm |-> p.immediate, recv |-> recv]

(* Mutant of Advanced: the bytes received are not counted, and the next     *)
(* fragment overwrites them.                                                *)
AdvancedOverwrites(p, st) == [st EXCEPT !.in_progress = ~p.last,
                                        !.expected_psn = advance_psn(p.psn)]

Advanced(p, st) == [st EXCEPT !.data = @ \o p.payload, !.in_progress = ~p.last,
                              !.expected_psn = advance_psn(p.psn)]


(* The packet is accepted: the expected PSN moves on, a last packet is     *)
(* acknowledged and its message has taken effect.                          *)
Accept(e, p, message) ==
  /\ rq_psn' = [rq_psn EXCEPT ![e] = advance_psn(@)]
  /\ delivered' = IF p.last THEN [delivered EXCEPT ![e] = Append(@, message)] ELSE delivered
  /\ Answer(e, IF p.ack_request \/ p.last THEN generate_ack(p.psn, "Ack") ELSE <<>>)
  /\ UNCHANGED <<state, sq_psn, requester, recvs>>

(* The receive state a SEND packet is processed with: a first packet takes *)
(* the oldest receive request.                                             *)
RecvState(e, p) ==
  IF p.first THEN [in_progress |-> TRUE, wr_id |-> Head(recv_queue[e]).wr_id,
                   size |-> Head(recv_queue[e]).size,
                   expected_psn |-> p.psn, data |-> <<>>]
             ELSE recv_state[e]

(* Mutant of consume_recv: the request is read and left in the queue. *)
consume_recvPeeks(e) == UNCHANGED recv_queue

consume_recv(e) == recv_queue' = [recv_queue EXCEPT ![e] = Tail(@)]

process_recv_packet(e, p) ==
  \/ Refused(e, p)
  \/ /\ Acceptable(e, p)
     /\ \/ p.first /\ recv_queue[e] = <<>> /\ Nak(e, p.psn, "RnrNak")
        \/ ~p.first /\ OutOfPlace(e, p, recv_state[e])
        \/ /\ p.first => recv_queue[e] # <<>>
           /\ LET st == RecvState(e, p)
              IN  /\ InPlace(p, st)
                  /\ IF p.first THEN consume_recv(e) ELSE UNCHANGED recv_queue
                  /\ UNCHANGED write_state
                  /\ \/ /\ SglTakes(p, st)
                        /\ recv_state' = [recv_state EXCEPT ![e] = Advanced(p, st)]
                        /\ Accept(e, p, Message(p, st, st.wr_id))
                     \/ /\ SglFails(p, st)
                        /\ recv_state' = [recv_state EXCEPT ![e] = [st EXCEPT !.in_progress = FALSE]]
                        /\ Answer(e, generate_ack(p.psn, "RemoteAccessError"))
                        /\ UNCHANGED <<state, sq_psn, rq_psn, recvs, delivered, requester>>

WriteState(e, p) ==
  IF p.first THEN [in_progress |-> TRUE, wr_id |-> 0, size |-> p.dma_length,
                   expected_psn |-> p.psn, data |-> <<>>]
             ELSE write_state[e]

(* write_to_remote finds the memory gone or not writable. *)
RemoteFails(p) == MemoryFaults /\ p.payload # <<>>

(* The last packet of a WRITE with immediate needs a receive request; when *)
(* there is none the data is in memory and the expected PSN has moved on,  *)
(* yet the requester is told to retry.                                     *)
process_write_packet(e, p) ==
  \/ Refused(e, p)
  \/ /\ Acceptable(e, p)
     /\ \/ p.first /\ MemoryFaults /\ Nak(e, p.psn, "RemoteAccessError")
        \/ ~p.first /\ OutOfPlace(e, p, write_state[e])
        \/ LET st == WriteState(e, p)
               notify == p.last /\ p.immediate # <<>>
           IN  /\ InPlace(p, st)
               /\ UNCHANGED recv_state
               /\ \/ /\ RemoteFails(p)
                     /\ write_state' = [write_state EXCEPT ![e] = [st EXCEPT !.in_progress = FALSE]]
                     /\ Answer(e, generate_ack(p.psn, "RemoteAccessError"))
                     /\ UNCHANGED <<qpVars, recvs, delivered, requester>>
                  \/ /\ notify => recv_queue[e] # <<>>
                     /\ write_state' = [write_state EXCEPT ![e] = Advanced(p, st)]
                     /\ IF notify THEN consume_recv(e) ELSE UNCHANGED recv_queue
                     /\ Accept(e, p, Message(p, st, IF notify THEN Head(recv_queue[e]).wr_id ELSE 0))
                  \/ /\ notify /\ recv_queue[e] = <<>>
                     /\ write_state' = [write_state EXCEPT ![e] = Advanced(p, st)]
                     /\ rq_psn' = [rq_psn EXCEPT ![e] = advance_psn(@)]
                     /\ Answer(e, generate_ack(p.psn, "RnrNak"))
                     /\ UNCHANGED <<state, sq_psn, recv_queue, recvs, delivered, requester>>

(* The response packets are numbered from the responder's own send PSN. *)
generate_read_responses(e, p) ==
  LET w == [wr_id |-> p.wr_id, op |-> "RdmaRead", len |-> p.dma_length]
  IN  [i \in 1..Count(w.len) |->
         build(Segment(w, sq_psn[e], i, get_read_response_opcode(i = 1, i = Count(w.len)),
                       FALSE, 0))]

(* read_from_remote finds the memory gone or not readable. *)
RemoteUnreadable == MemoryFaults

process_read_request(e, p) ==
  \/ Refused(e, p)
  \/ /\ Acceptable(e, p)
     /\ UNCHANGED <<state, recv_queue, recv_state, write_state, recvs, requester>>
     /\ \/ /\ rq_psn' = [rq_psn EXCEPT ![e] = advance_psn(@)]
           /\ sq_psn' = [sq_psn EXCEPT ![e] = (@ + Count(p.dma_length)) % PsnModulus]
           /\ delivered' = [delivered EXCEPT ![e] =
                Append(@, Message(p, [data |-> Fragments(p.wr_id, p.dma_length)], 0))]
           /\ Answer(e, generate_read_responses(e, p))
        \/ /\ RemoteUnreadable
           /\ rq_psn' \in IF p.dma_length = 0 THEN {rq_psn}
                          ELSE {rq_psn, [rq_psn EXCEPT ![e] = advance_psn(@)]}
           /\ Answer(e, generate_ack(p.psn, "RemoteAccessError"))
           /\ UNCHANGED <<sq_psn, delivered>>

-----------------------------------------------------------------------------
(* The requester. *)

(* Any response is taken for the READ in progress, whatever its PSN. *)
process_read_response(e, p) ==
  LET st == request_state[e]
  IN  \/ /\ ~st.in_progress
         /\ UNCHANGED <<request_state, completed>>
      \/ /\ st.in_progress
         /\ SglTakes(p, st)
         /\ request_state' = [request_state EXCEPT ![e] = Advanced(p, st)]
         /\ completed' = IF p.last THEN [completed EXCEPT ![e] = Append(@, st.wr_id)] ELSE completed
      \/ /\ st.in_progress
         /\ SglFails(p, st)
         /\ request_state' = [request_state EXCEPT ![e].in_progress = FALSE]
         /\ UNCHANGED completed

(* A response is not answered, and one that fails completes nothing. *)
process_read_response_packet(e, p) ==
  /\ process_read_response(e, p)
  /\ Answer(e, <<>>)
  /\ UNCHANGED <<qpVars, responder, pending, posted, failures>>

(* complete_up_to: acknowledged are the requests that end in the half of   *)
(* the PSN space behind the acknowledged PSN.                              *)
Acknowledged(op, ack_psn) == (ack_psn - op.end_psn) % PsnModulus < PsnModulus \div 2

(* The listing of a set of positions of s in increasing order, and the     *)
(* entries of s at these positions; there is one.                          *)
InOrder(s, I) ==
  {f \in UNION {[1..n -> I] : n \in 0..Len(s)} :
     /\ \A i, j \in DOMAIN f : i < j => f[i] < f[j]
     /\ \A k \in I : \E i \in DOMAIN f : f[i] = k}

EntriesAt(s, I) == {[i \in DOMAIN f |-> s[f[i]]] : f \in InOrder(s, I)}

process_ack(e, ack_psn) ==
  LET waiting == {k \in DOMAIN pending[e] : pending[e][k].waiting}
      acked == {k \in waiting : Acknowledged(pending[e][k], ack_psn)}
  IN  /\ \E left \in EntriesAt(pending[e], waiting \ acked) :
           pending' = [pending EXCEPT ![e] = left]
      /\ \E done \in EntriesAt(pending[e], acked) :
           completed' = [completed EXCEPT ![e] = @ \o [i \in DOMAIN done |-> done[i].wr_id]]
      /\ UNCHANGED <<state, failures>>

(* Beyond both limits the exact count makes no difference. *)
Bumped(op) ==
  IF op.retry_count > max_retries /\ op.retry_count > rnr_retry_count
  THEN op ELSE [op EXCEPT !.retry_count = @ + 1]

(* What a NAK does to one pending operation, and the limit it is held to. *)
Hit(op, nak_psn, syndrome) ==
  CASE syndrome = "PsnSeqError" ->
         psn_in_window(nak_psn, op.start_psn, (op.end_psn - op.start_psn + 1) % PsnModulus)
    [] syndrome = "RnrNak" -> nak_psn \in {op.start_psn, op.end_psn}
    [] OTHER -> nak_psn = op.start_psn

Retryable == {"PsnSeqError", "RnrNak"}

Limit(syndrome) == IF syndrome = "PsnSeqError" THEN max_retries ELSE rnr_retry_count

Exceeded(op, syndrome) == Bumped(op).retry_count > Limit(syndrome)

AfterNak(op, nak_psn, syndrome) ==
  CASE ~Hit(op, nak_psn, syndrome) -> op
    [] Hit(op, nak_psn, syndrome) /\ syndrome \notin Retryable -> [op EXCEPT !.waiting = FALSE]
    [] OTHER -> [Bumped(op) EXCEPT
                   !.waiting = @ /\ ~Exceeded(op, syndrome),
                   !.send_time_us = IF syndrome = "PsnSeqError" THEN 0 ELSE @]

ErrorStatus(syndrome) ==
  CASE syndrome = "PsnSeqError" -> "RetryExceededError"
    [] syndrome = "RnrNak" -> "RnrRetryExceededError"
    [] syndrome = "InvalidRequest" -> "RemoteInvalidRequestError"
    [] syndrome = "RemoteAccessError" -> "RemoteAccessError"

(* A fatal NAK is reported without the wr_id and takes the pair to Error. *)
process_nak(e, nak_psn, syndrome) ==
  LET fatal == /\ posted[e] # <<>>
               /\ \/ syndrome \notin Retryable
                  \/ \E k \in DOMAIN pending[e] :
                       Hit(pending[e][k], nak_psn, syndrome) /\ Exceeded(pending[e][k], syndrome)
  IN  /\ pending' = [pending EXCEPT ![e] =
                       [k \in DOMAIN @ |-> AfterNak(@[k], nak_psn, syndrome)]]
      /\ failures' = IF fatal THEN [failures EXCEPT ![e] = @ \cup {ErrorStatus(syndrome)}]
                              ELSE failures
      /\ state' = IF fatal /\ is_valid_transition(state[e], "Error")
                  THEN [state EXCEPT ![e] = "Error"] ELSE state
      /\ UNCHANGED completed

process_ack_packet(e, p) ==
  /\ Answer(e, <<>>)
  /\ UNCHANGED <<sq_psn, rq_psn, recv_queue, responder, request_state, posted>>
  /\ \/ p.syndrome = "Ack" /\ process_ack(e, p.psn)
     \/ p.syndrome # "Ack" /\ process_nak(e, p.psn, p.syndrome)

(* RdmaEngine::process_incoming_packet, dispatching on the opcode. *)
process_incoming_packet(e) ==
  \E p \in {parse(packet) : packet \in {w \in Arriving(wire[e]) : parses(w)}} :
    \/ p.opcode \in SendOpcodes /\ process_recv_packet(e, p)
    \/ p.opcode \in WriteOpcodes /\ process_write_packet(e, p)
    \/ p.opcode = "ReadRequest" /\ process_read_request(e, p)
    \/ opcode_is_read_response(p.opcode) /\ process_read_response_packet(e, p)
    \/ p.opcode = "Ack" /\ process_ack_packet(e, p)

(* check_timeouts is given the elapsed time as if it were the current one; *)
(* the difference to send_time_us is taken modulo 2^64.                    *)
TimedOut(op, now) ==
  op.waiting /\ (now - op.send_time_us) % TimeModulus >= ack_timeout_us * 2 ^ op.retry_count

AfterTimeout(op, now) ==
  IF TimedOut(op, now)
  THEN [op EXCEPT !.retry_count = @ + 1, !.send_time_us = now,
                  !.waiting = @ /\ op.retry_count + 1 <= max_retries]
  ELSE op

advance_time(e, elapsed) ==
  /\ pending' = [pending EXCEPT ![e] = [k \in DOMAIN @ |-> AfterTimeout(@[k], elapsed)]]
  /\ UNCHANGED <<qpVars, responder, wire, request_state, posted, completed, failures>>

-----------------------------------------------------------------------------
Next ==
  \E e \in Endpoints :
    \/ \E target \in Targets : modify_qp(e, target)
    \/ \E op \in Ops, len \in Lengths : post_send(e, op, len)
    \/ \E size \in BufferSizes : post_recv(e, size)
    \/ process_incoming_packet(e)
    \/ \E t \in Elapsed : advance_time(e, t)

Spec == Init /\ [][Next]_vars

(* Weak fairness of process_incoming_packet(e), spelled out for the router: *)
(* the action is enabled while a packet waits, and no other takes one away. *)
KeepsTaking(e) ==
  []<>(Arriving(wire[e]) = {}) \/ []<><<Len(wire'[e]) < Len(wire[e])>>_wire

(* The host keeps moving packets between the two engines. *)
FairSpec == Spec /\ \A e \in Endpoints : KeepsTaking(e)

-----------------------------------------------------------------------------
Psns == 0..(PsnModulus - 1)

(* The variables stay in their types: sequence numbers within the PSN      *)
(* space, receive states and pending operations well formed.               *)
TypeOK ==
  /\ state \in [Endpoints -> QpStates]
  /\ sq_psn \in [Endpoints -> Psns] /\ rq_psn \in [Endpoints -> Psns]
  /\ \A e \in Endpoints :
       /\ \A k \in DOMAIN pending[e] :
            /\ pending[e][k].start_psn \in Psns /\ pending[e][k].end_psn \in Psns
            /\ pending[e][k].retry_count \in Nat /\ pending[e][k].waiting \in BOOLEAN
       /\ \A st \in {recv_state[e], write_state[e], request_state[e]} :
            st.in_progress \in BOOLEAN /\ st.expected_psn \in Psns

(* The connection as the channel it should be. *)
AsMessages(s) == [k \in DOMAIN s |-> Whole(s[k])]

AsReceived(s) ==
  [k \in DOMAIN s |-> [wr_id |-> s[k].wr_id, data |-> s[k].data, imm |-> s[k].imm]]

AllMessages ==
  UNION {{Whole([wr_id |-> k, op |-> op, len |-> len]) :
            k \in 1..MaxPosts[e], op \in Ops, len \in Lengths} : e \in Endpoints}

Channel == INSTANCE RdmaChannel WITH
  Requesters <- Endpoints,
  Messages <- AllMessages,
  posted <- [e \in Endpoints |-> AsMessages(posted[e])],
  delivered <- [e \in Endpoints |-> AsReceived(delivered[Peer(e)])],
  completed <- completed

(* Whatever the network does to the packets, the messages of a side take   *)
(* effect at the other side whole, in posting order and once; a request    *)
(* gets at most one successful completion, in posting order, and only      *)
(* after its message took effect (PSN checks of the processors, cumulative *)
(* acknowledgement of ReliabilityManager::process_ack).                    *)
ImplementsChannel == Channel!Spec

(* A receive request completes at most one message, and receive requests   *)
(* are used in the order they were posted (consume_recv).                  *)
RecvsUsedOnceInOrder ==
  \A e \in Endpoints : \A i, j \in DOMAIN delivered[e] :
    i < j /\ delivered[e][i].recv # 0 /\ delivered[e][j].recv # 0
      => delivered[e][i].recv < delivered[e][j].recv

(* What is left of the channel when READs and WRITEs with immediate mix     *)
(* with SENDs, transfers fail and receive requests are missing: messages    *)
(* take effect whole, in posting order and once, and no acknowledgement     *)
(* covers a SEND or a plain WRITE that its peer refused.                    *)
DeliveredWholeInOrder ==
  \A e \in Endpoints :
    LET got == AsReceived(delivered[Peer(e)])
    IN  /\ \A i \in DOMAIN got : got[i] = Whole(posted[e][got[i].wr_id])
        /\ \A i, j \in DOMAIN got : i < j => got[i].wr_id < got[j].wr_id
        /\ \A k \in Members(completed[e]) :
             posted[e][k].op \in {"Send", "SendImm", "RdmaWrite"} =>
               \E m \in Members(got) : m.wr_id = k

Answered(e, k) ==
  \/ k \in Members(completed[e])
  \/ state[e] = "Error"
  \/ \E i \in DOMAIN pending[e] : pending[e][i].wr_id = k /\ pending[e][i].retry_count > 0

(* A side that answered a READ has used send PSNs its peer does not count. *)
ServedRead(e) == \E m \in Members(delivered[e]) : posted[Peer(e)][m.wr_id].op = "RdmaRead"


-----------------------------------------------------------------------------
(* rdma_write.cpp: "WRITE with immediate consumes a recv WQE and generates *)
(* a CQE": one that is reported successful has notified the peer.          *)
ImmediateIsNotified ==
  \A e \in Endpoints : \A k \in Members(completed[e]) :
    posted[e][k].op = "RdmaWriteImm" =>
      \E m \in Members(delivered[Peer(e)]) : m.wr_id = k /\ m.recv # 0
=============================================================================
