------------------------- MODULE RdmaChannelProofs --------------------------
(***************************************************************************)
(* The reliable connection of RcTransport implements the channel of        *)
(* RdmaChannel, over any network and for messages of any number and        *)
(* length that half of the PSN space can number.                           *)
(***************************************************************************)
EXTENDS RdmaWindowProofs

(* Leaves are for Zenon; the ones with arithmetic, sequences or records in   *)
(* them name SMT.                                                           *)
USE Zenon

-----------------------------------------------------------------------------
(* The steps, and what the channel sees of them. *)

(* The channel changes only with messages posted, delivered or completed. *)
LEMMA ChannelStill ==
  ASSUME UNCHANGED <<posted, delivered, completed>>
  PROVE  UNCHANGED Channel!vars
BY DEF Channel!vars, AsMessages, AsReceived

(* A request is posted: the channel gets its message. *)
LEMMA ChannelPosts ==
  ASSUME NEW e \in Endpoints, NEW w \in Requests, w.wr_id \in 1..MaxPosts[e],
         posted \in [Endpoints -> Seq(Requests)],
         posted' = [posted EXCEPT ![e] = Append(posted[e], w)], UNCHANGED <<delivered, completed>>
  PROVE  Channel!Next
<1> DEFINE P == [x \in Endpoints |-> AsMessages(posted[x])]
<1>1. posted[e] \in Seq(Requests)
  OBVIOUS
<1>2. AsMessages(Append(posted[e], w)) = Append(AsMessages(posted[e]), Whole(w))
  BY <1>1, MessagesAppend
<1>3. Whole(w) \in AllMessages
  <2>1. w = [wr_id |-> w.wr_id, op |-> w.op, len |-> w.len] /\ w.op \in Ops /\ w.len \in Lengths
    BY DEF Requests
  <2> QED
    BY SMT, <2>1 DEF AllMessages
<1>4. P' = [P EXCEPT ![e] = Append(P[e], Whole(w))]
  <2>1. P' = [x \in Endpoints |-> AsMessages(posted'[x])]
    BY DEF AsMessages
  <2>2. ASSUME NEW x \in Endpoints
        PROVE  AsMessages(posted'[x]) = IF x = e THEN Append(AsMessages(posted[e]), Whole(w))
                                        ELSE AsMessages(posted[x])
    BY <1>2
  <2>3. P = [x \in Endpoints |-> AsMessages(posted[x])] /\ P[e] = AsMessages(posted[e])
    OBVIOUS
  <2> HIDE DEF P
  <2> QED
    BY <2>1, <2>2, <2>3
<1>5. Channel!Post(e)
  <2>1. UNCHANGED <<[x \in Endpoints |-> AsReceived(delivered[Peer(x)])], completed>>
    BY DEF AsReceived
  <2> QED
    BY <1>3, <1>4, <2>1 DEF Channel!Post
<1> QED
  BY <1>5 DEF Channel!Next

(* A whole message is delivered, the next one of those posted. *)
LEMMA ChannelDelivers ==
  ASSUME NEW e \in Endpoints, NEW m \in Deliveries,
         posted \in [Endpoints -> Seq(Requests)], delivered \in [Endpoints -> Seq(Deliveries)],
         Len(delivered[e]) < Len(posted[Peer(e)]),
         Receipt(m) = Whole(posted[Peer(e)][Len(delivered[e]) + 1]),
         delivered' = [delivered EXCEPT ![e] = Append(delivered[e], m)],
         UNCHANGED <<posted, completed>>
  PROVE  Channel!Next
<1> DEFINE D == [x \in Endpoints |-> AsReceived(delivered[Peer(x)])]
           P == [x \in Endpoints |-> AsMessages(posted[x])]
<1>1. PICK r \in Endpoints : r = Peer(e) /\ Peer(r) = e /\ r # e
  BY Peers
<1>2. delivered[e] \in Seq(Deliveries) /\ posted[r] \in Seq(Requests)
  OBVIOUS
<1>3. /\ AsReceived(Append(delivered[e], m)) = Append(AsReceived(delivered[e]), Receipt(m))
      /\ Len(AsReceived(delivered[e])) = Len(delivered[e])
  BY <1>2, ReceiptsAppend
<1>4. D[r] = AsReceived(delivered[e]) /\ P[r] = AsMessages(posted[r])
  BY <1>1
<1>5. /\ Len(P[r]) = Len(posted[r])
      /\ P[r][Len(delivered[e]) + 1] = Receipt(m)
  <2>1. PICK a : a = AsMessages(posted[r])
    OBVIOUS
  <2>2. a = [k \in 1..Len(posted[r]) |-> Whole(posted[r][k])]
    BY SMT, <1>2, <2>1 DEF AsMessages
  <2>3. Len(posted[r]) \in Nat /\ Len(delivered[e]) + 1 \in 1..Len(posted[r])
    BY SMT, <1>1, <1>2
  <2>4. a[Len(delivered[e]) + 1] = Receipt(m)
    BY <1>1, <2>2, <2>3
  <2>5. Len(a) = Len(posted[r])
    BY SMT, <2>2, <2>3
  <2> QED
    BY <1>4, <2>1, <2>4, <2>5
<1>6. D' = [D EXCEPT ![r] = Append(D[r], Receipt(m))]
  <2>1. D' = [x \in Endpoints |-> AsReceived(delivered'[Peer(x)])]
    BY DEF AsReceived
  <2>2. ASSUME NEW x \in Endpoints
        PROVE  AsReceived(delivered'[Peer(x)]) =
                 IF x = r THEN Append(AsReceived(delivered[e]), Receipt(m))
                 ELSE AsReceived(delivered[Peer(x)])
    <3>1. CASE x = r
      BY <1>1, <1>3, <3>1
    <3>2. CASE x # r
      <4>1. Peer(x) \in Endpoints /\ Peer(x) # e
        BY <1>1, <3>2, Peers
      <4> QED
        BY <3>2, <4>1
    <3> QED
      BY <3>1, <3>2
  <2>3. D = [x \in Endpoints |-> AsReceived(delivered[Peer(x)])]
    OBVIOUS
  <2> HIDE DEF D
  <2> QED
    BY <1>4, <2>1, <2>2, <2>3
<1>7. Len(D[r]) < Len(P[r]) /\ Receipt(m) = P[r][Len(D[r]) + 1]
  BY <1>1, <1>3, <1>4, <1>5
<1>8. Channel!Deliver(r)
  <2>1. UNCHANGED <<P, completed>>
    BY DEF AsMessages
  <2> QED
    BY <1>6, <1>7, <2>1 DEF Channel!Deliver
<1> QED
  BY <1>8 DEF Channel!Next

(* Requests are completed, or none. *)
LEMMA ChannelCompletes ==
  ASSUME NEW e \in Endpoints, NEW ids \in Seq(Nat), NEW o, NEW left,
         completed \in [Endpoints -> Seq(Nat)], delivered \in [Endpoints -> Seq(Deliveries)],
         Outstanding(e, o, left, completed[e] \o ids, Len(delivered[Peer(e)])),
         completed' = [completed EXCEPT ![e] = completed[e] \o ids],
         UNCHANGED <<posted, delivered>>
  PROVE  [Channel!Next]_(Channel!vars)
<1> DEFINE D == [x \in Endpoints |-> AsReceived(delivered[Peer(x)])]
<1>1. Peer(e) \in Endpoints /\ delivered[Peer(e)] \in Seq(Deliveries) /\ completed[e] \in Seq(Nat)
  BY Peers
<1>2. CASE ids = <<>>
  <2>1. completed[e] \o ids = completed[e]
    BY SMT, <1>1, <1>2
  <2>2. completed' = completed
    BY <2>1
  <2> QED
    BY <2>2, ChannelStill
<1>3. CASE ids # <<>>
  <2>1. PICK c \in Seq(Nat) : c = completed[e]
    BY <1>1
  <2>2. PICK r : r = c \o ids
    OBVIOUS
  <2>3. /\ r \in Seq(Nat) /\ Len(r) = Len(c) + Len(ids) /\ Len(c) \in Nat /\ Len(ids) \in Nat
        /\ \A i \in 1..Len(c) : r[i] = c[i]
    BY SMT, <2>2, Joined
  <2>4. Len(ids) > 0
    BY SMT, <1>3
  <2>5. SubSeq(r, 1, Len(c)) = c
    <3>1. PICK t : t = SubSeq(r, 1, Len(c))
      OBVIOUS
    <3>2. t \in Seq(Nat) /\ Len(t) = Len(c) /\ \A i \in 1..Len(c) : t[i] = r[i]
      BY SMTT(20), <2>3, <3>1
    <3>3. t = c
      BY <2>3, <3>2, SeqEqual
    <3> QED
      BY <3>1, <3>3
  <2>6. Len(D[e]) = Len(delivered[Peer(e)])
    BY SMT, <1>1 DEF AsReceived
  <2>7. /\ \A k \in 1..Len(r) : r[k] \in 1..Len(D[e])
        /\ \A k \in 2..Len(r) : r[k - 1] < r[k]
    <3>1. DOMAIN r = 1..Len(r) /\ Len(r) \in Nat
      BY SMT, <2>3
    <3>2. /\ \A k \in DOMAIN r : r[k] \in 1..Len(delivered[Peer(e)])
          /\ \A i, j \in DOMAIN r : i < j => r[i] < r[j]
      BY <2>1, <2>2 DEF Outstanding
    <3>3. ASSUME NEW k \in 2..Len(r) PROVE r[k - 1] < r[k]
      <4>1. k - 1 \in DOMAIN r /\ k \in DOMAIN r /\ k - 1 < k
        BY SMT, <3>1
      <4> QED
        BY <3>2, <4>1
    <3> QED
      BY <2>6, <3>1, <3>2, <3>3
  <2>8. completed'[e] = r /\ completed' = [completed EXCEPT ![e] = r]
    BY <2>1, <2>2
  <2>9. Len(completed[e]) < Len(r)
    BY SMT, <2>1, <2>3, <2>4
  <2>10. UNCHANGED <<[x \in Endpoints |-> AsMessages(posted[x])], D>>
    BY DEF AsMessages, AsReceived
  <2>11. Channel!Complete(e)
    <3> HIDE DEF D
    <3>1. /\ Len(completed[e]) < Len(completed'[e])
          /\ SubSeq(completed'[e], 1, Len(completed[e])) = completed[e]
          /\ \A k \in 1..Len(completed'[e]) : completed'[e][k] \in 1..Len(D[e])
          /\ \A k \in 2..Len(completed'[e]) : completed'[e][k - 1] < completed'[e][k]
          /\ completed' = [completed EXCEPT ![e] = completed'[e]]
      BY <2>1, <2>5, <2>7, <2>8, <2>9
    <3> QED
      BY <2>10, <3>1 DEF D, Channel!Complete
  <2> QED
    BY <2>11 DEF Channel!Next
<1> QED
  BY <1>2, <1>3

-----------------------------------------------------------------------------
(* Steps of one side, and what they leave of the links. *)

(* The two wires after e took a packet and answered it, n messages then    *)
(* being delivered at e.                                                   *)
LEMMA Exchanging ==
  ASSUME NEW e \in Endpoints, NEW b, NEW n, Typed, Wiring(b), Arriving(wire[e]) # {},
         NEW R, R = RequestBuilders(e, posted[e], b[e]),
         NEW A, A = AckBuilders(Peer(e), b[Peer(e)], n),
         AckBuilders(Peer(e), b[Peer(e)], Len(delivered[e])) \subseteq A,
         NEW packets \in Seq(Built(R \cup NakBuilders \cup A)), Answer(e, packets)
  PROVE  /\ wire'[e] \in Wires(Built(Traffic(e, posted[Peer(e)], b[Peer(e)], b[e],
                                             Len(delivered[Peer(e)]))))
         /\ wire'[Peer(e)] \in Wires(Built(Traffic(Peer(e), posted[e], b[e], b[Peer(e)], n)))
<1>1. Peer(e) \in Endpoints /\ Peer(Peer(e)) = e
  BY Peers
<1>2. wire = [x \in Endpoints |-> wire[x]] /\ DOMAIN wire = Endpoints
  BY DEF Typed, WireTyped
<1>3. PICK P : P = Built(Traffic(e, posted[Peer(e)], b[Peer(e)], b[e], Len(delivered[Peer(e)])))
  OBVIOUS
<1>4. wire[e] \in Wires(P)
  BY <1>3 DEF Wiring
<1>5. PICK V : V = R \cup NakBuilders \cup AckBuilders(Peer(e), b[Peer(e)], Len(delivered[e]))
  OBVIOUS
<1>6. V = Traffic(Peer(e), posted[e], b[e], b[Peer(e)], Len(delivered[e]))
  BY <1>1, <1>5 DEF Traffic
<1>7. wire[Peer(e)] \in Wires(Built(V))
  BY <1>1, <1>6 DEF Wiring
<1>8. PICK W : W = R \cup NakBuilders \cup A
  OBVIOUS
<1>9. W = Traffic(Peer(e), posted[e], b[e], b[Peer(e)], n)
  BY <1>1, <1>8 DEF Traffic
<1>10. V \subseteq W
  BY <1>5, <1>8
<1>11. wire[Peer(e)] \in Wires(Built(W))
  BY <1>7, <1>10, WiresGrow
<1>12. packets \in Seq(Built(W))
  BY <1>8
<1>13. wire'[e] \in Wires(P) /\ wire'[Peer(e)] \in Wires(Built(W))
  BY <1>2, <1>4, <1>11, <1>12, Answering, Zenon
<1> QED
  BY <1>3, <1>9, <1>13

(* The responder at e takes a packet: only its own place in the messages   *)
(* of the peer changes.                                                    *)
LEMMA Responding ==
  ASSUME NEW e \in Endpoints, NEW b, NEW L, Typed, LinkedBy(b, L), Arriving(wire[e]) # {},
         NEW n, n = Len(delivered'[e]), n \in {Len(delivered[e]), Len(delivered[e]) + 1},
         n <= Len(posted[Peer(e)]),
         \A x \in Endpoints : x # e => /\ rq_psn'[x] = rq_psn[x] /\ delivered'[x] = delivered[x]
                                       /\ recv_state'[x] = recv_state[x]
                                       /\ write_state'[x] = write_state[x],
         UNCHANGED <<state, sq_psn, posted, pending, completed>>,
         Receiver(state[e], Peer(e), posted[Peer(e)], b[Peer(e)], n, rq_psn'[e],
                  recv_state'[e], write_state'[e]),
         NEW A, A = AckBuilders(Peer(e), b[Peer(e)], n),
         NEW packets, packets \in Seq(Built(NakBuilders \cup A)), Answer(e, packets)
  PROVE  LinkedBy(b, L)'
<1>1. PICK r \in Endpoints : r = Peer(e) /\ Peer(r) = e /\ r # e /\ \A x \in Endpoints : x = e \/ x = r
  BY Peers
<1>2. Numbers(b, L) /\ Senders(b) /\ Receivers(b) /\ Requesters(b) /\ Wiring(b)
  BY DEF LinkedBy
<1>3. delivered[e] \in Seq(Deliveries) /\ Len(delivered[e]) \in Nat
  BY SMT DEF Typed, ResponderTyped
<1>4. Numbers(b, L)' /\ Senders(b)'
  BY <1>2 DEF Numbers, Senders
<1>5. Receivers(b)'
  <2>1. ASSUME NEW x \in Endpoints
        PROVE  Receiver(state'[x], Peer(x), posted'[Peer(x)], b[Peer(x)], Len(delivered'[x]),
                        rq_psn'[x], recv_state'[x], write_state'[x])
    <3>1. CASE x = e
      BY <3>1
    <3>2. CASE x # e
      <4>1. Receiver(state[x], Peer(x), posted[Peer(x)], b[Peer(x)], Len(delivered[x]), rq_psn[x],
                     recv_state[x], write_state[x])
        BY <1>2 DEF Receivers
      <4> QED
        BY <3>2, <4>1
    <3> QED
      BY <3>1, <3>2
  <2> QED
    BY <2>1 DEF Receivers
<1>6. Requesters(b)'
  <2>1. Outstanding(e, b[e], pending'[e], completed'[e], Len(delivered'[r]))
    BY <1>1, <1>2 DEF Requesters
  <2>2. Outstanding(r, b[r], pending[r], completed[r], Len(delivered[e]))
    BY <1>1, <1>2 DEF Requesters
  <2>3. Outstanding(r, b[r], pending[r], completed[r], n)
    BY <1>3, <2>2, OutstandingDelivered
  <2>4. ASSUME NEW x \in Endpoints
        PROVE  Outstanding(x, b[x], pending'[x], completed'[x], Len(delivered'[Peer(x)]))
    BY <1>1, <2>1, <2>3
  <2> QED
    BY <2>4 DEF Requesters
<1>7. Wiring(b)'
  <2>1. AckBuilders(r, b[r], Len(delivered[e])) \subseteq A
    <3>1. \A k \in 1..Len(delivered[e]) : k \in 1..n
      BY SMT, <1>3
    <3> QED
      BY <1>1, <3>1 DEF AckBuilders
  <2>2. PICK R : R = RequestBuilders(e, posted[e], b[e])
    OBVIOUS
  <2>3. NakBuilders \cup A \subseteq R \cup NakBuilders \cup A
    OBVIOUS
  <2>4. packets \in Seq(Built(R \cup NakBuilders \cup A))
    BY <2>3, PacketsGrow
  <2>5. /\ wire'[e] \in Wires(Built(Traffic(e, posted[r], b[r], b[e], Len(delivered[r]))))
        /\ wire'[r] \in Wires(Built(Traffic(r, posted[e], b[e], b[r], n)))
    BY <1>1, <1>2, <2>1, <2>2, <2>4, Exchanging, Zenon
  <2>6. ASSUME NEW x \in Endpoints
        PROVE  wire'[x] \in Wires(Built(Traffic(x, posted'[Peer(x)], b[Peer(x)], b[x],
                                                Len(delivered'[Peer(x)]))))
    <3>1. CASE x = e
      BY <1>1, <2>5, <3>1
    <3>2. CASE x = r
      BY <1>1, <2>5, <3>2
    <3> QED
      BY <1>1, <3>1, <3>2
  <2> QED
    BY <2>6 DEF Wiring
<1> QED
  BY <1>4, <1>5, <1>6, <1>7 DEF LinkedBy

(* The requester at e learns of an answer or of time: only its pending and *)
(* completed requests change, and its state to Error.                      *)
LEMMA Requesting ==
  ASSUME NEW e \in Endpoints, NEW b, NEW L, Typed, LinkedBy(b, L),
         \A x \in Endpoints : x # e => /\ pending'[x] = pending[x] /\ completed'[x] = completed[x]
                                       /\ state'[x] = state[x],
         state'[e] \in {state[e], "Error"},
         UNCHANGED <<sq_psn, rq_psn, recv_state, write_state, posted, delivered>>,
         Outstanding(e, b[e], pending'[e], completed'[e], Len(delivered[Peer(e)])),
         \/ UNCHANGED wire
         \/ Arriving(wire[e]) # {} /\ Answer(e, <<>>)
  PROVE  LinkedBy(b, L)'
<1>1. PICK r \in Endpoints : r = Peer(e) /\ Peer(r) = e /\ r # e /\ \A x \in Endpoints : x = e \/ x = r
  BY Peers
<1>2. Numbers(b, L) /\ Senders(b) /\ Receivers(b) /\ Requesters(b) /\ Wiring(b)
  BY DEF LinkedBy
<1>3. Numbers(b, L)'
  BY <1>2 DEF Numbers
<1>4. Senders(b)'
  <2>1. ASSUME NEW x \in Endpoints PROVE Sender(state'[x], x, posted'[x], b[x], sq_psn'[x])
    <3>1. Sender(state[x], x, posted[x], b[x], sq_psn[x])
      BY <1>2 DEF Senders
    <3>2. state'[x] \in {state[x], "Error"}
      OBVIOUS
    <3> QED
      BY <3>1, <3>2 DEF Sender
  <2> QED
    BY <2>1 DEF Senders
<1>5. Receivers(b)'
  <2>1. ASSUME NEW x \in Endpoints
        PROVE  Receiver(state'[x], Peer(x), posted'[Peer(x)], b[Peer(x)], Len(delivered'[x]),
                        rq_psn'[x], recv_state'[x], write_state'[x])
    <3>1. Receiver(state[x], Peer(x), posted[Peer(x)], b[Peer(x)], Len(delivered[x]), rq_psn[x],
                   recv_state[x], write_state[x])
      BY <1>2 DEF Receivers
    <3>2. state'[x] \in {state[x], "Error"}
      OBVIOUS
    <3> QED
      BY <3>1, <3>2 DEF Receiver
  <2> QED
    BY <2>1 DEF Receivers
<1>6. Requesters(b)'
  <2>1. ASSUME NEW x \in Endpoints
        PROVE  Outstanding(x, b[x], pending'[x], completed'[x], Len(delivered'[Peer(x)]))
    BY <1>2 DEF Requesters
  <2> QED
    BY <2>1 DEF Requesters
<1>7. Wiring(b)'
  <2>1. CASE UNCHANGED wire
    BY <1>2, <2>1 DEF Wiring
  <2>2. CASE Arriving(wire[e]) # {} /\ Answer(e, <<>>)
    <3>1. PICK R, A : R = RequestBuilders(e, posted[e], b[e])
                      /\ A = AckBuilders(r, b[r], Len(delivered[e]))
      OBVIOUS
    <3>2. <<>> \in Seq(Built(R \cup NakBuilders \cup A))
      BY SMT
    <3>3. A \subseteq A
      OBVIOUS
    <3>4. /\ wire'[e] \in Wires(Built(Traffic(e, posted[r], b[r], b[e], Len(delivered[r]))))
          /\ wire'[r] \in Wires(Built(Traffic(r, posted[e], b[e], b[r], Len(delivered[e]))))
      BY <1>1, <1>2, <2>2, <3>1, <3>2, <3>3, Exchanging, Zenon
    <3>5. ASSUME NEW x \in Endpoints
          PROVE  wire'[x] \in Wires(Built(Traffic(x, posted'[Peer(x)], b[Peer(x)], b[x],
                                                  Len(delivered'[Peer(x)]))))
      <4>1. CASE x = e
        BY <1>1, <3>4, <4>1
      <4>2. CASE x = r
        BY <1>1, <3>4, <4>2
      <4> QED
        BY <1>1, <4>1, <4>2
    <3> QED
      BY <3>5 DEF Wiring
  <2> QED
    BY <2>1, <2>2
<1> QED
  BY <1>3, <1>4, <1>5, <1>6, <1>7 DEF LinkedBy

(* The first packet of a side has the PSN it was connected with. *)
LEMMA AtStart ==
  ASSUME NEW e \in Endpoints
  PROVE  At(e, 0) = StartPsn[e]
<1>1. 0 <= Half /\ StartPsn[e] \in Nat /\ StartPsn[e] < PsnModulus
  BY SMT, Halves
<1> QED
  BY SMT, <1>1, AtIs

(* A transition of the pair, on its way up or to an error. *)
LEMMA Transitions ==
  ASSUME NEW from \in QpStates, NEW to, is_valid_transition(from, to), to # "Reset"
  PROVE  \/ from = "Reset" /\ to = "Init"
         \/ from = "Init" /\ to = "Rtr"
         \/ from = "Rtr" /\ to = "Rts"
         \/ from = "Rts" /\ to = "Sqd"
         \/ from = "Sqd" /\ to = "Rts"
         \/ to \in {"Error", "SqErr"}
<1>1. CASE from = "Reset"
  BY <1>1 DEF is_valid_transition
<1>2. CASE from = "Init"
  BY <1>2 DEF is_valid_transition
<1>3. CASE from = "Rtr"
  BY <1>3 DEF is_valid_transition
<1>4. CASE from = "Rts"
  BY <1>4 DEF is_valid_transition
<1>5. CASE from = "Sqd"
  BY <1>5 DEF is_valid_transition
<1>6. CASE from = "SqErr"
  BY <1>6 DEF is_valid_transition
<1>7. CASE from = "Error"
  BY <1>7 DEF is_valid_transition
<1> QED
  BY <1>1, <1>2, <1>3, <1>4, <1>5, <1>6, <1>7 DEF QpStates

(* A pair that is connected starts where its peer does. *)
LEMMA Modifying ==
  ASSUME NEW e \in Endpoints, NEW b, NEW L, Typed, LinkedBy(b, L),
         NEW target, target # "Reset", modify_qp(e, target)
  PROVE  LinkedBy(b, L)'
<1>1. PICK r \in Endpoints : r = Peer(e)
  BY Peers
<1>2. Numbers(b, L) /\ Senders(b) /\ Receivers(b) /\ Requesters(b) /\ Wiring(b)
  BY DEF LinkedBy
<1>3. /\ is_valid_transition(state[e], target)
      /\ state' = [state EXCEPT ![e] = target]
      /\ rq_psn' = IF target = "Rtr" THEN [rq_psn EXCEPT ![e] = StartPsn[Peer(e)]] ELSE rq_psn
      /\ sq_psn' = IF state[e] = "Rtr" /\ target = "Rts"
                   THEN [sq_psn EXCEPT ![e] = StartPsn[e]] ELSE sq_psn
      /\ UNCHANGED <<recv_state, write_state, pending, posted, delivered, completed, wire>>
  BY DEF modify_qp, modify, requester, responder
<1>4. /\ state \in [Endpoints -> QpStates] /\ sq_psn \in [Endpoints -> Psns]
      /\ rq_psn \in [Endpoints -> Psns] /\ posted[e] \in Seq(Requests)
      /\ delivered[e] \in Seq(Deliveries) /\ Len(delivered[e]) \in Nat
  BY SMT DEF Typed, QpTyped, RequesterTyped, ResponderTyped
<1>5. \/ state[e] = "Reset" /\ target = "Init"
      \/ state[e] = "Init" /\ target = "Rtr"
      \/ state[e] = "Rtr" /\ target = "Rts"
      \/ state[e] = "Rts" /\ target = "Sqd"
      \/ state[e] = "Sqd" /\ target = "Rts"
      \/ target \in {"Error", "SqErr"}
  <2>1. PICK from \in QpStates : from = state[e]
    BY <1>4
  <2> QED
    BY <1>3, <2>1, Transitions
<1>6. Numbers(b, L)' /\ Requesters(b)' /\ Wiring(b)'
  BY <1>2, <1>3 DEF Numbers, Requesters, Wiring
<1>7. Senders(b)'
  <2>1. Sender(state[e], e, posted[e], b[e], sq_psn[e]) /\ Numbered(posted[e], b[e], L)
    BY <1>2 DEF Senders, Numbers
  <2>2. Sender(target, e, posted[e], b[e], sq_psn'[e])
    <3>1. CASE state[e] = "Rtr" /\ target = "Rts"
      <4>1. posted[e] = <<>> /\ sq_psn'[e] = StartPsn[e]
        BY <1>3, <1>4, <2>1, <3>1 DEF Sender
      <4>2. b[e][Len(b[e])] = 0
        BY SMT, <2>1, <4>1 DEF Numbered
      <4>3. sq_psn'[e] = At(e, b[e][Len(b[e])])
        BY <4>1, <4>2, AtStart
      <4> QED
        BY <3>1, <4>3 DEF Sender
    <3>2. CASE ~(state[e] = "Rtr" /\ target = "Rts")
      <4>1. sq_psn'[e] = sq_psn[e]
        BY <1>3, <3>2
      <4> QED
        BY <1>5, <2>1, <3>2, <4>1 DEF Sender
    <3> QED
      BY <3>1, <3>2
  <2>3. ASSUME NEW x \in Endpoints PROVE Sender(state'[x], x, posted'[x], b[x], sq_psn'[x])
    <3>1. CASE x = e
      BY <1>3, <1>4, <2>2, <3>1
    <3>2. CASE x # e
      <4>1. state'[x] = state[x] /\ sq_psn'[x] = sq_psn[x]
        BY <1>3, <1>4, <3>2
      <4> QED
        BY <1>2, <1>3, <4>1 DEF Senders
    <3> QED
      BY <3>1, <3>2
  <2> QED
    BY <2>3 DEF Senders
<1>8. Receivers(b)'
  <2>1. PICK s, o, n, rs, ws : s = posted[r] /\ o = b[r] /\ n = Len(delivered[e])
                               /\ rs = recv_state[e] /\ ws = write_state[e]
    OBVIOUS
  <2>2. Receiver(state[e], r, s, o, n, rq_psn[e], rs, ws) /\ Numbered(s, o, L)
    BY <1>1, <1>2, <2>1 DEF Receivers, Numbers
  <2>3. Receiver(target, r, s, o, n, rq_psn'[e], rs, ws)
    <3>1. CASE state[e] = "Init" /\ target = "Rtr"
      <4>1. n = 0 /\ ~rs.in_progress /\ ~ws.in_progress /\ rq_psn'[e] = StartPsn[r]
        BY <1>1, <1>3, <1>4, <2>2, <3>1 DEF Receiver
      <4>2. o[n + 1] + 0 = 0
        BY SMT, <2>2, <4>1 DEF Numbered
      <4>3. rq_psn'[e] = At(r, o[n + 1] + 0)
        BY <4>1, <4>2, AtStart
      <4>4. Midway(r, s, o, n, 0, rq_psn'[e], rs, ws)
        BY <4>1, <4>3 DEF Midway, Holds
      <4> QED
        BY <2>2, <3>1, <4>4 DEF Receiver
    <3>2. CASE ~(state[e] = "Init" /\ target = "Rtr")
      <4>1. target # "Rtr"
        BY <1>5, <3>2
      <4>2. rq_psn'[e] = rq_psn[e]
        BY <1>3, <4>1
      <4> QED
        BY <1>5, <2>2, <3>2, <4>2 DEF Receiver
    <3> QED
      BY <3>1, <3>2
  <2>4. ASSUME NEW x \in Endpoints
        PROVE  Receiver(state'[x], Peer(x), posted'[Peer(x)], b[Peer(x)], Len(delivered'[x]),
                        rq_psn'[x], recv_state'[x], write_state'[x])
    <3>1. CASE x = e
      BY <1>1, <1>3, <1>4, <2>1, <2>3, <3>1
    <3>2. CASE x # e
      <4>1. state'[x] = state[x] /\ rq_psn'[x] = rq_psn[x]
        BY <1>3, <1>4, <3>2
      <4> QED
        BY <1>2, <1>3, <4>1 DEF Receivers
    <3> QED
      BY <3>1, <3>2
  <2> QED
    BY <2>4 DEF Receivers
<1> QED
  BY <1>6, <1>7, <1>8 DEF LinkedBy

(* Time passes for the pending requests. *)
LEMMA Timing ==
  ASSUME NEW e \in Endpoints, NEW b, NEW L, Typed, LinkedBy(b, L),
         NEW t \in Elapsed, advance_time(e, t)
  PROVE  LinkedBy(b, L)' /\ UNCHANGED Channel!vars
<1>1. /\ pending' = [pending EXCEPT ![e] = [k \in DOMAIN pending[e] |-> AfterTimeout(pending[e][k], t)]]
      /\ UNCHANGED <<state, sq_psn, rq_psn, recv_state, write_state, posted, delivered, completed, wire>>
  BY DEF advance_time, qpVars, responder
<1>2. pending \in [Endpoints -> Seq(PendingAcks)]
  BY DEF Typed, RequesterTyped
<1>3. PICK q \in Seq(PendingAcks) : q = pending[e]
  BY <1>2
<1>4. PICK u : u = [k \in DOMAIN q |-> AfterTimeout(q[k], t)]
  OBVIOUS
<1>5. Outstanding(e, b[e], q, completed[e], Len(delivered[Peer(e)]))
  BY <1>3 DEF LinkedBy, Requesters
<1>6. ASSUME NEW k \in DOMAIN q
      PROVE  u[k].wr_id = q[k].wr_id /\ u[k].end_psn = q[k].end_psn
  <2>1. q[k] \in PendingAcks
    BY SMT
  <2> QED
    BY <1>4, <2>1, PendingTyped
<1>7. Outstanding(e, b[e], u, completed[e], Len(delivered[Peer(e)]))
  <2>1. DOMAIN u = DOMAIN q
    BY <1>4
  <2> QED
    BY <1>5, <1>6, <2>1, OutstandingKept
<1>8. pending' = [pending EXCEPT ![e] = u] /\ pending'[e] = u
  BY <1>1, <1>2, <1>3, <1>4
<1>9. LinkedBy(b, L)'
  BY <1>1, <1>2, <1>7, <1>8, Requesting
<1> QED
  BY <1>1, <1>9, ChannelStill

(* A NAK arrives. *)
LEMMA NakArrives ==
  ASSUME NEW e \in Endpoints, NEW b, NEW L, Typed, LinkedBy(b, L), Arriving(wire[e]) # {},
         NEW psn, NEW syndrome, process_nak(e, psn, syndrome), Answer(e, <<>>),
         UNCHANGED <<sq_psn, rq_psn, recv_state, write_state, posted, delivered>>
  PROVE  LinkedBy(b, L)' /\ UNCHANGED Channel!vars
<1>1. /\ pending' = [pending EXCEPT ![e] = [k \in DOMAIN pending[e] |-> AfterNak(pending[e][k], psn, syndrome)]]
      /\ state' = state \/ state' = [state EXCEPT ![e] = "Error"]
      /\ UNCHANGED completed
  BY DEF process_nak
<1>2. pending \in [Endpoints -> Seq(PendingAcks)] /\ state \in [Endpoints -> QpStates]
  BY DEF Typed, QpTyped, RequesterTyped
<1>3. PICK q \in Seq(PendingAcks) : q = pending[e]
  BY <1>2
<1>4. PICK u : u = [k \in DOMAIN q |-> AfterNak(q[k], psn, syndrome)]
  OBVIOUS
<1>5. Outstanding(e, b[e], q, completed[e], Len(delivered[Peer(e)]))
  BY <1>3 DEF LinkedBy, Requesters
<1>6. ASSUME NEW k \in DOMAIN q
      PROVE  u[k].wr_id = q[k].wr_id /\ u[k].end_psn = q[k].end_psn
  <2>1. q[k] \in PendingAcks
    BY SMT
  <2> QED
    BY SMT, <1>4, <2>1, PendingTyped
<1>7. Outstanding(e, b[e], u, completed[e], Len(delivered[Peer(e)]))
  <2>1. DOMAIN u = DOMAIN q
    BY <1>4
  <2> QED
    BY <1>5, <1>6, <2>1, OutstandingKept
<1>8. pending' = [pending EXCEPT ![e] = u] /\ pending'[e] = u
  BY <1>1, <1>2, <1>3, <1>4
<1>9. /\ state'[e] \in {state[e], "Error"}
      /\ \A x \in Endpoints : x # e => state'[x] = state[x] /\ pending'[x] = pending[x]
  BY <1>1, <1>2, <1>8
<1>10. LinkedBy(b, L)'
  BY <1>1, <1>7, <1>8, <1>9, Requesting
<1> QED
  BY <1>1, <1>10, ChannelStill

(* The acknowledgement of a message that was delivered arrives. *)
LEMMA AckArrives ==
  ASSUME NEW e \in Endpoints, NEW b, NEW L, Room(L), Typed, LinkedBy(b, L), Arriving(wire[e]) # {},
         NEW k \in 1..Len(delivered[Peer(e)]), NEW psn, psn = At(e, b[e][k + 1] - 1),
         process_ack(e, psn), Answer(e, <<>>),
         UNCHANGED <<sq_psn, rq_psn, recv_state, write_state, posted, delivered>>
  PROVE  LinkedBy(b, L)' /\ [Channel!Next]_(Channel!vars)
<1>1. PICK r \in Endpoints : r = Peer(e) /\ Peer(r) = e
  BY Peers
<1>2. /\ pending \in [Endpoints -> Seq(PendingAcks)] /\ completed \in [Endpoints -> Seq(Nat)]
      /\ delivered \in [Endpoints -> Seq(Deliveries)] /\ posted \in [Endpoints -> Seq(Requests)]
  BY DEF Typed, RequesterTyped, ResponderTyped
<1>3. PICK q \in Seq(PendingAcks), c \in Seq(Nat), n \in Nat, s \in Seq(Requests) :
        q = pending[e] /\ c = completed[e] /\ n = Len(delivered[r]) /\ s = posted[e]
  <2>1. pending[e] \in Seq(PendingAcks) /\ completed[e] \in Seq(Nat) /\ posted[e] \in Seq(Requests)
        /\ Len(delivered[r]) \in Nat
    BY SMT, <1>2
  <2> QED
    BY <2>1, Zenon
<1>4. Outstanding(e, b[e], q, c, n)
  BY <1>1, <1>3 DEF LinkedBy, Requesters
<1>5. /\ Numbered(s, b[e], L) /\ Len(s) <= MaxPosts[e] /\ n <= Len(s)
  <2>1. Numbered(s, b[e], L) /\ Len(s) <= MaxPosts[e]
    BY <1>3 DEF LinkedBy, Numbers
  <2>2. Receiver(state[r], Peer(r), posted[Peer(r)], b[Peer(r)], Len(delivered[r]), rq_psn[r],
                 recv_state[r], write_state[r])
    BY DEF LinkedBy, Receivers
  <2> QED
    BY <1>1, <1>3, <2>1, <2>2 DEF Receiver
<1>6. PICK waiting : waiting = {i \in DOMAIN q : q[i].waiting}
  OBVIOUS
<1>7. PICK acked : acked = {i \in waiting : Acknowledged(q[i], psn)}
  OBVIOUS
<1>8. PICK left \in EntriesAt(q, waiting \ acked) : pending' = [pending EXCEPT ![e] = left]
  BY <1>3, <1>6, <1>7, Zenon DEF process_ack
<1>9. PICK done \in EntriesAt(q, acked) :
        completed' = [completed EXCEPT ![e] = completed[e] \o [i \in DOMAIN done |-> done[i].wr_id]]
  BY <1>3, <1>6, <1>7, Zenon DEF process_ack
<1>10. waiting \in SUBSET (DOMAIN q) /\ acked \in SUBSET (DOMAIN q)
  BY <1>6, <1>7
<1>11. PICK ids : ids = [i \in DOMAIN done |-> done[i].wr_id]
  OBVIOUS
<1>12. ids \in Seq(Nat)
  <2>1. done \in Seq(PendingAcks)
    BY <1>10, Selecting
  <2>2. ASSUME NEW i \in DOMAIN done PROVE done[i].wr_id \in Nat
    <3>1. done[i] \in PendingAcks
      BY SMT, <2>1
    <3> QED
      BY <3>1 DEF PendingAcks
  <2>3. DOMAIN done = 1..Len(done) /\ Len(done) \in Nat
    BY SMT, <2>1
  <2> QED
    BY SMT, <1>11, <2>2, <2>3
<1>13. Outstanding(e, b[e], left, c \o ids, n)
  <2>1. k \in 1..n
    BY <1>1, <1>3
  <2>2. PICK o : o = b[e]
    OBVIOUS
  <2>3. Outstanding(e, o, q, c, n) /\ Numbered(s, o, L) /\ psn = At(e, o[k + 1] - 1)
    BY <1>4, <1>5, <2>2
  <2>4. /\ acked \in SUBSET waiting
        /\ \A i \in waiting : i \in acked <=> Acknowledged(q[i], psn)
        /\ DOMAIN ids = DOMAIN done
        /\ \A i \in DOMAIN done : ids[i] = done[i].wr_id
    BY <1>7, <1>11
  <2>5. Acks(q, psn, ids, left)
    BY <1>10, <2>4, Zenon DEF Acks
  <2>6. Outstanding(e, o, left, c \o ids, n)
    BY <1>5, <1>12, <2>1, <2>3, <2>5, OutstandingAcked, Zenon
  <2> QED
    BY <2>2, <2>6
<1>14. completed' = [completed EXCEPT ![e] = completed[e] \o ids]
  BY <1>9, <1>11
<1>15. state' = state
  BY DEF process_ack
<1>16. Outstanding(e, b[e], left, completed[e] \o ids, Len(delivered[Peer(e)]))
  BY <1>1, <1>3, <1>13
<1>17. LinkedBy(b, L)'
  <2>1. pending'[e] = left /\ completed'[e] = completed[e] \o ids
    BY <1>2, <1>8, <1>14
  <2>2. \A x \in Endpoints : x # e => pending'[x] = pending[x] /\ completed'[x] = completed[x]
                                      /\ state'[x] = state[x]
    BY <1>2, <1>8, <1>14, <1>15
  <2>3. Outstanding(e, b[e], pending'[e], completed'[e], Len(delivered[Peer(e)]))
    BY <1>16, <2>1
  <2> QED
    BY <1>15, <2>2, <2>3, Requesting
<1>18. [Channel!Next]_(Channel!vars)
  BY <1>2, <1>12, <1>14, <1>16, ChannelCompletes
<1> QED
  BY <1>17, <1>18

(* The place of the responder at e, and that of the peer's messages. *)
LEMMA Placed ==
  ASSUME NEW e \in Endpoints, NEW b, NEW L, Typed, LinkedBy(b, L), NEW r, r = Peer(e)
  PROVE  /\ Receiver(state[e], r, posted[r], b[r], Len(delivered[e]), rq_psn[e],
                     recv_state[e], write_state[e])
         /\ Numbered(posted[r], b[r], L) /\ Len(posted[r]) <= MaxPosts[r]
         /\ posted[r] \in Seq(Requests) /\ Len(delivered[e]) \in Nat /\ r \in Endpoints
         /\ Len(delivered[e]) <= Len(posted[r])
<1>1. r \in Endpoints
  BY Peers
<1>2. posted[r] \in Seq(Requests) /\ Len(delivered[e]) \in Nat
  BY SMT, <1>1 DEF Typed, RequesterTyped, ResponderTyped
<1>3. Receiver(state[e], r, posted[r], b[r], Len(delivered[e]), rq_psn[e],
               recv_state[e], write_state[e])
  BY DEF LinkedBy, Receivers
<1>4. Numbered(posted[r], b[r], L) /\ Len(posted[r]) <= MaxPosts[r]
  BY <1>1 DEF LinkedBy, Numbers
<1> QED
  BY <1>1, <1>2, <1>3, <1>4 DEF Receiver

(* A request is refused, or given up with what was received of it. *)
LEMMA Refusal ==
  ASSUME NEW e \in Endpoints, NEW b, NEW L, Typed, LinkedBy(b, L), Arriving(wire[e]) # {},
         NEW psn \in Psns, NEW syndrome \in Syndromes \ {"Ack"},
         Answer(e, generate_ack(psn, syndrome)),
         UNCHANGED <<state, sq_psn, rq_psn, posted, pending, completed, delivered>>,
         \/ UNCHANGED <<recv_state, write_state>>
         \/ \E gone : ~gone.in_progress /\ recv_state' = [recv_state EXCEPT ![e] = gone]
                      /\ UNCHANGED write_state
         \/ \E gone : ~gone.in_progress /\ write_state' = [write_state EXCEPT ![e] = gone]
                      /\ UNCHANGED recv_state
  PROVE  LinkedBy(b, L)' /\ UNCHANGED Channel!vars
<1>1. PICK r : r = Peer(e)
  OBVIOUS
<1>2. PICK n \in Nat : n = Len(delivered[e])
  BY <1>1, Placed
<1>3. PICK A : A = AckBuilders(Peer(e), b[Peer(e)], n)
  OBVIOUS
<1>4. generate_ack(psn, syndrome) \in Seq(Built(NakBuilders \cup A))
  <2>1. generate_ack(psn, syndrome) \in Seq(Built(NakBuilders))
    BY Answers
  <2>2. NakBuilders \subseteq NakBuilders \cup A
    OBVIOUS
  <2> QED
    BY <2>1, <2>2, PacketsGrow, Zenon
<1>5. recv_state \in [Endpoints -> Receiving] /\ write_state \in [Endpoints -> Receiving]
  BY DEF Typed, ResponderTyped
<1>6. /\ n <= Len(posted[r])
      /\ Receiver(state[e], r, posted[r], b[r], n, rq_psn[e], recv_state[e], write_state[e])
  BY <1>1, <1>2, Placed
<1>7. Receiver(state[e], r, posted[r], b[r], n, rq_psn'[e], recv_state'[e], write_state'[e])
  <2>1. CASE UNCHANGED <<recv_state, write_state>>
    BY <1>6, <2>1
  <2>2. ASSUME NEW gone, ~gone.in_progress, recv_state' = [recv_state EXCEPT ![e] = gone],
               UNCHANGED write_state
        PROVE  Receiver(state[e], r, posted[r], b[r], n, rq_psn'[e], recv_state'[e], write_state'[e])
    <3>1. recv_state'[e] = gone
      BY <1>5, <2>2
    <3> QED
      BY SMT, <1>6, <2>2, <3>1, Dropping DEF Receiver
  <2>3. ASSUME NEW gone, ~gone.in_progress, write_state' = [write_state EXCEPT ![e] = gone],
               UNCHANGED recv_state
        PROVE  Receiver(state[e], r, posted[r], b[r], n, rq_psn'[e], recv_state'[e], write_state'[e])
    <3>1. write_state'[e] = gone
      BY <1>5, <2>3
    <3> QED
      BY SMT, <1>6, <2>3, <3>1, Dropping DEF Receiver
  <2> QED
    BY <2>1, <2>2, <2>3
<1>8. \A x \in Endpoints : x # e => /\ rq_psn'[x] = rq_psn[x] /\ delivered'[x] = delivered[x]
                                    /\ recv_state'[x] = recv_state[x]
                                    /\ write_state'[x] = write_state[x]
  BY <1>5
<1>9. n = Len(delivered'[e]) /\ n \in {Len(delivered[e]), Len(delivered[e]) + 1}
  BY <1>2
<1>10. LinkedBy(b, L)'
  BY <1>1, <1>3, <1>4, <1>6, <1>7, <1>8, <1>9, Responding
<1> QED
  BY <1>10, ChannelStill

(* The step that accepts packet p of request w, taken into st. *)
Accepts(e, w, p, st, recv) ==
  /\ st \in Receiving /\ st.in_progress /\ (p.first => st.data = <<>>)
  /\ ~p.first => st = IF w.op = "RdmaWrite" THEN write_state[e] ELSE recv_state[e]
  /\ w.op = "RdmaWrite" =>
       UNCHANGED recv_state /\ write_state' = [write_state EXCEPT ![e] = Advanced(p, st)]
  /\ w.op # "RdmaWrite" =>
       UNCHANGED write_state /\ recv_state' = [recv_state EXCEPT ![e] = Advanced(p, st)]
  /\ Accept(e, p, Message(p, st, recv))

(* The packet with the number that is expected is accepted: the responder  *)
(* moves on in the message, or behind it when it is whole, and then the    *)
(* channel delivers it.                                                    *)
LEMMA Acceptance ==
  ASSUME NEW e \in Endpoints, NEW b, NEW L, Room(L), Ops \subseteq Simple, Typed, LinkedBy(b, L),
         Arriving(wire[e]) # {}, state[e] \in {"Rtr", "Rts"}, NEW r, r = Peer(e),
         NEW k \in DOMAIN posted[r], NEW i \in 1..Count(posted[r][k].len),
         NEW p, SeenPacket(p, posted[r][k], At(r, b[r][k]), i), p.psn = rq_psn[e],
         NEW st, NEW recv \in Nat, Accepts(e, posted[r][k], p, st, recv)
  PROVE  LinkedBy(b, L)' /\ [Channel!Next]_(Channel!vars)
<1>0. /\ st \in Receiving /\ st.in_progress /\ (p.first => st.data = <<>>)
      /\ ~p.first => st = IF posted[r][k].op = "RdmaWrite" THEN write_state[e] ELSE recv_state[e]
      /\ posted[r][k].op = "RdmaWrite" =>
           UNCHANGED recv_state /\ write_state' = [write_state EXCEPT ![e] = Advanced(p, st)]
      /\ posted[r][k].op # "RdmaWrite" =>
           UNCHANGED write_state /\ recv_state' = [recv_state EXCEPT ![e] = Advanced(p, st)]
      /\ Accept(e, p, Message(p, st, recv))
  BY DEF Accepts
<1>1. /\ Receiver(state[e], r, posted[r], b[r], Len(delivered[e]), rq_psn[e],
                  recv_state[e], write_state[e])
      /\ Numbered(posted[r], b[r], L) /\ Len(posted[r]) <= MaxPosts[r]
      /\ posted[r] \in Seq(Requests) /\ Len(delivered[e]) \in Nat /\ r \in Endpoints
      /\ Len(delivered[e]) <= Len(posted[r])
  BY Placed
<1>2. PICK s \in Seq(Requests) : s = posted[r]
  BY <1>1
<1>3. PICK n \in Nat : n = Len(delivered[e])
  BY <1>1
<1>4. PICK o, rq, rs, ws : o = b[r] /\ rq = rq_psn[e] /\ rs = recv_state[e] /\ ws = write_state[e]
  OBVIOUS
<1>5. PICK j \in Nat : Midway(r, s, o, n, j, rq, rs, ws)
  BY <1>1, <1>2, <1>3, <1>4 DEF Receiver
<1>6. p \in SeenSet
  BY DEF SeenPacket
<1>7. PICK more : more = Advanced(p, st)
  OBVIOUS
<1>8. (more.in_progress <=> ~p.last) /\ more.data = st.data \o p.payload
  <2>1. more = [in_progress |-> ~p.last, wr_id |-> st.wr_id, size |-> st.size,
                expected_psn |-> advance_psn(p.psn), data |-> st.data \o p.payload]
    BY <1>0, <1>6, <1>7, Advancing, Zenon
  <2>2. more.in_progress = ~p.last
    BY <2>1, Zenon
  <2>3. more.data = st.data \o p.payload
    BY <2>1
  <2>4. p.last \in BOOLEAN
    BY <1>6 DEF SeenSet
  <2> QED
    BY <2>2, <2>3, <2>4, Zenon
<1>9. recv_state \in [Endpoints -> Receiving] /\ write_state \in [Endpoints -> Receiving]
      /\ rq_psn \in [Endpoints -> Psns] /\ delivered \in [Endpoints -> Seq(Deliveries)]
      /\ posted \in [Endpoints -> Seq(Requests)]
  BY DEF Typed, QpTyped, ResponderTyped, RequesterTyped
<1>10. PICK rs2, ws2 : rs2 = recv_state'[e] /\ ws2 = write_state'[e]
  OBVIOUS
<1>11. /\ s[k].op = "RdmaWrite" => rs2 = rs /\ ws2 = more
       /\ s[k].op # "RdmaWrite" => rs2 = more /\ ws2 = ws
  BY <1>0, <1>2, <1>4, <1>7, <1>9, <1>10
<1>12. /\ k = n + 1
       /\ ~p.last => Midway(r, s, o, n, j + 1, advance_psn(rq), rs2, ws2)
       /\ p.last =>
            /\ Midway(r, s, o, n + 1, 0, advance_psn(rq), rs2, ws2)
            /\ p.psn = At(r, o[k + 1] - 1)
            /\ st.data \o p.payload = Fragments(s[k].wr_id, s[k].len)
  <2>1. /\ SeenPacket(p, s[k], At(r, o[k]), i) /\ p.psn = rq
        /\ ~p.first => st = IF s[k].op = "RdmaWrite" THEN ws ELSE rs
        /\ Numbered(s, o, L) /\ Len(s) <= MaxPosts[r] /\ n <= Len(s) /\ r \in Endpoints
        /\ k \in DOMAIN s /\ i \in 1..Count(s[k].len)
    BY <1>0, <1>1, <1>2, <1>3, <1>4
  <2>2. Consumes(p, st, s[k], rs, ws, rs2, ws2)
    BY <1>0, <1>8, <1>11, <2>1, Zenon DEF Consumes
  <2>3. Taken(r, s, o, n, j, rq, k, p, st, rs2, ws2)
    BY <1>5, <2>1, <2>2, Taking, Zenon
  <2> QED
    BY <2>3 DEF Taken
<1>13. /\ rq_psn' = [rq_psn EXCEPT ![e] = advance_psn(rq_psn[e])]
       /\ UNCHANGED <<state, sq_psn, posted, pending, completed>>
       /\ delivered' = IF p.last THEN [delivered EXCEPT ![e] = Append(delivered[e], Message(p, st, recv))]
                       ELSE delivered
       /\ Answer(e, IF p.last THEN generate_ack(p.psn, "Ack") ELSE <<>>)
  <2>1. p.ack_request <=> p.last
    BY DEF SeenPacket
  <2> QED
    BY <1>0, <2>1 DEF Accept, requester
<1>14. /\ rq_psn'[e] = advance_psn(rq)
       /\ \A x \in Endpoints : x # e => /\ rq_psn'[x] = rq_psn[x] /\ delivered'[x] = delivered[x]
                                        /\ recv_state'[x] = recv_state[x]
                                        /\ write_state'[x] = write_state[x]
  BY <1>0, <1>4, <1>9, <1>13
<1>15. CASE ~p.last
  <2>1. n = Len(delivered'[e]) /\ n \in {Len(delivered[e]), Len(delivered[e]) + 1}
        /\ n <= Len(posted[Peer(e)]) /\ UNCHANGED delivered
    BY <1>1, <1>3, <1>13, <1>15
  <2>2. Receiver(state[e], Peer(e), posted[Peer(e)], b[Peer(e)], n, rq_psn'[e],
                 recv_state'[e], write_state'[e])
    <3>1. Midway(r, s, o, n, j + 1, rq_psn'[e], rs2, ws2) /\ j + 1 \in Nat
      BY SMT, <1>12, <1>14, <1>15
    <3>2. n <= Len(s) /\ state[e] \notin {"Reset", "Init"}
      BY <1>1, <1>2, <1>3
    <3>3. Receiver(state[e], r, s, o, n, rq_psn'[e], rs2, ws2)
      BY <3>1, <3>2 DEF Receiver
    <3> QED
      BY ZenonT(30), <1>2, <1>4, <1>10, <3>3
  <2>3. PICK A : A = AckBuilders(Peer(e), b[Peer(e)], n)
    OBVIOUS
  <2>4. <<>> \in Seq(Built(NakBuilders \cup A)) /\ Answer(e, <<>>)
    BY SMT, <1>13, <1>15
  <2>5. LinkedBy(b, L)'
    BY <1>13, <1>14, <2>1, <2>2, <2>3, <2>4, Responding
  <2> QED
    BY <1>13, <2>1, <2>5, ChannelStill
<1>16. CASE p.last
  <2>0. PICK m : m = Message(p, st, recv)
    OBVIOUS
  <2>1. m \in Deliveries
    BY <1>0, <1>6, <2>0, Advancing
  <2>2. delivered' = [delivered EXCEPT ![e] = Append(delivered[e], m)]
    BY <1>13, <1>16, <2>0
  <2>3. n + 1 = Len(delivered'[e]) /\ n + 1 \in {Len(delivered[e]), Len(delivered[e]) + 1}
    <3>1. delivered'[e] = Append(delivered[e], m) /\ delivered[e] \in Seq(Deliveries)
      BY <1>9, <2>2
    <3>2. Len(Append(delivered[e], m)) = Len(delivered[e]) + 1
      BY SMTT(20), <3>1, <2>1
    <3> QED
      BY <1>3, <3>1, <3>2
  <2>4. n + 1 <= Len(s) /\ n < Len(s)
    <3>1. k \in 1..Len(s) /\ Len(s) \in Nat
      BY SMT, <1>2
    <3> QED
      BY SMT, <1>12, <3>1
  <2>5. Receiver(state[e], Peer(e), posted[Peer(e)], b[Peer(e)], n + 1, rq_psn'[e],
                 recv_state'[e], write_state'[e])
    <3>1. Midway(r, s, o, n + 1, 0, rq_psn'[e], rs2, ws2) /\ 0 \in Nat
      BY <1>12, <1>14, <1>16
    <3>2. state[e] \notin {"Reset", "Init"}
      OBVIOUS
    <3>3. Receiver(state[e], r, s, o, n + 1, rq_psn'[e], rs2, ws2)
      BY <2>4, <3>1, <3>2 DEF Receiver
    <3> QED
      BY <1>2, <1>4, <1>10, <3>3
  <2>6. PICK A : A = AckBuilders(Peer(e), b[Peer(e)], n + 1)
    OBVIOUS
  <2>7. generate_ack(p.psn, "Ack") \in Seq(Built(NakBuilders \cup A)) /\ Answer(e, generate_ack(p.psn, "Ack"))
    <3>1. PICK psn \in Psns : psn = p.psn
      BY <1>6 DEF SeenSet
    <3>2. n + 1 \in 1..(n + 1) /\ psn = At(r, o[(n + 1) + 1] - 1)
      BY SMT, <1>12, <1>16, <3>1
    <3>3. generate_ack(psn, "Ack") \in Seq(Built(AckBuilders(r, o, n + 1)))
      BY <3>2, Answers
    <3>4. PICK B : B = NakBuilders \cup A
      OBVIOUS
    <3>5. A = AckBuilders(r, o, n + 1) /\ A \subseteq B
      BY <1>4, <2>6, <3>4
    <3>6. generate_ack(psn, "Ack") \in Seq(Built(B))
      BY <3>3, <3>5, PacketsGrow
    <3> QED
      BY <1>13, <1>16, <3>1, <3>4, <3>6
  <2>8. LinkedBy(b, L)'
    <3>1. PICK packets : packets = generate_ack(p.psn, "Ack")
      OBVIOUS
    <3>2. packets \in Seq(Built(NakBuilders \cup A)) /\ Answer(e, packets)
      BY <2>7, <3>1
    <3>3. n + 1 <= Len(posted[Peer(e)])
      BY <1>2, <2>4
    <3> QED
      BY <1>13, <1>14, <2>3, <2>5, <2>6, <3>2, <3>3, Responding
  <2>9. Receipt(m) = Whole(s[n + 1])
    <3>1. PICK w : w = s[k]
      OBVIOUS
    <3>2. p.wr_id = w.wr_id /\ p.immediate = Immediate(w)
      BY <1>2, <1>16, <3>1 DEF SeenPacket
    <3>3. st.data \o p.payload = Fragments(w.wr_id, w.len) /\ w = s[n + 1]
      BY <1>12, <1>16, <3>1
    <3>4. m.wr_id = w.wr_id /\ m.data = Fragments(w.wr_id, w.len) /\ m.imm = Immediate(w)
      BY <2>0, <3>2, <3>3 DEF Message
    <3> QED
      BY <3>3, <3>4 DEF Receipt, Whole
  <2>10. Channel!Next
    BY <1>2, <1>3, <1>9, <1>13, <2>1, <2>2, <2>4, <2>9, ChannelDelivers
  <2> QED
    BY <2>8, <2>10
<1> QED
  BY <1>15, <1>16

(* A refusal as the handlers make it. *)
LEMMA Refuses ==
  ASSUME NEW e \in Endpoints, NEW b, NEW L, Typed, LinkedBy(b, L), Arriving(wire[e]) # {},
         NEW psn \in Psns, NEW syndrome \in Syndromes \ {"Ack"}, Nak(e, psn, syndrome)
  PROVE  LinkedBy(b, L)' /\ UNCHANGED Channel!vars
<1>1. /\ Answer(e, generate_ack(psn, syndrome))
      /\ UNCHANGED <<state, sq_psn, rq_psn, posted, pending, completed, delivered>>
      /\ UNCHANGED <<recv_state, write_state>>
  BY DEF Nak, qpVars, requester, responder
<1> QED
  BY <1>1, Refusal

(* A packet of a SEND arrives. *)
LEMMA SendArrives ==
  ASSUME NEW e \in Endpoints, NEW b, NEW L, Room(L), Ops \subseteq Simple, Typed, LinkedBy(b, L),
         Arriving(wire[e]) # {}, NEW r, r = Peer(e),
         NEW k \in DOMAIN posted[r], NEW i \in 1..Count(posted[r][k].len),
         NEW p, SeenPacket(p, posted[r][k], At(r, b[r][k]), i),
         posted[r][k].op # "RdmaWrite", process_recv_packet(e, p)
  PROVE  LinkedBy(b, L)' /\ [Channel!Next]_(Channel!vars)
<1>1. p \in SeenSet
  BY DEF SeenPacket
<1>2. p.psn \in Psns /\ {"RnrNak", "RemoteAccessError"} \subseteq Syndromes \ {"Ack"}
  BY <1>1 DEF SeenSet, Syndromes
<1>3. recv_state[e] \in Receiving
  BY DEF Typed, ResponderTyped
<1>4. CASE Refused(e, p) \/ OutOfPlace(e, p, recv_state[e])
  BY <1>1, <1>3, <1>4, Refusing, Refuses
<1>5. CASE Nak(e, p.psn, "RnrNak")
  BY <1>2, <1>5, Refuses
<1>6. ASSUME NEW st, st = RecvState(e, p), Acceptable(e, p), InPlace(p, st),
             p.first => recv_queue[e] # <<>>, UNCHANGED write_state,
             recv_state' = [recv_state EXCEPT ![e] = Advanced(p, st)],
             Accept(e, p, Message(p, st, st.wr_id))
      PROVE  LinkedBy(b, L)' /\ [Channel!Next]_(Channel!vars)
  <2>1. st \in Receiving /\ (p.first => st.data = <<>>)
    BY <1>1, <1>6, Held
  <2>2. st.wr_id \in Nat /\ st.in_progress
    BY <1>6, <2>1 DEF Receiving, InPlace
  <2>3. ~p.first => st = recv_state[e]
    BY <1>6 DEF RecvState
  <2>4. state[e] \in {"Rtr", "Rts"} /\ p.psn = rq_psn[e]
    BY <1>6 DEF Acceptable, can_receive
  <2>5. PICK recv \in Nat : recv = st.wr_id
    BY <2>2
  <2>6. Accept(e, p, Message(p, st, recv))
    BY <1>6, <2>5
  <2>7. Accepts(e, posted[r][k], p, st, recv)
    BY <1>6, <2>1, <2>2, <2>3, <2>6 DEF Accepts
  <2> QED
    BY <2>4, <2>7, Acceptance
<1>7. ASSUME NEW st, st = RecvState(e, p), p.first => recv_queue[e] # <<>>, UNCHANGED write_state,
             recv_state' = [recv_state EXCEPT ![e] = [st EXCEPT !.in_progress = FALSE]],
             Answer(e, generate_ack(p.psn, "RemoteAccessError")),
             UNCHANGED <<state, sq_psn, rq_psn, recvs, delivered, requester>>
      PROVE  LinkedBy(b, L)' /\ [Channel!Next]_(Channel!vars)
  <2>1. st \in Receiving
    BY <1>1, <1>7, Held
  <2>2. PICK gone : gone = [st EXCEPT !.in_progress = FALSE]
    OBVIOUS
  <2>3. ~gone.in_progress
    <3>1. gone = [in_progress |-> FALSE, wr_id |-> st.wr_id, size |-> st.size,
                  expected_psn |-> st.expected_psn, data |-> st.data]
      BY <1>1, <2>1, <2>2, Advancing
    <3> QED
      BY <3>1
  <2>4. UNCHANGED <<state, sq_psn, rq_psn, posted, pending, completed, delivered>>
    BY <1>7 DEF requester
  <2> QED
    BY <1>2, <1>7, <2>2, <2>3, <2>4, Refusal
<1> QED
  BY <1>4, <1>5, <1>6, <1>7 DEF process_recv_packet

(* A packet of a WRITE arrives. *)
LEMMA WriteArrives ==
  ASSUME NEW e \in Endpoints, NEW b, NEW L, Room(L), Ops \subseteq Simple, Typed, LinkedBy(b, L),
         Arriving(wire[e]) # {}, NEW r, r = Peer(e),
         NEW k \in DOMAIN posted[r], NEW i \in 1..Count(posted[r][k].len),
         NEW p, SeenPacket(p, posted[r][k], At(r, b[r][k]), i),
         posted[r][k].op = "RdmaWrite", process_write_packet(e, p)
  PROVE  LinkedBy(b, L)' /\ [Channel!Next]_(Channel!vars)
<1>1. p \in SeenSet /\ p.immediate = <<>>
  BY DEF SeenPacket
<1>2. p.psn \in Psns /\ "RemoteAccessError" \in Syndromes \ {"Ack"}
  BY <1>1 DEF SeenSet, Syndromes
<1>3. write_state[e] \in Receiving
  BY DEF Typed, ResponderTyped
<1>4. CASE Refused(e, p) \/ OutOfPlace(e, p, write_state[e])
  BY <1>1, <1>3, <1>4, Refusing, Refuses
<1>5. CASE Nak(e, p.psn, "RemoteAccessError")
  BY <1>2, <1>5, Refuses
<1>6. ASSUME NEW st, st = WriteState(e, p), Acceptable(e, p), InPlace(p, st), UNCHANGED recv_state,
             write_state' = [write_state EXCEPT ![e] = Advanced(p, st)],
             Accept(e, p, Message(p, st, 0))
      PROVE  LinkedBy(b, L)' /\ [Channel!Next]_(Channel!vars)
  <2>1. st \in Receiving /\ (p.first => st.data = <<>>)
    BY <1>1, <1>6, Held
  <2>2. st.in_progress
    BY <1>6 DEF InPlace
  <2>3. ~p.first => st = write_state[e]
    BY <1>6 DEF WriteState
  <2>4. state[e] \in {"Rtr", "Rts"} /\ p.psn = rq_psn[e]
    BY <1>6 DEF Acceptable, can_receive
  <2>5. 0 \in Nat
    OBVIOUS
  <2>6. Accepts(e, posted[r][k], p, st, 0)
    BY <1>6, <2>1, <2>2, <2>3 DEF Accepts
  <2> QED
    BY <2>4, <2>5, <2>6, Acceptance
<1>7. ASSUME NEW st, st = WriteState(e, p), UNCHANGED recv_state,
             write_state' = [write_state EXCEPT ![e] = [st EXCEPT !.in_progress = FALSE]],
             Answer(e, generate_ack(p.psn, "RemoteAccessError")),
             UNCHANGED <<qpVars, recvs, delivered, requester>>
      PROVE  LinkedBy(b, L)' /\ [Channel!Next]_(Channel!vars)
  <2>1. st \in Receiving
    BY <1>1, <1>7, Held
  <2>2. PICK gone : gone = [st EXCEPT !.in_progress = FALSE]
    OBVIOUS
  <2>3. ~gone.in_progress
    <3>1. gone = [in_progress |-> FALSE, wr_id |-> st.wr_id, size |-> st.size,
                  expected_psn |-> st.expected_psn, data |-> st.data]
      BY <1>1, <2>1, <2>2, Advancing
    <3> QED
      BY <3>1
  <2>4. UNCHANGED <<state, sq_psn, rq_psn, posted, pending, completed, delivered>>
    BY <1>7 DEF requester, qpVars
  <2> QED
    BY <1>2, <1>7, <2>2, <2>3, <2>4, Refusal
<1> QED
  BY <1>1, <1>4, <1>5, <1>6, <1>7 DEF process_write_packet

(* What is seen of an acknowledgement, positive or negative. *)
LEMMA SeenAck ==
  ASSUME NEW psn, NEW syndrome, NEW c, c = AckBuilder(psn, syndrome)
  PROVE  Seen(c).opcode = "Ack" /\ Seen(c).psn = psn /\ Seen(c).syndrome = syndrome
BY DEF Seen, AckBuilder, RdmaPacketBuilder, needs_aeth

(* Opcodes are of one kind. *)
LEMMA Kinds ==
  /\ "Ack" \notin SendOpcodes /\ "Ack" \notin WriteOpcodes /\ ~opcode_is_read_response("Ack")
  /\ \A op \in SendOpcodes :
       op \notin WriteOpcodes /\ op # "ReadRequest" /\ op # "Ack" /\ ~opcode_is_read_response(op)
  /\ \A op \in WriteOpcodes :
       op \notin SendOpcodes /\ op # "ReadRequest" /\ op # "Ack" /\ ~opcode_is_read_response(op)
BY DEF SendOpcodes, WriteOpcodes, opcode_is_read_response

(* Whatever arrives is handled. *)
LEMMA Arrival ==
  ASSUME NEW e \in Endpoints, NEW b, NEW L, Room(L), Ops \subseteq Simple, Typed, LinkedBy(b, L),
         process_incoming_packet(e)
  PROVE  LinkedBy(b, L)' /\ [Channel!Next]_(Channel!vars)
<1>1. PICK p \in {parse(packet) : packet \in {w \in Arriving(wire[e]) : parses(w)}} :
        \/ p.opcode \in SendOpcodes /\ process_recv_packet(e, p)
        \/ p.opcode \in WriteOpcodes /\ process_write_packet(e, p)
        \/ p.opcode = "ReadRequest" /\ process_read_request(e, p)
        \/ opcode_is_read_response(p.opcode) /\ process_read_response_packet(e, p)
        \/ p.opcode = "Ack" /\ process_ack_packet(e, p)
  BY DEF process_incoming_packet
<1>2. PICK packet \in Arriving(wire[e]) : p = parse(packet)
  BY <1>1
<1>3. Arriving(wire[e]) # {}
  BY <1>2
<1>4. PICK r \in Endpoints : r = Peer(e) /\ Peer(r) = e
  BY Peers
<1>5. PICK R, A : R = RequestBuilders(r, posted[r], b[r]) /\ A = AckBuilders(e, b[e], Len(delivered[r]))
  OBVIOUS
<1>6. packet \in Built(R \cup NakBuilders \cup A)
  <2>1. PICK T : T = R \cup NakBuilders \cup A
    OBVIOUS
  <2>2. T = Traffic(e, posted[r], b[r], b[e], Len(delivered[r]))
    BY <1>4, <1>5, <2>1 DEF Traffic
  <2>3. wire[e] \in Wires(Built(T))
    BY <1>4, <2>2 DEF LinkedBy, Wiring
  <2>4. <<>> \in Seq(Built(T))
    BY SMT
  <2>5. Arriving(wire[e]) \subseteq Built(T)
    BY <2>3, <2>4, Carrying
  <2> QED
    BY <1>2, <2>1, <2>5
<1>7. PICK c \in R \cup NakBuilders \cup A : packet = build(c)
  BY <1>6 DEF Built
<1>8. c \in Builders
  BY <1>5 DEF RequestBuilders, NakBuilders, AckBuilders
<1>9. p = Seen(c)
  BY <1>2, <1>7, <1>8, Sight
<1>10. CASE c \in R
  <2>1. posted[r] \in Seq(Requests) /\ Numbered(posted[r], b[r], L) /\ Len(posted[r]) <= MaxPosts[r]
    BY <1>4, Placed
  <2>2. PICK k \in DOMAIN posted[r] : \E i \in 1..Count(posted[r][k].len) :
                                        c = PacketOf(posted[r][k], At(r, b[r][k]), i)
    BY <1>5, <1>10 DEF RequestBuilders
  <2>3. PICK i \in 1..Count(posted[r][k].len) : c = PacketOf(posted[r][k], At(r, b[r][k]), i)
    BY <2>2
  <2>4. posted[r][k] \in Work /\ posted[r][k].op \in Simple
    BY <2>1, Requested
  <2>5. At(r, b[r][k]) \in Psns
    <3>1. /\ \A m \in DOMAIN b[r] : b[r][m] \in Nat /\ b[r][m] <= Half
          /\ DOMAIN b[r] = 1..(Len(posted[r]) + 1) /\ Len(posted[r]) \in Nat
      BY <2>1, Within
    <3>2. k \in DOMAIN b[r]
      BY SMT, <2>1, <3>1
    <3> QED
      BY <3>1, <3>2, AtIs
  <2>6. SeenPacket(p, posted[r][k], At(r, b[r][k]), i)
    BY <1>9, <2>3, <2>4, <2>5, Sighting
  <2>7. CASE posted[r][k].op = "RdmaWrite"
    <3>1. p.opcode \in WriteOpcodes
      BY <2>6, <2>7 DEF SeenPacket
    <3>2. process_write_packet(e, p)
      BY <1>1, <3>1, Kinds
    <3> QED
      BY <1>3, <1>4, <2>6, <2>7, <3>2, WriteArrives
  <2>8. CASE posted[r][k].op # "RdmaWrite"
    <3>1. p.opcode \in SendOpcodes
      BY <2>6, <2>8 DEF SeenPacket
    <3>2. process_recv_packet(e, p)
      BY <1>1, <3>1, Kinds
    <3> QED
      BY <1>3, <1>4, <2>6, <2>8, <3>2, SendArrives
  <2> QED
    BY <2>7, <2>8
<1>11. ASSUME p.opcode = "Ack"
       PROVE  /\ Answer(e, <<>>)
              /\ UNCHANGED <<sq_psn, rq_psn, recv_state, write_state, posted, delivered>>
              /\ \/ p.syndrome = "Ack" /\ process_ack(e, p.psn)
                 \/ p.syndrome # "Ack" /\ process_nak(e, p.psn, p.syndrome)
  BY <1>1, <1>11, Kinds DEF process_ack_packet, responder
<1>12. CASE c \in NakBuilders
  <2>1. PICK psn \in Psns, syndrome \in Syndromes \ {"Ack"} : c = AckBuilder(psn, syndrome)
    BY <1>12 DEF NakBuilders
  <2>2. p.opcode = "Ack" /\ p.syndrome # "Ack"
    BY SMT, <1>9, <2>1, SeenAck
  <2> QED
    BY <1>3, <1>11, <2>2, NakArrives
<1>13. CASE c \in A
  <2>1. PICK k \in 1..Len(delivered[r]) : c = AckBuilder(At(e, b[e][k + 1] - 1), "Ack")
    BY <1>5, <1>13 DEF AckBuilders
  <2>2. p.opcode = "Ack" /\ p.syndrome = "Ack" /\ p.psn = At(e, b[e][k + 1] - 1)
    BY SMT, <1>9, <2>1, SeenAck
  <2>3. PICK psn : psn = p.psn
    OBVIOUS
  <2>4. process_ack(e, psn) /\ psn = At(e, b[e][k + 1] - 1) /\ k \in 1..Len(delivered[Peer(e)])
    BY <1>4, <1>11, <2>2, <2>3
  <2> QED
    BY <1>3, <1>11, <2>2, <2>4, AckArrives
<1> QED
  BY <1>7, <1>10, <1>12, <1>13

-----------------------------------------------------------------------------
(* A request is posted. *)

(* post_send numbers the message behind the earlier ones. *)
LEMMA Posting ==
  ASSUME NEW e \in Endpoints, NEW b, NEW L, Room(L), Ops \subseteq Simple, Typed, Typed',
         LinkedBy(b, L), NEW op \in Ops, NEW len \in Lengths, post_send(e, op, len)
  PROVE  (\E d : LinkedBy(d, L)') /\ Channel!Next
<1>1. PICK r \in Endpoints : r = Peer(e) /\ Peer(r) = e /\ r # e /\ \A y \in Endpoints : y = e \/ y = r
  BY Peers
<1>2. Numbers(b, L) /\ Senders(b) /\ Receivers(b) /\ Requesters(b) /\ Wiring(b)
  BY DEF LinkedBy
<1>3. /\ posted \in [Endpoints -> Seq(Requests)] /\ pending \in [Endpoints -> Seq(PendingAcks)]
      /\ sq_psn \in [Endpoints -> Psns] /\ wire = [y \in Endpoints |-> wire[y]]
  BY DEF Typed, QpTyped, RequesterTyped, WireTyped
<1>4. PICK s \in Seq(Requests) : s = posted[e]
  BY <1>3
<1>5. PICK o \in Seq(Nat) : o = b[e] /\ Numbered(s, o, L) /\ Len(o) = Len(s) + 1 /\ Len(s) \in Nat
  <2>1. b[e] \in Seq(Nat) /\ Numbered(s, b[e], L) /\ Len(b[e]) = Len(s) + 1
    BY <1>2, <1>4 DEF Numbers, Numbered
  <2>2. Len(s) \in Nat
    BY SMT
  <2> QED
    BY <2>1, <2>2
<1>6. PICK w \in Requests : w = [wr_id |-> Len(s) + 1, op |-> op, len |-> len]
  <2>1. Len(s) + 1 \in Nat /\ len \in Nat
    BY SMT, <1>5, WorkAssumption
  <2> QED
    BY <2>1, WorkAssumption DEF Requests
<1>7. w.wr_id = Len(s) + 1 /\ w.len = len /\ w.op = op
  BY <1>6
<1>8. PICK c \in Nat : c = Count(len) /\ 0 < c /\ c <= L
  <2>1. Count(len) \in Nat /\ Count(len) > 0
    BY SMT, Counting, WorkAssumption
  <2> QED
    BY <2>1 DEF Room
<1>9. /\ Len(s) < MaxPosts[e] /\ state[e] = "Rts"
      /\ posted' = [posted EXCEPT ![e] = Append(s, w)]
      /\ sq_psn' = [sq_psn EXCEPT ![e] = advance_psn((sq_psn[e] + Len(generate_packets(w, sq_psn[e])) - 1) % PsnModulus)]
      /\ pending' = [pending EXCEPT ![e] = Append(pending[e], PendingAck(w, sq_psn[e],
                                    (sq_psn[e] + Len(generate_packets(w, sq_psn[e])) - 1) % PsnModulus))]
      /\ queue_outgoing(e, generate_packets(w, sq_psn[e]))
      /\ UNCHANGED <<state, rq_psn, recv_state, write_state, completed, delivered>>
  BY <1>4, <1>6, Zenon DEF post_send, responder
<1>10. L \in Nat /\ MaxPosts[e] \in Nat /\ Half \in Nat
  BY Halves DEF Room
<1>11. PICK y \in Nat : y = o[Len(o)]
  BY SMT, <1>5
<1>12. PICK x \in Nat : x = y + c
  BY SMT, <1>8, <1>11
<1>13. PICK t \in Seq(Requests) : t = Append(s, w)
  <2>1. Append(s, w) \in Seq(Requests)
    BY SMT
  <2> QED
    BY <2>1, Zenon
<1>14. PICK u \in Seq(Nat) : u = Append(o, x)
  <2>1. Append(o, x) \in Seq(Nat)
    BY SMT
  <2> QED
    BY <2>1, Zenon
<1>15. Numbered(t, u, L)
  BY <1>5, <1>7, <1>8, <1>10, <1>11, <1>12, <1>13, <1>14, NumbersGrow
<1>16. Len(t) = Len(s) + 1 /\ Len(t) <= MaxPosts[e]
  BY SMT, <1>5, <1>9, <1>10, <1>13
<1>17. u[Len(u)] = x /\ Len(u) = Len(o) + 1 /\ u # <<>> /\ Len(u) \in DOMAIN u
  <2>1. Len(u) = Len(o) + 1 /\ u[Len(o) + 1] = x /\ Len(o) \in Nat
    BY SMT, <1>14
  <2>2. DOMAIN u = 1..(Len(o) + 1) /\ u # <<>>
    BY SMT, <2>1
  <2>3. Len(o) + 1 \in 1..(Len(o) + 1)
    BY SMT, <2>1
  <2> QED
    BY <2>1, <2>2, <2>3
<1>18. x <= Half
  BY <1>15, <1>16, <1>17, Within
<1>19. sq_psn[e] = At(e, o[Len(o)])
  BY <1>2, <1>4, <1>5, <1>9 DEF Senders, Sender
<1>20. At(e, o[Len(o)]) \in Psns
  BY <1>3, <1>19
<1>21. Len(generate_packets(w, sq_psn[e])) = c
  <2>1. Len(o) = Len(s) + 1
    BY <1>5
  <2>2. /\ RequestBuilders(e, s, o) \subseteq RequestBuilders(e, Append(s, w), Append(o, x))
        /\ generate_packets(w, At(e, o[Len(o)])) \in
             Seq(Built(RequestBuilders(e, Append(s, w), Append(o, x))))
        /\ Len(generate_packets(w, At(e, o[Len(o)]))) = Count(w.len)
    BY <1>20, <2>1, RequestsGrow
  <2> QED
    BY <1>7, <1>8, <1>19, <2>2
<1>22. (sq_psn[e] + Len(generate_packets(w, sq_psn[e])) - 1) % PsnModulus = At(e, x - 1)
  <2>1. y + c - 1 <= Half /\ y + c - 1 = x - 1
    BY SMT, <1>10, <1>12, <1>18
  <2>2. (At(e, y) + c - 1) % PsnModulus = At(e, y + c - 1)
    BY <1>8, <2>1, AtCounts
  <2> QED
    BY <1>11, <1>19, <1>21, <2>1, <2>2
<1>23. advance_psn(At(e, x - 1)) = At(e, x)
  <2>1. PICK z \in Nat : z = x - 1 /\ z < Half /\ z + 1 = x
    <3>1. x - 1 \in Nat /\ x - 1 < Half /\ (x - 1) + 1 = x
      BY SMT, <1>8, <1>10, <1>12, <1>18
    <3> QED
      BY <3>1, Zenon
  <2>2. advance_psn(At(e, z)) = At(e, z + 1)
    BY <2>1, AtNext
  <2> QED
    BY <2>1, <2>2
<1>24. PICK a : a = PendingAck(w, sq_psn[e], At(e, x - 1))
  OBVIOUS
<1>25. /\ posted'[e] = t /\ posted'[r] = posted[r]
       /\ sq_psn'[e] = At(e, x) /\ sq_psn'[r] = sq_psn[r]
       /\ pending'[e] = Append(pending[e], a) /\ pending'[r] = pending[r]
  <2>1. sq_psn' = [sq_psn EXCEPT ![e] = At(e, x)] /\ pending' = [pending EXCEPT ![e] = Append(pending[e], a)]
    BY <1>9, <1>22, <1>23, <1>24, Zenon
  <2> QED
    BY <1>1, <1>3, <1>9, <1>13, <2>1
<1>26. a \in PendingAcks /\ a.wr_id = Len(o) /\ a.end_psn = At(e, x - 1)
  <2>1. a.wr_id = Len(o) /\ a.end_psn = At(e, x - 1)
    BY <1>5, <1>7, <1>24 DEF PendingAck
  <2>2. Append(pending[e], a) \in Seq(PendingAcks)
    BY <1>25 DEF Typed, RequesterTyped
  <2>3. PICK q \in Seq(PendingAcks) : q = pending[e]
    BY <1>3
  <2>4. Len(q) + 1 \in DOMAIN Append(q, a) /\ Append(q, a)[Len(q) + 1] = a
    BY SMT
  <2>5. a \in PendingAcks
    BY SMT, <2>2, <2>3, <2>4
  <2> QED
    BY <2>1, <2>5
<1>27. PICK d : d = [y_1 \in Endpoints |-> IF y_1 = e THEN u ELSE b[y_1]]
  OBVIOUS
<1>28. d[e] = u /\ d[r] = b[r]
  BY <1>1, <1>27
<1>29. PICK n \in Nat : n = Len(delivered[r]) /\ n <= Len(s)
  BY <1>1, <1>4, Placed
<1>30. Numbers(d, L)'
  <2>1. Numbered(posted'[e], d[e], L) /\ Len(posted'[e]) <= MaxPosts[e]
    BY <1>15, <1>16, <1>25, <1>28
  <2>2. Numbered(posted'[r], d[r], L) /\ Len(posted'[r]) <= MaxPosts[r]
    BY <1>2, <1>25, <1>28 DEF Numbers
  <2>3. \A y_1 \in Endpoints : Numbered(posted'[y_1], d[y_1], L) /\ Len(posted'[y_1]) <= MaxPosts[y_1]
    BY <1>1, <2>1, <2>2
  <2> QED
    BY <2>3 DEF Numbers
<1>31. Senders(d)'
  <2>1. Sender(state'[e], e, posted'[e], d[e], sq_psn'[e])
    BY <1>9, <1>17, <1>25, <1>28 DEF Sender
  <2>2. Sender(state'[r], r, posted'[r], d[r], sq_psn'[r])
    BY <1>2, <1>9, <1>25, <1>28 DEF Senders
  <2>3. \A z \in Endpoints : Sender(state'[z], z, posted'[z], d[z], sq_psn'[z])
    BY <1>1, <2>1, <2>2
  <2> QED
    BY <2>3 DEF Senders
<1>32. Receivers(d)'
  <2>1. Receiver(state'[r], e, posted'[e], d[e], Len(delivered'[r]), rq_psn'[r], recv_state'[r], write_state'[r])
    <3>1. Receiver(state[r], e, s, o, n, rq_psn[r], recv_state[r], write_state[r])
      BY <1>1, <1>2, <1>4, <1>5, <1>29 DEF Receivers
    <3>2. Receiver(state[r], e, t, u, n, rq_psn[r], recv_state[r], write_state[r])
      BY <1>5, <1>13, <1>14, <3>1, ReceiverPosted
    <3> QED
      BY <1>9, <1>25, <1>28, <1>29, <3>2
  <2>2. Receiver(state'[e], r, posted'[r], d[r], Len(delivered'[e]), rq_psn'[e], recv_state'[e], write_state'[e])
    BY <1>1, <1>2, <1>9, <1>25, <1>28 DEF Receivers
  <2>3. \A z \in Endpoints : Receiver(state'[z], Peer(z), posted'[Peer(z)], d[Peer(z)], Len(delivered'[z]),
                                      rq_psn'[z], recv_state'[z], write_state'[z])
    BY <1>1, <2>1, <2>2
  <2> QED
    BY <2>3 DEF Receivers
<1>33. Requesters(d)'
  <2>1. Outstanding(e, d[e], pending'[e], completed'[e], Len(delivered'[Peer(e)]))
    <3>0. PICK k : k = completed[e]
      OBVIOUS
    <3>1. PICK q \in Seq(PendingAcks) : q = pending[e] /\ k = completed[e]
      BY <1>3, <3>0
    <3>2. Outstanding(e, o, q, k, n)
      BY <1>1, <1>2, <1>5, <1>29, <3>1 DEF Requesters
    <3>3. n < Len(o) /\ Len(o) > 0
      BY SMT, <1>5, <1>29
    <3>4. Outstanding(e, u, Append(q, a), k, n)
      BY <1>14, <1>26, <3>2, <3>3, OutstandingPosted
    <3> QED
      BY <1>1, <1>9, <1>25, <1>28, <1>29, <3>1, <3>4
  <2>2. Outstanding(r, d[r], pending'[r], completed'[r], Len(delivered'[Peer(r)]))
    BY <1>2, <1>9, <1>25, <1>28 DEF Requesters
  <2>3. \A z \in Endpoints : Outstanding(z, d[z], pending'[z], completed'[z], Len(delivered'[Peer(z)]))
    BY <1>1, <2>1, <2>2
  <2> QED
    BY <2>3 DEF Requesters
<1>34. Wiring(d)'
  <2>1. PICK v, p, m : v = b[r] /\ p = posted[r] /\ m = Len(delivered[e])
    OBVIOUS
  <2>2. /\ wire[r] \in Wires(Built(Traffic(r, s, o, v, m)))
        /\ wire[e] \in Wires(Built(Traffic(e, p, v, o, n)))
    BY <1>1, <1>2, <1>4, <1>5, <1>29, <2>1 DEF Wiring
  <2>3. PICK packets : packets = generate_packets(w, At(e, o[Len(o)]))
    OBVIOUS
  <2>4. /\ wire'[r] \in Wires(Built(Traffic(r, t, u, v, m)))
        /\ wire'[e] \in Wires(Built(Traffic(e, p, v, u, n)))
    <3>1. PICK R, S : R = RequestBuilders(e, s, o) /\ S = RequestBuilders(e, t, u)
      OBVIOUS
    <3>2. R \subseteq S /\ packets \in Seq(Built(S))
      <4>1. /\ RequestBuilders(e, s, o) \subseteq RequestBuilders(e, Append(s, w), Append(o, x))
            /\ generate_packets(w, At(e, o[Len(o)])) \in
                 Seq(Built(RequestBuilders(e, Append(s, w), Append(o, x))))
        BY <1>5, <1>20, RequestsGrow, Zenon
      <4> QED
        BY <1>13, <1>14, <2>3, <3>1, <4>1
    <3>3. AckBuilders(e, o, n) \subseteq AckBuilders(e, u, n)
      <4>1. n + 1 <= Len(o)
        BY SMT, <1>5, <1>29
      <4> QED
        BY <1>14, <4>1, AcksGrow
    <3>4. PICK T, V : T = Traffic(r, t, u, v, m) /\ V = Traffic(e, p, v, u, n)
      OBVIOUS
    <3>5. S \subseteq T /\ Traffic(r, s, o, v, m) \subseteq T
      BY <1>1, <3>1, <3>2, <3>4 DEF Traffic
    <3>6. Traffic(e, p, v, o, n) \subseteq V
      BY <3>3, <3>4 DEF Traffic
    <3>7. wire[r] \in Wires(Built(T))
      BY <2>2, <3>5, WiresGrow
    <3>8. wire[e] \in Wires(Built(V))
      BY <2>2, <3>6, WiresGrow
    <3>9. packets \in Seq(Built(T))
      BY <3>2, <3>5, PacketsGrow
    <3>10. wire[Peer(e)] \in Wires(Built(T)) /\ queue_outgoing(e, packets)
      BY <1>1, <1>9, <1>19, <2>3, <3>7
    <3>11. wire'[e] \in Wires(Built(V)) /\ wire'[Peer(e)] \in Wires(Built(T))
      BY <1>3, <3>8, <3>9, <3>10, Sending, Zenon
    <3> QED
      BY <1>1, <3>4, <3>11
  <2>5. \A z \in Endpoints : wire'[z] \in Wires(Built(Traffic(z, posted'[Peer(z)], d[Peer(z)], d[z],
                                                         Len(delivered'[Peer(z)]))))
    <3>1. delivered' = delivered
      BY <1>9
    <3>2. wire'[e] \in Wires(Built(Traffic(e, posted'[Peer(e)], d[Peer(e)], d[e], Len(delivered'[Peer(e)]))))
      BY <1>1, <1>25, <1>28, <1>29, <2>1, <2>4, <3>1
    <3>3. wire'[r] \in Wires(Built(Traffic(r, posted'[Peer(r)], d[Peer(r)], d[r], Len(delivered'[Peer(r)]))))
      BY <1>1, <1>25, <1>28, <2>1, <2>4, <3>1
    <3> QED
      BY <1>1, <3>2, <3>3
  <2> QED
    BY <2>5 DEF Wiring
<1>35. LinkedBy(d, L)'
  BY <1>30, <1>31, <1>32, <1>33, <1>34 DEF LinkedBy
<1>36. Channel!Next
  <2>1. w.wr_id \in 1..MaxPosts[e]
    BY SMTT(20), <1>5, <1>7, <1>9, <1>10
  <2>2. posted' = [posted EXCEPT ![e] = Append(posted[e], w)] /\ UNCHANGED <<delivered, completed>>
    BY <1>4, <1>9
  <2> QED
    BY ZenonT(30), <1>3, <2>1, <2>2, ChannelPosts
<1> QED
  BY <1>35, <1>36

-----------------------------------------------------------------------------
(* The refinement. *)

Linked(L) == \E b : LinkedBy(b, L)

(* What the link does not mention may change. *)
LEMMA Quiet ==
  ASSUME NEW b, NEW L, LinkedBy(b, L),
         UNCHANGED <<state, sq_psn, rq_psn, recv_state, write_state, pending, wire, posted,
                     delivered, completed>>
  PROVE  LinkedBy(b, L)' /\ UNCHANGED Channel!vars
<1>1. Numbers(b, L) /\ Senders(b) /\ Receivers(b) /\ Requesters(b) /\ Wiring(b)
  BY DEF LinkedBy
<1>2. Numbers(b, L)'
  BY <1>1 DEF Numbers
<1>3. Senders(b)'
  BY <1>1 DEF Senders
<1>4. Receivers(b)'
  BY <1>1 DEF Receivers
<1>5. Requesters(b)'
  BY <1>1 DEF Requesters
<1>6. Wiring(b)'
  BY <1>1 DEF Wiring
<1> QED
  BY <1>2, <1>3, <1>4, <1>5, <1>6, ChannelStill DEF LinkedBy

(* Every step of the two engines keeps the link and is a step of the       *)
(* channel or leaves it alone.                                             *)
LEMMA StepLinked ==
  ASSUME NEW L, Room(L), Ops \subseteq Simple, "Reset" \notin Targets,
         Typed, Typed', Linked(L), [Next]_vars
  PROVE  Linked(L)' /\ [Channel!Next]_(Channel!vars)
<1>1. PICK b : LinkedBy(b, L)
  BY DEF Linked
<1>2. SUFFICES (\E d : LinkedBy(d, L)') /\ [Channel!Next]_(Channel!vars)
  BY DEF Linked
<1>3. CASE UNCHANGED vars
  BY <1>1, <1>3, Quiet DEF vars, qpVars, responder, requester
<1>4. ASSUME NEW e \in Endpoints, NEW target \in Targets, modify_qp(e, target)
      PROVE  (\E d : LinkedBy(d, L)') /\ [Channel!Next]_(Channel!vars)
  <2>1. target # "Reset"
    OBVIOUS
  <2>2. LinkedBy(b, L)'
    BY <1>1, <1>4, <2>1, Modifying
  <2>3. UNCHANGED <<posted, delivered, completed>>
    BY <1>4 DEF modify_qp, requester, responder
  <2> QED
    BY <2>2, <2>3, ChannelStill
<1>5. ASSUME NEW e \in Endpoints, NEW op \in Ops, NEW len \in Lengths, post_send(e, op, len)
      PROVE  (\E d : LinkedBy(d, L)') /\ [Channel!Next]_(Channel!vars)
  BY <1>1, <1>5, Posting
<1>6. ASSUME NEW e \in Endpoints, NEW size \in BufferSizes, post_recv(e, size)
      PROVE  (\E d : LinkedBy(d, L)') /\ [Channel!Next]_(Channel!vars)
  <2>1. UNCHANGED <<state, sq_psn, rq_psn, recv_state, write_state, pending, wire, posted,
                    delivered, completed>>
    BY <1>6 DEF post_recv, requester
  <2> QED
    BY <1>1, <2>1, Quiet
<1>7. ASSUME NEW e \in Endpoints, process_incoming_packet(e)
      PROVE  (\E d : LinkedBy(d, L)') /\ [Channel!Next]_(Channel!vars)
  BY <1>1, <1>7, Arrival
<1>8. ASSUME NEW e \in Endpoints, NEW t \in Elapsed, advance_time(e, t)
      PROVE  (\E d : LinkedBy(d, L)') /\ [Channel!Next]_(Channel!vars)
  BY <1>1, <1>8, Timing
<1> QED
  BY <1>3, <1>4, <1>5, <1>6, <1>7, <1>8 DEF Next

(* Before the first message nothing is numbered, held or on the way. *)
LEMMA InitLinked ==
  ASSUME NEW L \in Nat, \A e \in Endpoints : MaxPosts[e] \in Nat, Init
  PROVE  LinkedBy([e \in Endpoints |-> <<0>>], L)
<1>1. PICK b : b = [e \in Endpoints |-> <<0>>]
  OBVIOUS
<1>2. ASSUME NEW e \in Endpoints
      PROVE  /\ b[e] = <<0>> /\ posted[e] = <<>> /\ delivered[e] = <<>> /\ completed[e] = <<>>
             /\ pending[e] = <<>> /\ recv_state[e] = Idle /\ write_state[e] = Idle
             /\ state[e] = (IF Connected THEN "Rts" ELSE "Reset")
             /\ sq_psn[e] = (IF Connected THEN StartPsn[e] ELSE 0)
             /\ rq_psn[e] = (IF Connected THEN StartPsn[Peer(e)] ELSE 0)
             /\ wire[e] = (IF Lossy THEN {} ELSE <<>>)
  BY <1>1 DEF Init
<1>3. \A e \in Endpoints : Peer(e) \in Endpoints
  BY Peers
<1>4. ASSUME NEW e \in Endpoints PROVE At(e, 0) = StartPsn[e]
  <2>1. PICK a \in Nat : a = StartPsn[e] /\ a < PsnModulus
    BY Halves
  <2>2. At(e, 0) = a
    <3>1. a + 0 = a /\ a % PsnModulus = a
      BY SMT, <2>1, Halves
    <3> QED
      BY <2>1, <3>1 DEF At
  <2> QED
    BY <2>1, <2>2
<1>5. Numbered(<<>>, <<0>>, L)
  <2>1. PICK o \in Seq(Nat) : o = <<0>>
    <3>1. <<0>> \in Seq(Nat)
      BY SMT
    <3> QED
      BY <3>1, Zenon
  <2>2. Len(o) = 1 /\ o[1] = 0 /\ DOMAIN o = {1}
    BY SMT, <2>1
  <2>3. PICK s : s = <<>> /\ Len(s) = 0 /\ DOMAIN s = {}
    BY SMT
  <2>4. Len(o) = Len(s) + 1 /\ o[Len(o)] <= Len(s) * L
    BY SMT, <2>2, <2>3
  <2>5. Numbered(s, o, L)
    BY SMT, <2>2, <2>3, <2>4 DEF Numbered
  <2> QED
    BY <2>1, <2>3, <2>5
<1>6. Numbers(b, L)
  <2>1. ASSUME NEW e \in Endpoints PROVE Len(posted[e]) <= MaxPosts[e]
    BY SMT, <1>2
  <2>2. ASSUME NEW e \in Endpoints PROVE Numbered(posted[e], b[e], L)
    BY <1>2, <1>5
  <2> QED
    BY <2>1, <2>2 DEF Numbers
<1>7. Senders(b)
  <2>1. ASSUME NEW e \in Endpoints PROVE Sender(state[e], e, posted[e], b[e], sq_psn[e])
    <3>1. b[e][Len(b[e])] = 0
      BY SMT, <1>2
    <3>2. state[e] \in {"Rts", "Sqd"} => sq_psn[e] = StartPsn[e]
      BY <1>2
    <3> QED
      BY <1>2, <1>4, <3>1, <3>2 DEF Sender
  <2> QED
    BY <2>1 DEF Senders
<1>8. Receivers(b)
  <2>1. ASSUME NEW e \in Endpoints
        PROVE  Receiver(state[e], Peer(e), posted[Peer(e)], b[Peer(e)], Len(delivered[e]),
                        rq_psn[e], recv_state[e], write_state[e])
    <3>1. PICK r \in Endpoints : r = Peer(e)
      BY <1>3
    <3>2. PICK n \in Nat : n = Len(delivered[e]) /\ n = 0
      BY SMT, <1>2
    <3>3. n <= Len(posted[r]) /\ b[r][n + 1] = 0
      BY SMT, <1>2, <3>2
    <3>4. ~recv_state[e].in_progress /\ ~write_state[e].in_progress
      BY SMT, <1>2 DEF Idle
    <3>5. state[e] \in {"Rtr", "Rts", "Sqd"} => rq_psn[e] = At(r, 0)
      BY <1>2, <1>4, <3>1
    <3>6. state[e] \in {"Rtr", "Rts", "Sqd"} =>
            Midway(r, posted[r], b[r], n, 0, rq_psn[e], recv_state[e], write_state[e])
      <4>1. b[r][n + 1] + 0 = 0
        BY SMT, <3>3
      <4> QED
        BY <3>4, <3>5, <4>1 DEF Midway, Holds
    <3> QED
      BY <3>1, <3>2, <3>3, <3>4, <3>6 DEF Receiver
  <2> QED
    BY <2>1 DEF Receivers
<1>9. Requesters(b)
  <2>1. ASSUME NEW e \in Endpoints, NEW n
        PROVE  Outstanding(e, b[e], pending[e], completed[e], n)
    <3>1. DOMAIN pending[e] = {} /\ DOMAIN completed[e] = {}
      BY SMT, <1>2
    <3> QED
      BY <3>1 DEF Outstanding
  <2> QED
    BY <2>1 DEF Requesters
<1>10. Wiring(b)
  <2>1. ASSUME NEW e \in Endpoints, NEW T PROVE wire[e] \in Wires(Built(T))
    <3>1. <<>> \in Seq(Built(T)) /\ {} \in SUBSET Built(T)
      BY SMT
    <3> QED
      BY <1>2, <3>1, Zenon DEF Wires
  <2> QED
    BY <2>1 DEF Wiring
<1>11. LinkedBy(b, L)
  BY <1>6, <1>7, <1>8, <1>9, <1>10 DEF LinkedBy
<1> QED
  BY <1>1, <1>11

(* Nothing is posted, delivered or completed. *)
LEMMA InitChannel ==
  ASSUME Init
  PROVE  Channel!Init
<1>1. AsMessages(<<>>) = <<>> /\ AsReceived(<<>>) = <<>>
  BY SMT DEF AsMessages, AsReceived
<1>2. /\ \A e \in Endpoints : posted[e] = <<>> /\ delivered[Peer(e)] = <<>>
      /\ completed = [e \in Endpoints |-> <<>>]
  BY Peers DEF Init
<1>3. [e \in Endpoints |-> AsMessages(posted[e])] = [e \in Endpoints |-> <<>>]
  BY <1>1, <1>2
<1>4. [e \in Endpoints |-> AsReceived(delivered[Peer(e)])] = [e \in Endpoints |-> <<>>]
  BY <1>1, <1>2
<1> QED
  BY <1>2, <1>3, <1>4 DEF Channel!Init

(* There is room in half of the PSN space for all messages. *)
PsnRoom == \E L : Room(L)

(* Over a network that loses, repeats and reorders packets as it likes,    *)
(* and over the router, for any PSN space, starting PSNs, lengths, buffer  *)
(* sizes, retry limits and timeouts: the messages take effect at the       *)
(* responder whole, in order and once, and a request is reported           *)
(* successful once, in order and only after that. It takes that the        *)
(* messages fit in half of the PSN space (beyond it complete_up_to takes   *)
(* an old acknowledgement for a new one), that they are sends and plain    *)
(* writes, and that no side goes back to Reset, which starts the PSNs over *)
(* while packets of before are still on the way.                           *)
THEOREM ChannelTheorem ==
  ASSUME Ops \subseteq Simple, "Reset" \notin Targets, PsnRoom
  PROVE  Spec => ImplementsChannel
<1>1. PICK L : Room(L)
  BY DEF PsnRoom
<1>2. L \in Nat /\ \A e \in Endpoints : MaxPosts[e] \in Nat
  BY <1>1 DEF Room
<1>3. Init => Typed /\ Linked(L)
  BY <1>2, InitTyped, InitLinked DEF Linked
<1>4. Init => Channel!Init
  BY InitChannel
<1>5. Typed /\ Linked(L) /\ [Next]_vars => Typed' /\ Linked(L)' /\ [Channel!Next]_(Channel!vars)
  <2>1. SUFFICES ASSUME Typed, Linked(L), [Next]_vars
                 PROVE  Typed' /\ Linked(L)' /\ [Channel!Next]_(Channel!vars)
    OBVIOUS
  <2>2. Typed'
    BY <2>1, StepTyped
  <2> QED
    BY <1>1, <2>1, <2>2, StepLinked
<1> QED
  BY <1>3, <1>4, <1>5, PTL DEF Spec, ImplementsChannel, Channel!Spec
=============================================================================
