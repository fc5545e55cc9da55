------------------------- MODULE RcTransportProofs -------------------------
(***************************************************************************)
(* Proofs about the reliable connection of RcTransport, for any message    *)
(* lengths, PSN space, retry limits and network.                           *)
(***************************************************************************)
EXTENDS RcTransport, TLAPS

(* Leaves are for Zenon; the ones with arithmetic, sequences or records in   *)
(* them name SMT.                                                           *)
USE Zenon

(* Two sequences of the same elements. *)
LEMMA SeqEqual ==
  ASSUME NEW S, NEW s \in Seq(S), NEW t \in Seq(S), Len(s) = Len(t), \A i \in 1..Len(s) : s[i] = t[i]
  PROVE  s = t
BY SMT

(* A piece of a sequence. *)
LEMMA Slice ==
  ASSUME NEW S, NEW s, NEW m \in Int, NEW n \in Int, \A i \in m..n : s[i] \in S
  PROVE  /\ SubSeq(s, m, n) \in Seq(S)
         /\ Len(SubSeq(s, m, n)) = IF m <= n THEN n - m + 1 ELSE 0
         /\ \A i \in 1..(n - m + 1) : SubSeq(s, m, n)[i] = s[m + i - 1]
BY SMT

-----------------------------------------------------------------------------
(* Packets: what the parser makes of what the builder wrote. *)

(* One sequence behind another. *)
LEMMA Joined ==
  ASSUME NEW S, NEW s \in Seq(S), NEW t \in Seq(S)
  PROVE  /\ s \o t \in Seq(S) /\ Len(s \o t) = Len(s) + Len(t)
         /\ Len(s) \in Nat /\ Len(t) \in Nat
         /\ \A i \in 1..Len(s) : (s \o t)[i] = s[i]
         /\ \A i \in 1..Len(t) : (s \o t)[Len(s) + i] = t[i]
BY SMT

(* A packet with headers A, B and C. *)
Packet(bth, A, B, C, payload, crc) == <<bth>> \o A \o B \o C \o payload \o <<crc>>

(* Where the parts of a packet are: up to three headers between the first  *)
(* part and the payload, one part behind it.                               *)
LaidOut(packet, bth, A, B, C, payload) ==
  /\ Len(packet) = 2 + Len(A) + Len(B) + Len(C) + Len(payload)
  /\ packet[1] = bth
  /\ A # <<>> => packet[2] = A[1]
  /\ B # <<>> => packet[2 + Len(A)] = B[1]
  /\ C # <<>> => packet[2 + Len(A) + Len(B)] = C[1]
  /\ SubSeq(packet, 2 + Len(A) + Len(B) + Len(C), Len(packet) - 1) = payload

(* RdmaPacketBuilder::build lays the parts out this way. *)
LEMMA Layout ==
  ASSUME NEW S, NEW bth \in S, NEW crc \in S,
         NEW A \in Seq(S), NEW B \in Seq(S), NEW C \in Seq(S), NEW payload \in Seq(S)
  PROVE  LaidOut(Packet(bth, A, B, C, payload, crc), bth, A, B, C, payload)
<1>0. PICK packet : packet = Packet(bth, A, B, C, payload, crc)
  OBVIOUS
<1> DEFINE first == <<bth>>
           last == <<crc>>
           u == first \o A
           v == u \o B
           w == v \o C
           x == w \o payload
<1>1. first \in Seq(S) /\ Len(first) = 1 /\ first[1] = bth
  BY SMT
<1>2. last \in Seq(S) /\ Len(last) = 1
  BY SMT
<1>3. packet = x \o last
  BY <1>0, Zenon DEF Packet
<1>s. first \in Seq(S) /\ last \in Seq(S)
  BY <1>1, <1>2
<1> HIDE DEF first, last
<1>4. /\ Len(u) = Len(first) + Len(A)
      /\ \A i \in 1..Len(first) : u[i] = first[i]
      /\ \A i \in 1..Len(A) : u[Len(first) + i] = A[i]
  BY SMT, <1>s, Joined
<1>u. u \in Seq(S)
  BY SMT, <1>s
<1> HIDE DEF u
<1>5. /\ Len(v) = Len(u) + Len(B)
      /\ \A i \in 1..Len(u) : v[i] = u[i]
      /\ \A i \in 1..Len(B) : v[Len(u) + i] = B[i]
  BY SMT, <1>u, Joined
<1>v. v \in Seq(S)
  BY SMT, <1>u
<1> HIDE DEF v
<1>6. /\ Len(w) = Len(v) + Len(C)
      /\ \A i \in 1..Len(v) : w[i] = v[i]
      /\ \A i \in 1..Len(C) : w[Len(v) + i] = C[i]
  BY SMT, <1>v, Joined
<1>w. w \in Seq(S)
  BY SMT, <1>v
<1> HIDE DEF w
<1>7. /\ Len(x) = Len(w) + Len(payload)
      /\ \A i \in 1..Len(w) : x[i] = w[i]
      /\ \A i \in 1..Len(payload) : x[Len(w) + i] = payload[i]
  BY SMT, <1>w, Joined
<1>x. x \in Seq(S)
  BY SMT, <1>w
<1> HIDE DEF x
<1>8. /\ Len(packet) = Len(x) + Len(last)
      /\ \A i \in 1..Len(x) : packet[i] = x[i]
  BY SMT, <1>s, <1>3, <1>x, Joined
<1>p. packet \in Seq(S)
  BY SMT, <1>s, <1>3, <1>x
<1>9. /\ Len(A) \in Nat /\ Len(B) \in Nat /\ Len(C) \in Nat /\ Len(payload) \in Nat
      /\ Len(u) \in Nat /\ Len(v) \in Nat /\ Len(w) \in Nat /\ Len(x) \in Nat
  BY SMT, <1>u, <1>v, <1>w, <1>x
<1>e. /\ A # <<>> => Len(A) >= 1
      /\ B # <<>> => Len(B) >= 1
      /\ C # <<>> => Len(C) >= 1
  BY SMT
<1>n. /\ Len(u) = 1 + Len(A) /\ Len(v) = Len(u) + Len(B) /\ Len(w) = Len(v) + Len(C)
      /\ Len(x) = Len(w) + Len(payload) /\ Len(packet) = Len(x) + 1
  BY <1>1, <1>2, <1>4, <1>5, <1>6, <1>7, <1>8
<1>10. Len(packet) = 2 + Len(A) + Len(B) + Len(C) + Len(payload)
  BY SMT, <1>n, <1>9
<1>a. /\ \A i \in 1..Len(u) : packet[i] = u[i]
      /\ \A i \in 1..Len(v) : packet[i] = v[i]
      /\ \A i \in 1..Len(w) : packet[i] = w[i]
  BY SMT, <1>5, <1>6, <1>7, <1>8, <1>9
<1>11. packet[1] = bth
  BY SMT, <1>1, <1>4, <1>a, <1>n, <1>9
<1>12. A # <<>> => packet[2] = A[1]
  BY SMT, <1>1, <1>4, <1>a, <1>n, <1>9, <1>e
<1>13. B # <<>> => packet[2 + Len(A)] = B[1]
  BY SMT, <1>5, <1>a, <1>n, <1>9, <1>e
<1>14. C # <<>> => packet[2 + Len(A) + Len(B)] = C[1]
  BY SMT, <1>6, <1>a, <1>n, <1>9, <1>e
<1>15. SubSeq(packet, 2 + Len(A) + Len(B) + Len(C), Len(packet) - 1) = payload
  <2> DEFINE at == 2 + Len(A) + Len(B) + Len(C)
             to == Len(packet) - 1
             sub == SubSeq(packet, at, to)
  <2>1. at = Len(w) + 1 /\ to = Len(w) + Len(payload) /\ Len(packet) = Len(w) + Len(payload) + 1
        /\ at \in Int /\ to \in Int
    BY SMT, <1>n, <1>9
  <2> HIDE DEF at, to
  <2>2. \A i \in at..to : packet[i] \in S
    BY SMT, <1>p, <2>1, <1>9
  <2>3. /\ sub \in Seq(S)
        /\ Len(sub) = IF at <= to THEN to - at + 1 ELSE 0
        /\ \A i \in 1..(to - at + 1) : sub[i] = packet[at + i - 1]
    BY SMT, <2>1, <2>2, Slice
  <2> HIDE DEF sub
  <2>4. Len(sub) = Len(payload)
    BY SMT, <2>1, <2>3, <1>9
  <2>5. \A i \in 1..Len(payload) : sub[i] = packet[Len(w) + i]
    <3>1. SUFFICES ASSUME NEW i \in 1..Len(payload) PROVE sub[i] = packet[Len(w) + i]
      OBVIOUS
    <3>2. at + i - 1 = Len(w) + i /\ i \in 1..(to - at + 1)
      BY SMT, <2>1, <1>9
    <3> QED
      BY <2>3, <3>2
  <2>6. \A i \in 1..Len(payload) : packet[Len(w) + i] = payload[i]
    BY SMT, <1>7, <1>8, <1>n, <1>9
  <2>7. sub \in Seq(S)
    BY <2>3
  <2>8. \A i \in 1..Len(payload) : sub[i] = payload[i]
    BY <2>5, <2>6
  <2>9. sub = payload
    BY <2>7, <2>4, <2>8, SeqEqual
  <2> QED
    BY <2>9 DEF sub, at, to
<1> QED
  BY <1>0, <1>10, <1>11, <1>12, <1>13, <1>14, <1>15, Zenon DEF LaidOut

(* A header that is written when it is needed. *)
LEMMA Optional ==
  ASSUME NEW S, NEW x \in S, NEW needed \in BOOLEAN,
         NEW h, h = IF needed THEN <<x>> ELSE <<>>
  PROVE  /\ h \in Seq(S)
         /\ Len(h) = One(needed)
         /\ needed => h # <<>> /\ h[1] = x
<1>1. CASE needed
  <2>1. h = <<x>>
    BY <1>1
  <2> QED
    BY SMT, <1>1, <2>1 DEF One
<1>2. CASE ~needed
  <2>1. h = <<>>
    BY <1>2
  <2> QED
    BY SMT, <1>2, <2>1 DEF One
<1> QED
  BY <1>1, <1>2

(* What the receiver sees of a packet. *)
Seen(b) ==
  [opcode |-> b.opcode, psn |-> b.psn, ack_request |-> b.ack_request, wr_id |-> b.wr_id,
   first |-> opcode_is_first(b.opcode) \/ opcode_is_only(b.opcode),
   last |-> opcode_is_last(b.opcode) \/ opcode_is_only(b.opcode),
   dma_length |-> IF needs_reth(b.opcode) THEN b.dma_length ELSE 0,
   syndrome |-> IF needs_aeth(b.opcode) THEN b.syndrome ELSE "Ack",
   immediate |-> IF has_immediate_variant(b.opcode) THEN <<b.immediate[1]>> ELSE <<>>,
   payload |-> b.payload]

(* The parser expects the headers the builder writes for the same opcode. *)
LEMMA Headers ==
  ASSUME NEW op
  PROVE  determine_headers(op) = [reth |-> needs_reth(op), aeth |-> needs_aeth(op),
                                  immediate |-> has_immediate_variant(op)]
BY Zenon DEF determine_headers, needs_reth, needs_aeth, has_immediate_variant

(* A packet is parsed into what it was built from, provided that one with  *)
(* an opcode for immediate data has some                                   *)
(* (RdmaPacketBuilder::build, RdmaPacketParser::parse).                    *)
LEMMA ParseBuild ==
  ASSUME NEW b, NEW P, b.payload \in Seq(P),
         has_immediate_variant(b.opcode) => b.immediate # <<>>
  PROVE  parses(build(b)) /\ parse(build(b)) = Seen(b)
<1> DEFINE op == b.opcode
           A == IF needs_reth(op) THEN <<write_reth(b)>> ELSE <<>>
           B == IF needs_aeth(op) THEN <<write_aeth(b)>> ELSE <<>>
           C == IF b.immediate # <<>> /\ has_immediate_variant(op)
                THEN <<write_immediate(b)>> ELSE <<>>
           S == P \cup {write_bth(b), write_reth(b), write_aeth(b), write_immediate(b), icrc}
           packet == build(b)
<1>1. packet = Packet(write_bth(b), A, B, C, b.payload, icrc)
  BY Zenon DEF build, Packet
<1>2. write_bth(b) \in S /\ icrc \in S /\ b.payload \in Seq(S)
  BY SMT
<1>b. /\ needs_reth(op) \in BOOLEAN /\ needs_aeth(op) \in BOOLEAN
      /\ has_immediate_variant(op) \in BOOLEAN
  BY SMT DEF needs_reth, needs_aeth, has_immediate_variant
<1>3. /\ A \in Seq(S) /\ Len(A) = One(needs_reth(op))
      /\ needs_reth(op) => A # <<>> /\ A[1] = write_reth(b)
  <2>1. write_reth(b) \in S
    OBVIOUS
  <2> HIDE DEF S
  <2> QED
    BY <2>1, <1>b, Optional, Zenon
<1>4. /\ B \in Seq(S) /\ Len(B) = One(needs_aeth(op))
      /\ needs_aeth(op) => B # <<>> /\ B[1] = write_aeth(b)
  <2>1. write_aeth(b) \in S
    OBVIOUS
  <2> HIDE DEF S
  <2> QED
    BY <2>1, <1>b, Optional, Zenon
<1>5. /\ C \in Seq(S) /\ Len(C) = One(has_immediate_variant(op))
      /\ has_immediate_variant(op) => C # <<>> /\ C[1] = write_immediate(b)
  <2>1. write_immediate(b) \in S
    OBVIOUS
  <2> HIDE DEF S
  <2>2. C = IF has_immediate_variant(op) THEN <<write_immediate(b)>> ELSE <<>>
    BY Zenon
  <2> HIDE DEF C
  <2> QED
    BY <2>1, <2>2, <1>b, Optional, Zenon
<1> HIDE DEF A, B, C, S, packet
<1>6. /\ Len(packet) = 2 + Len(A) + Len(B) + Len(C) + Len(b.payload)
      /\ packet[1] = write_bth(b)
      /\ A # <<>> => packet[2] = A[1]
      /\ B # <<>> => packet[2 + Len(A)] = B[1]
      /\ C # <<>> => packet[2 + Len(A) + Len(B)] = C[1]
      /\ SubSeq(packet, 2 + Len(A) + Len(B) + Len(C), Len(packet) - 1) = b.payload
  <2>1. A \in Seq(S) /\ B \in Seq(S) /\ C \in Seq(S)
    BY <1>3, <1>4, <1>5
  <2>2. LaidOut(packet, write_bth(b), A, B, C, b.payload)
    BY <1>1, <1>2, <2>1, Layout, Zenon
  <2> QED
    BY <2>2, Zenon DEF LaidOut
<1>7. packet[1].opcode = op
  BY SMT, <1>6 DEF write_bth
<1>l. /\ Len(A) = One(needs_reth(op)) /\ Len(B) = One(needs_aeth(op))
      /\ Len(C) = One(has_immediate_variant(op))
      /\ Len(A) \in Nat /\ Len(B) \in Nat /\ Len(C) \in Nat /\ Len(b.payload) \in Nat
  BY SMT, <1>3, <1>4, <1>5
<1>8. parses(packet)
  <2>1. Len(packet) = 2 + Len(A) + Len(B) + Len(C) + Len(b.payload)
    BY <1>6
  <2>2. Len(packet) >= 2 /\ 1 + Len(A) + Len(B) + Len(C) <= Len(packet) - 1
    BY SMT, <2>1, <1>l
  <2>3. 1 + One(needs_reth(op)) + One(needs_aeth(op)) + One(has_immediate_variant(op))
          <= Len(packet) - 1
    BY <2>2, <1>l
  <2> QED
    BY <2>2, <2>3, <1>7, Headers DEF parses
<1>9. parse(packet) = Seen(b)
  <2>1. needs_reth(op) => packet[2].dma_length = b.dma_length
    <3>1. needs_reth(op) => packet[2] = write_reth(b)
      BY <1>3, <1>6
    <3> QED
      BY SMT, <3>1 DEF write_reth
  <2>2. needs_aeth(op) => packet[2 + One(needs_reth(op))].syndrome = b.syndrome
    <3>1. needs_aeth(op) => packet[2 + Len(A)] = write_aeth(b)
      BY <1>4, <1>6
    <3> QED
      BY SMT, <3>1, <1>l DEF write_aeth
  <2>3. has_immediate_variant(op)
          => packet[2 + One(needs_reth(op)) + One(needs_aeth(op))].immediate = b.immediate[1]
    <3>1. has_immediate_variant(op) => packet[2 + Len(A) + Len(B)] = write_immediate(b)
      BY <1>5, <1>6
    <3> QED
      BY SMT, <3>1, <1>l DEF write_immediate
  <2>4. SubSeq(packet, 2 + One(needs_reth(op)) + One(needs_aeth(op))
                         + One(has_immediate_variant(op)), Len(packet) - 1) = b.payload
    BY <1>l, <1>6
  <2>5. packet[1] = write_bth(b)
    BY <1>6
  <2>6. /\ packet[1].psn = b.psn /\ packet[1].ack_request = b.ack_request
        /\ packet[1].wr_id = b.wr_id
    BY SMT, <2>5 DEF write_bth
  <2>7. PICK has : has = determine_headers(packet[1].opcode)
    OBVIOUS
  <2>8. /\ has.reth = needs_reth(op) /\ has.aeth = needs_aeth(op)
        /\ has.immediate = has_immediate_variant(op)
    BY <2>7, <1>7, Headers
  <2>9. parse(packet) =
          [opcode |-> op, psn |-> b.psn, ack_request |-> b.ack_request, wr_id |-> b.wr_id,
           first |-> opcode_is_first(op) \/ opcode_is_only(op),
           last |-> opcode_is_last(op) \/ opcode_is_only(op),
           dma_length |-> IF has.reth THEN packet[2].dma_length ELSE 0,
           syndrome |-> IF has.aeth THEN packet[2 + One(has.reth)].syndrome ELSE "Ack",
           immediate |-> IF has.immediate
                         THEN <<packet[2 + One(has.reth) + One(has.aeth)].immediate>> ELSE <<>>,
           payload |-> SubSeq(packet, 2 + One(has.reth) + One(has.aeth) + One(has.immediate),
                              Len(packet) - 1)]
    BY <2>6, <2>7, <1>7, Zenon DEF parse
  <2> QED
    BY <2>9, <2>8, <2>1, <2>2, <2>3, <2>4, Zenon DEF Seen
<1> QED
  BY <1>8, <1>9 DEF packet

-----------------------------------------------------------------------------
(* Types. *)

Frags == [wr_id : Nat, part : Nat]

Opcodes ==
  SendOpcodes \cup WriteOpcodes \cup {"ReadRequest", "Ack"}
    \cup {"ReadResponseFirst", "ReadResponseMiddle", "ReadResponseLast", "ReadResponseOnly"}

Syndromes == {"Ack", "PsnSeqError", "RnrNak", "InvalidRequest", "RemoteAccessError"}

(* What a builder holds when a packet is built. *)
BuilderSet ==
  [opcode : Opcodes, psn : Psns, ack_request : BOOLEAN, wr_id : Nat, dma_length : Nat,
   syndrome : Syndromes, immediate : Seq(Nat), payload : Seq(Frags)]

Builders == {b \in BuilderSet : has_immediate_variant(b.opcode) => b.immediate # <<>>}

(* What a side sees of a packet. *)
SeenSet ==
  [opcode : Opcodes, psn : Psns, ack_request : BOOLEAN, wr_id : Nat, first : BOOLEAN,
   last : BOOLEAN, dma_length : Nat, syndrome : Syndromes, immediate : Seq(Nat),
   payload : Seq(Frags)]

(* The packets built from a set of builders, and a wire that carries them. *)
Built(V) == {build(b) : b \in V}

Wires(P) == IF Lossy THEN SUBSET P ELSE Seq(P)

Receiving ==
  [in_progress : BOOLEAN, wr_id : Nat, size : Nat, expected_psn : Psns, data : Seq(Frags)]

PendingAcks ==
  [wr_id : Nat, start_psn : Psns, end_psn : Psns, send_time_us : Elapsed \cup {0},
   retry_count : Nat, waiting : BOOLEAN]

Requests == [wr_id : Nat, op : Ops, len : Lengths]

Recvs == [wr_id : Nat, size : Nat]

Deliveries == [wr_id : Nat, data : Seq(Frags), imm : Seq(Nat), recv : Nat]

QpTyped ==
  /\ state \in [Endpoints -> QpStates]
  /\ sq_psn \in [Endpoints -> Psns] /\ rq_psn \in [Endpoints -> Psns]
  /\ recv_queue \in [Endpoints -> Seq(Recvs)]

RequesterTyped ==
  /\ request_state \in [Endpoints -> Receiving]
  /\ pending \in [Endpoints -> Seq(PendingAcks)]
  /\ posted \in [Endpoints -> Seq(Requests)]
  /\ completed \in [Endpoints -> Seq(Nat)]

ResponderTyped ==
  /\ recv_state \in [Endpoints -> Receiving] /\ write_state \in [Endpoints -> Receiving]
  /\ recvs \in [Endpoints -> Nat]
  /\ delivered \in [Endpoints -> Seq(Deliveries)]

WireTyped == wire \in [Endpoints -> Wires(Built(Builders))]

Typed == QpTyped /\ RequesterTyped /\ ResponderTyped /\ WireTyped

(* The two endpoints are each other's peer. *)
LEMMA Peers ==
  ASSUME NEW e \in Endpoints
  PROVE  /\ Peer(e) \in Endpoints /\ Peer(e) # e /\ Peer(Peer(e)) = e
         /\ \A x \in Endpoints : x = e \/ x = Peer(e)
<1>1. PICK a, b \in Endpoints : a # b /\ Endpoints = {a, b}
  BY EndpointsAssumption
<1>2. \A x \in Endpoints : Peer(x) \in Endpoints /\ Peer(x) # x
  BY <1>1 DEF Peer
<1> QED
  BY <1>1, <1>2

(* Sequence numbers stay in their space. *)
LEMMA PsnWraps ==
  ASSUME NEW x \in Int
  PROVE  x % PsnModulus \in Psns
BY SMT, PsnAssumption DEF Psns

(* A PSN is a number and the next one is a PSN. *)
LEMMA PsnInt ==
  ASSUME NEW psn \in Psns
  PROVE  psn \in Nat /\ advance_psn(psn) \in Psns /\ 0 \in Psns
BY SMT, PsnAssumption DEF Psns, advance_psn

(* A built packet is seen as what it was built from. *)
LEMMA Sight ==
  ASSUME NEW b \in Builders
  PROVE  parses(build(b)) /\ parse(build(b)) = Seen(b) /\ Seen(b) \in SeenSet
<1>1. b \in BuilderSet /\ (has_immediate_variant(b.opcode) => b.immediate # <<>>)
  BY DEF Builders
<1>2. b.payload \in Seq(Frags) /\ b.immediate \in Seq(Nat)
  BY <1>1 DEF BuilderSet
<1>3. parses(build(b)) /\ parse(build(b)) = Seen(b)
  BY <1>1, <1>2, ParseBuild
<1>4. has_immediate_variant(b.opcode) => <<b.immediate[1]>> \in Seq(Nat)
  BY SMT, <1>1, <1>2
<1>5. PICK imm \in Seq(Nat) :
        imm = IF has_immediate_variant(b.opcode) THEN <<b.immediate[1]>> ELSE <<>>
  <2>1. <<>> \in Seq(Nat)
    BY SMT
  <2> QED
    BY <1>4, <2>1, Zenon
<1>6. PICK first, last \in BOOLEAN :
        /\ first = (opcode_is_first(b.opcode) \/ opcode_is_only(b.opcode))
        /\ last = (opcode_is_last(b.opcode) \/ opcode_is_only(b.opcode))
  BY Zenon DEF opcode_is_first, opcode_is_last, opcode_is_only
<1>7. PICK length \in Nat : length = IF needs_reth(b.opcode) THEN b.dma_length ELSE 0
  BY <1>1 DEF BuilderSet
<1>8. PICK syndrome \in Syndromes : syndrome = IF needs_aeth(b.opcode) THEN b.syndrome ELSE "Ack"
  <2>1. b.syndrome \in Syndromes /\ "Ack" \in Syndromes
    BY <1>1 DEF BuilderSet, Syndromes
  <2> QED
    BY <2>1, Zenon
<1>9. Seen(b) =
        [opcode |-> b.opcode, psn |-> b.psn, ack_request |-> b.ack_request, wr_id |-> b.wr_id,
         first |-> first, last |-> last, dma_length |-> length, syndrome |-> syndrome,
         immediate |-> imm, payload |-> b.payload]
  BY <1>5, <1>6, <1>7, <1>8, Zenon DEF Seen
<1> QED
  BY SMT, <1>1, <1>3, <1>9 DEF SeenSet, BuilderSet

(* The wire: what arrives was sent, what is sent is carried. *)
LEMMA Carrying ==
  ASSUME NEW P, NEW w \in Wires(P), NEW packets \in Seq(P)
  PROVE  /\ Arriving(w) \subseteq P
         /\ Arriving(w) # {} => Remaining(w) \in Wires(P)
         /\ Sent(w, packets) \in Wires(P)
<1>1. CASE Lossy
  <2>1. Members(packets) \subseteq P
    BY SMT DEF Members
  <2> QED
    BY <1>1, <2>1 DEF Wires, Arriving, Remaining, Sent
<1>2. CASE ~Lossy
  <2>1. w \in Seq(P)
    BY <1>2 DEF Wires
  <2>2. w # <<>> => Head(w) \in P /\ Tail(w) \in Seq(P)
    BY SMT, <2>1
  <2>3. w \o packets \in Seq(P)
    BY SMT, <2>1
  <2> QED
    BY <1>2, <2>1, <2>2, <2>3 DEF Wires, Arriving, Remaining, Sent
<1> QED
  BY <1>1, <1>2, LossyAssumption

-----------------------------------------------------------------------------
(* The packets the engine sends. *)

(* Records of work requests, posted or being answered. *)
Work == [wr_id : Nat, op : {"Send", "SendImm", "RdmaWrite", "RdmaWriteImm", "RdmaRead"},
         len : Nat]

AckBuilder(psn, syndrome) ==
  RdmaPacketBuilder("Ack", psn, FALSE, 0, 0, syndrome, <<>>, <<>>)

SendBuilder(w, psn, i) ==
  Segment(w, psn, i, get_send_opcode(i = 1, i = Count(w.len), Immediate(w) # <<>>),
          i = Count(w.len), 0)

WriteBuilder(w, psn, i) ==
  Segment(w, psn, i, get_write_opcode(i = 1, i = Count(w.len), Immediate(w) # <<>>),
          i = Count(w.len), IF i = 1 THEN w.len ELSE 0)

ReadBuilder(w, psn) ==
  RdmaPacketBuilder("ReadRequest", psn, FALSE, w.wr_id, w.len, "Ack", <<>>, <<>>)

ResponseBuilder(w, psn, i) ==
  Segment(w, psn, i, get_read_response_opcode(i = 1, i = Count(w.len)), FALSE, 0)

(* A message has a packet for each MTU, and at least one. *)
LEMMA Counting ==
  ASSUME NEW len \in Nat
  PROVE  Count(len) \in Nat \ {0} /\ len <= Count(len) /\ (len # 0 => Count(len) = len)
BY SMT DEF Count

(* The opcodes the generators choose; an opcode for immediate data is used *)
(* only for the last packet of a message that has some.                    *)
LEMMA Choices ==
  ASSUME NEW first \in BOOLEAN, NEW last \in BOOLEAN, NEW imm \in BOOLEAN
  PROVE  /\ get_send_opcode(first, last, imm) \in SendOpcodes
         /\ get_write_opcode(first, last, imm) \in WriteOpcodes
         /\ get_read_response_opcode(first, last) \in
              {"ReadResponseFirst", "ReadResponseMiddle", "ReadResponseLast", "ReadResponseOnly"}
         /\ has_immediate_variant(get_send_opcode(first, last, imm)) <=> last /\ imm
         /\ has_immediate_variant(get_write_opcode(first, last, imm)) <=> last /\ imm
         /\ ~has_immediate_variant(get_read_response_opcode(first, last))
<1>1. CASE first /\ last /\ imm
  BY <1>1 DEF get_send_opcode, get_write_opcode, get_read_response_opcode, SendOpcodes,
              WriteOpcodes, has_immediate_variant
<1>2. CASE first /\ last /\ ~imm
  BY <1>2 DEF get_send_opcode, get_write_opcode, get_read_response_opcode, SendOpcodes,
              WriteOpcodes, has_immediate_variant
<1>3. CASE first /\ ~last
  BY <1>3 DEF get_send_opcode, get_write_opcode, get_read_response_opcode, SendOpcodes,
              WriteOpcodes, has_immediate_variant
<1>4. CASE ~first /\ last /\ imm
  BY <1>4 DEF get_send_opcode, get_write_opcode, get_read_response_opcode, SendOpcodes,
              WriteOpcodes, has_immediate_variant
<1>5. CASE ~first /\ last /\ ~imm
  BY <1>5 DEF get_send_opcode, get_write_opcode, get_read_response_opcode, SendOpcodes,
              WriteOpcodes, has_immediate_variant
<1>6. CASE ~first /\ ~last
  BY <1>6 DEF get_send_opcode, get_write_opcode, get_read_response_opcode, SendOpcodes,
              WriteOpcodes, has_immediate_variant
<1> QED
  BY <1>1, <1>2, <1>3, <1>4, <1>5, <1>6

(* The i-th packet of a message is built from members of their types. *)
LEMMA Segments ==
  ASSUME NEW w \in Work, NEW psn \in Psns, NEW i \in 1..Count(w.len), NEW opcode \in Opcodes,
         NEW ack_request \in BOOLEAN, NEW dma_length \in Nat,
         has_immediate_variant(opcode) => i = Count(w.len) /\ Immediate(w) # <<>>
  PROVE  Segment(w, psn, i, opcode, ack_request, dma_length) \in Builders
<1>1. w.wr_id \in Nat /\ w.len \in Nat /\ i \in Nat
  BY SMT, Counting DEF Work
<1>2. (psn + i - 1) % PsnModulus \in Psns
  <2>1. psn \in Nat
    BY PsnInt
  <2>2. psn + i - 1 \in Int
    BY SMT, <2>1, <1>1
  <2> QED
    BY <2>2, PsnWraps
<1>3. Immediate(w) \in Seq(Nat) /\ <<>> \in Seq(Nat)
  BY SMT, <1>1 DEF Immediate
<1>4. PICK imm \in Seq(Nat) : imm = IF i = Count(w.len) THEN Immediate(w) ELSE <<>>
  BY <1>3, Zenon
<1>5. Fragment(w, i) \in Seq(Frags)
  <2>1. [wr_id |-> w.wr_id, part |-> i] \in Frags
    BY <1>1 DEF Frags
  <2>2. <<[wr_id |-> w.wr_id, part |-> i]>> \in Seq(Frags) /\ <<>> \in Seq(Frags)
    BY SMT, <2>1
  <2> QED
    BY <2>2, Zenon DEF Fragment
<1>6. "Ack" \in Syndromes
  BY DEF Syndromes
<1>7. PICK b : b = Segment(w, psn, i, opcode, ack_request, dma_length)
  OBVIOUS
<1>8. b = [opcode |-> opcode, psn |-> (psn + i - 1) % PsnModulus, ack_request |-> ack_request,
           wr_id |-> w.wr_id, dma_length |-> dma_length, syndrome |-> "Ack",
           immediate |-> imm, payload |-> Fragment(w, i)]
  BY <1>4, <1>7, Zenon DEF Segment, RdmaPacketBuilder
<1>9. b \in BuilderSet
  BY <1>1, <1>2, <1>5, <1>6, <1>8 DEF BuilderSet
<1>10. has_immediate_variant(b.opcode) => b.immediate # <<>>
  BY <1>4, <1>8
<1> QED
  BY <1>7, <1>9, <1>10 DEF Builders

(* Everything the engine sends is built from members of their types. *)
LEMMA Building ==
  ASSUME NEW w \in Work, NEW psn \in Psns
  PROVE  /\ \A syndrome \in Syndromes : AckBuilder(psn, syndrome) \in Builders
         /\ ReadBuilder(w, psn) \in Builders
         /\ \A i \in 1..Count(w.len) :
              /\ SendBuilder(w, psn, i) \in Builders
              /\ WriteBuilder(w, psn, i) \in Builders
              /\ ResponseBuilder(w, psn, i) \in Builders
<1>1. w.wr_id \in Nat /\ w.len \in Nat
  BY DEF Work
<1>2. <<>> \in Seq(Nat) /\ <<>> \in Seq(Frags) /\ "Ack" \in Syndromes
  BY SMT DEF Syndromes
<1>3. ASSUME NEW syndrome \in Syndromes PROVE AckBuilder(psn, syndrome) \in Builders
  <2>1. PICK no \in BOOLEAN : no = FALSE
    BY Zenon
  <2>2. PICK b : b = AckBuilder(psn, syndrome)
    OBVIOUS
  <2>3. b = [opcode |-> "Ack", psn |-> psn, ack_request |-> no, wr_id |-> 0, dma_length |-> 0,
             syndrome |-> syndrome, immediate |-> <<>>, payload |-> <<>>]
    BY <2>1, <2>2, Zenon DEF AckBuilder, RdmaPacketBuilder
  <2>4. b \in BuilderSet
    BY <1>2, <2>3 DEF BuilderSet, Opcodes
  <2>5. ~has_immediate_variant(b.opcode)
    BY <2>3 DEF has_immediate_variant
  <2> QED
    BY <2>2, <2>4, <2>5 DEF Builders
<1>4. ReadBuilder(w, psn) \in Builders
  <2>1. PICK no \in BOOLEAN : no = FALSE
    BY Zenon
  <2>2. PICK b : b = ReadBuilder(w, psn)
    OBVIOUS
  <2>3. b = [opcode |-> "ReadRequest", psn |-> psn, ack_request |-> no, wr_id |-> w.wr_id,
             dma_length |-> w.len, syndrome |-> "Ack", immediate |-> <<>>, payload |-> <<>>]
    BY <2>1, <2>2, Zenon DEF ReadBuilder, RdmaPacketBuilder
  <2>4. b \in BuilderSet
    BY <1>1, <1>2, <2>3 DEF BuilderSet, Opcodes
  <2>5. ~has_immediate_variant(b.opcode)
    BY <2>3 DEF has_immediate_variant
  <2> QED
    BY <2>2, <2>4, <2>5 DEF Builders
<1>5. ASSUME NEW i \in 1..Count(w.len)
      PROVE  /\ SendBuilder(w, psn, i) \in Builders
             /\ WriteBuilder(w, psn, i) \in Builders
             /\ ResponseBuilder(w, psn, i) \in Builders
  <2>1. PICK first, last, imm, no \in BOOLEAN :
          /\ first = (i = 1) /\ last = (i = Count(w.len)) /\ imm = (Immediate(w) # <<>>)
          /\ no = FALSE
    BY Zenon
  <2>2. PICK length \in Nat : length = IF i = 1 THEN w.len ELSE 0
    BY <1>1
  <2>3. PICK send, write, response \in Opcodes :
          /\ send = get_send_opcode(first, last, imm)
          /\ write = get_write_opcode(first, last, imm)
          /\ response = get_read_response_opcode(first, last)
          /\ has_immediate_variant(send) => last /\ imm
          /\ has_immediate_variant(write) => last /\ imm
          /\ ~has_immediate_variant(response)
    BY SMT, Choices DEF Opcodes
  <2>4. Segment(w, psn, i, send, last, 0) \in Builders
    BY <2>1, <2>3, Segments
  <2>5. Segment(w, psn, i, write, last, length) \in Builders
    BY <2>1, <2>3, Segments
  <2>6. Segment(w, psn, i, response, no, 0) \in Builders
    BY <2>1, <2>3, Segments
  <2> QED
    BY <2>1, <2>2, <2>3, <2>4, <2>5, <2>6, Zenon DEF SendBuilder, WriteBuilder, ResponseBuilder
<1> QED
  BY <1>3, <1>4, <1>5

(* The generators' packets are built from these, one PSN each. *)
LEMMA Generated ==
  ASSUME NEW w \in Work, NEW psn
  PROVE  /\ \A syndrome : generate_ack(psn, syndrome) = <<build(AckBuilder(psn, syndrome))>>
         /\ w.op \in {"Send", "SendImm"} =>
              generate_packets(w, psn) = [i \in 1..Count(w.len) |-> build(SendBuilder(w, psn, i))]
         /\ w.op \in {"RdmaWrite", "RdmaWriteImm"} =>
              generate_packets(w, psn) = [i \in 1..Count(w.len) |-> build(WriteBuilder(w, psn, i))]
         /\ w.op = "RdmaRead" => generate_packets(w, psn) = <<build(ReadBuilder(w, psn))>>
<1>1. \A syndrome : generate_ack(psn, syndrome) = <<build(AckBuilder(psn, syndrome))>>
  BY Zenon DEF generate_ack, AckBuilder
<1>2. generate_send_packets(w, psn) = [i \in 1..Count(w.len) |-> build(SendBuilder(w, psn, i))]
  BY Zenon DEF generate_send_packets, SendBuilder
<1>3. generate_write_packets(w, psn) = [i \in 1..Count(w.len) |-> build(WriteBuilder(w, psn, i))]
  BY Zenon DEF generate_write_packets, WriteBuilder
<1>4. generate_read_request(w, psn) = <<build(ReadBuilder(w, psn))>>
  BY Zenon DEF generate_read_request, ReadBuilder
<1>5. /\ w.op \in {"Send", "SendImm"} => generate_packets(w, psn) = generate_send_packets(w, psn)
      /\ w.op \in {"RdmaWrite", "RdmaWriteImm"} =>
           generate_packets(w, psn) = generate_write_packets(w, psn)
      /\ w.op = "RdmaRead" => generate_packets(w, psn) = generate_read_request(w, psn)
  BY DEF generate_packets
<1> QED
  BY <1>1, <1>2, <1>3, <1>4, <1>5

-----------------------------------------------------------------------------
(* The types are preserved. *)

(* What a step that answers leaves on the two wires. *)
LEMMA Answering ==
  ASSUME NEW P, NEW Q, NEW e \in Endpoints, NEW packets \in Seq(Q),
         DOMAIN wire = Endpoints, wire = [x \in Endpoints |-> wire[x]],
         wire[e] \in Wires(P), wire[Peer(e)] \in Wires(Q), Arriving(wire[e]) # {},
         Answer(e, packets)
  PROVE  /\ wire' = [x \in Endpoints |-> wire'[x]]
         /\ wire'[e] \in Wires(P) /\ wire'[Peer(e)] \in Wires(Q)
<1>1. <<>> \in Seq(P)
  BY SMT
<1>2. Remaining(wire[e]) \in Wires(P)
  BY <1>1, Carrying
<1>3. Sent(wire[Peer(e)], packets) \in Wires(Q)
  BY Carrying
<1>4. Peer(e) \in Endpoints /\ Peer(e) # e
  BY Peers
<1>5. wire' = [wire EXCEPT ![e] = Remaining(wire[e]), ![Peer(e)] = Sent(wire[Peer(e)], packets)]
  BY <1>4 DEF Answer
<1> QED
  BY <1>2, <1>3, <1>4, <1>5

(* A step that answers keeps the wires typed. *)
LEMMA AnswerTyped ==
  ASSUME NEW e \in Endpoints, NEW packets \in Seq(Built(Builders)), WireTyped,
         Arriving(wire[e]) # {}, Answer(e, packets)
  PROVE  WireTyped'
<1> DEFINE P == Built(Builders)
<1>1. wire = [x \in Endpoints |-> wire[x]] /\ DOMAIN wire = Endpoints
  BY DEF WireTyped
<1>2. Peer(e) \in Endpoints /\ \A x \in Endpoints : x = e \/ x = Peer(e)
  BY Peers
<1>3. wire[e] \in Wires(P) /\ wire[Peer(e)] \in Wires(P)
  BY <1>2 DEF WireTyped
<1> HIDE DEF P
<1>4. /\ wire' = [x \in Endpoints |-> wire'[x]]
      /\ wire'[e] \in Wires(P) /\ wire'[Peer(e)] \in Wires(P)
  BY <1>1, <1>3, Answering, Zenon DEF P
<1>5. wire' \in [Endpoints -> Wires(P)]
  BY <1>2, <1>4
<1> QED
  BY <1>5 DEF WireTyped, P

(* Every single packet, and none. *)
LEMMA AcksTyped ==
  ASSUME NEW psn \in Psns, NEW syndrome \in Syndromes
  PROVE  generate_ack(psn, syndrome) \in Seq(Built(Builders)) /\ <<>> \in Seq(Built(Builders))
<1>1. PICK w \in Work : w = [wr_id |-> 0, op |-> "Send", len |-> 0]
  BY DEF Work
<1>2. build(AckBuilder(psn, syndrome)) \in Built(Builders)
  BY Building DEF Built
<1>3. generate_ack(psn, syndrome) = <<build(AckBuilder(psn, syndrome))>>
  BY Generated
<1> QED
  BY SMT, <1>2, <1>3

(* The packets of a request and the responses to a READ. *)
LEMMA PacketsTyped ==
  ASSUME NEW w \in Work, NEW psn \in Psns
  PROVE  /\ generate_packets(w, psn) \in Seq(Built(Builders))
         /\ Len(generate_packets(w, psn)) = IF w.op = "RdmaRead" THEN 1 ELSE Count(w.len)
         /\ [i \in 1..Count(w.len) |-> build(ResponseBuilder(w, psn, i))] \in Seq(Built(Builders))
<1>1. Count(w.len) \in Nat
  BY Counting DEF Work
<1>2. /\ build(ReadBuilder(w, psn)) \in Built(Builders)
      /\ \A i \in 1..Count(w.len) :
           /\ build(SendBuilder(w, psn, i)) \in Built(Builders)
           /\ build(WriteBuilder(w, psn, i)) \in Built(Builders)
           /\ build(ResponseBuilder(w, psn, i)) \in Built(Builders)
  BY Building DEF Built
<1>3. CASE w.op \in {"Send", "SendImm"}
  <2>1. generate_packets(w, psn) = [i \in 1..Count(w.len) |-> build(SendBuilder(w, psn, i))]
    BY <1>3, Generated
  <2> QED
    BY SMT, <1>1, <1>2, <1>3, <2>1
<1>4. CASE w.op \in {"RdmaWrite", "RdmaWriteImm"}
  <2>1. generate_packets(w, psn) = [i \in 1..Count(w.len) |-> build(WriteBuilder(w, psn, i))]
    BY <1>4, Generated
  <2> QED
    BY SMT, <1>1, <1>2, <1>4, <2>1
<1>5. CASE w.op = "RdmaRead"
  <2>1. generate_packets(w, psn) = <<build(ReadBuilder(w, psn))>>
    BY <1>5, Generated
  <2> QED
    BY SMT, <1>1, <1>2, <1>5, <2>1
<1> QED
  BY <1>3, <1>4, <1>5 DEF Work

(* A receive state that takes a packet. *)
LEMMA Advancing ==
  ASSUME NEW st \in Receiving, NEW p \in SeenSet
  PROVE  /\ Advanced(p, st) =
              [in_progress |-> ~p.last, wr_id |-> st.wr_id, size |-> st.size,
               expected_psn |-> advance_psn(p.psn), data |-> st.data \o p.payload]
         /\ Advanced(p, st) \in Receiving
         /\ [st EXCEPT !.in_progress = FALSE] =
              [in_progress |-> FALSE, wr_id |-> st.wr_id, size |-> st.size,
               expected_psn |-> st.expected_psn, data |-> st.data]
         /\ [st EXCEPT !.in_progress = FALSE] \in Receiving
         /\ \A recv \in Nat : Message(p, st, recv) \in Deliveries
<1>1. /\ st.wr_id \in Nat /\ st.size \in Nat /\ st.expected_psn \in Psns
      /\ st.data \in Seq(Frags) /\ p.payload \in Seq(Frags) /\ p.psn \in Psns
      /\ p.last \in BOOLEAN /\ p.wr_id \in Nat /\ p.immediate \in Seq(Nat)
  BY DEF Receiving, SeenSet
<1>2. st.data \o p.payload \in Seq(Frags)
  BY SMT, <1>1
<1>3. advance_psn(p.psn) \in Psns
  BY <1>1, PsnInt
<1>4. PICK more, no \in BOOLEAN : more = ~p.last /\ no = FALSE
  BY <1>1, Zenon
<1>5. PICK next : next = advance_psn(p.psn)
  OBVIOUS
<1>6. PICK data : data = st.data \o p.payload
  OBVIOUS
<1>7. [st EXCEPT !.data = data, !.in_progress = more, !.expected_psn = next] =
        [in_progress |-> more, wr_id |-> st.wr_id, size |-> st.size,
         expected_psn |-> next, data |-> data]
  <2>1. PICK one : one = [st EXCEPT !.data = data]
    OBVIOUS
  <2>2. one = [in_progress |-> st.in_progress, wr_id |-> st.wr_id, size |-> st.size,
               expected_psn |-> st.expected_psn, data |-> data]
    BY <2>1 DEF Receiving
  <2>3. PICK two : two = [one EXCEPT !.in_progress = more]
    OBVIOUS
  <2>4. two = [in_progress |-> more, wr_id |-> st.wr_id, size |-> st.size,
               expected_psn |-> st.expected_psn, data |-> data]
    BY <2>2, <2>3
  <2>5. [two EXCEPT !.expected_psn = next] =
          [in_progress |-> more, wr_id |-> st.wr_id, size |-> st.size,
           expected_psn |-> next, data |-> data]
    BY SMT, <2>4
  <2> QED
    BY <2>1, <2>3, <2>5
<1>8. Advanced(p, st) = [in_progress |-> more, wr_id |-> st.wr_id, size |-> st.size,
                         expected_psn |-> next, data |-> data]
  BY <1>4, <1>5, <1>6, <1>7 DEF Advanced
<1>9. [st EXCEPT !.in_progress = no] =
        [in_progress |-> no, wr_id |-> st.wr_id, size |-> st.size,
         expected_psn |-> st.expected_psn, data |-> st.data]
  BY SMT DEF Receiving
<1>10. \A recv \in Nat : Message(p, st, recv) \in Deliveries
  BY <1>1, <1>2 DEF Message, Deliveries
<1>11. Advanced(p, st) \in Receiving
  BY SMT, <1>1, <1>2, <1>3, <1>5, <1>6, <1>8 DEF Receiving
<1>12. [st EXCEPT !.in_progress = no] \in Receiving
  BY <1>1, <1>9 DEF Receiving
<1> QED
  BY <1>4, <1>5, <1>6, <1>8, <1>9, <1>10, <1>11, <1>12

(* A refusal changes nothing but the wire. *)
LEMMA NakTyped ==
  ASSUME NEW e \in Endpoints, NEW psn \in Psns, NEW syndrome \in Syndromes, Typed,
         Arriving(wire[e]) # {}, Nak(e, psn, syndrome)
  PROVE  Typed'
<1>1. WireTyped'
  BY AcksTyped, AnswerTyped DEF Nak, Typed
<1> QED
  BY <1>1 DEF Typed, QpTyped, RequesterTyped, ResponderTyped, Nak, qpVars, requester, responder

(* The refusals of the responder are NAKs with a PSN of the space. *)
LEMMA Refusing ==
  ASSUME NEW e \in Endpoints, NEW p \in SeenSet, Typed, NEW st \in Receiving,
         Refused(e, p) \/ OutOfPlace(e, p, st)
  PROVE  \E psn \in Psns, syndrome \in Syndromes \ {"Ack"} : Nak(e, psn, syndrome)
<1>1. p.psn \in Psns /\ rq_psn[e] \in Psns /\ st.expected_psn \in Psns
  BY DEF SeenSet, Typed, QpTyped, Receiving
<1>2. {"InvalidRequest", "PsnSeqError"} \subseteq Syndromes \ {"Ack"}
  BY DEF Syndromes
<1> QED
  BY <1>1, <1>2 DEF Refused, OutOfPlace

(* An accepted packet. *)
LEMMA AcceptTyped ==
  ASSUME NEW e \in Endpoints, NEW p \in SeenSet, Typed, NEW message \in Deliveries,
         Arriving(wire[e]) # {}, Accept(e, p, message),
         recv_queue' \in [Endpoints -> Seq(Recvs)],
         recv_state' \in [Endpoints -> Receiving], write_state' \in [Endpoints -> Receiving]
  PROVE  Typed'
<1>1. p.psn \in Psns /\ "Ack" \in Syndromes
  BY DEF SeenSet, Syndromes
<1>2. PICK packets \in Seq(Built(Builders)) : Answer(e, packets)
  BY <1>1, AcksTyped DEF Accept
<1>3. WireTyped'
  BY <1>2, AnswerTyped DEF Typed
<1>4. rq_psn' \in [Endpoints -> Psns]
  <2>1. advance_psn(rq_psn[e]) \in Psns
    BY PsnInt DEF Typed, QpTyped
  <2> QED
    BY <2>1 DEF Accept, Typed, QpTyped
<1>5. delivered' \in [Endpoints -> Seq(Deliveries)]
  <2>1. delivered \in [Endpoints -> Seq(Deliveries)]
    BY DEF Typed, ResponderTyped
  <2>2. Append(delivered[e], message) \in Seq(Deliveries)
    BY SMT, <2>1
  <2>3. [delivered EXCEPT ![e] = Append(delivered[e], message)] \in [Endpoints -> Seq(Deliveries)]
    BY <2>1, <2>2
  <2> QED
    BY <2>1, <2>3 DEF Accept
<1> QED
  BY <1>3, <1>4, <1>5 DEF Typed, QpTyped, RequesterTyped, ResponderTyped, Accept, requester

(* The first packet of a message takes the oldest receive request. *)
LEMMA Consuming ==
  ASSUME NEW e \in Endpoints, Typed, recv_queue[e] # <<>>, consume_recv(e)
  PROVE  /\ recv_queue' = [recv_queue EXCEPT ![e] = Tail(recv_queue[e])]
         /\ recv_queue' \in [Endpoints -> Seq(Recvs)]
         /\ Head(recv_queue[e]) \in Recvs
<1>1. recv_queue[e] \in Seq(Recvs) /\ recv_queue \in [Endpoints -> Seq(Recvs)]
  BY DEF Typed, QpTyped
<1>2. Tail(recv_queue[e]) \in Seq(Recvs) /\ Head(recv_queue[e]) \in Recvs
  BY SMT, <1>1
<1> QED
  BY <1>1, <1>2 DEF consume_recv

(* A receive state for a new message. *)
LEMMA Fresh ==
  ASSUME NEW id \in Nat, NEW size \in Nat, NEW psn \in Psns
  PROVE  [in_progress |-> TRUE, wr_id |-> id, size |-> size, expected_psn |-> psn, data |-> <<>>]
           \in Receiving
<1>1. PICK yes \in BOOLEAN : yes = TRUE
  BY Zenon
<1>e. <<>> \in Seq(Frags)
  BY SMT
<1>2. PICK data \in Seq(Frags) : data = <<>>
  BY <1>e, Zenon
<1>3. [in_progress |-> yes, wr_id |-> id, size |-> size, expected_psn |-> psn, data |-> data]
        \in Receiving
  BY DEF Receiving
<1> QED
  BY <1>1, <1>2, <1>3, Zenon

(* The state a packet is processed with. *)
LEMMA Held ==
  ASSUME NEW e \in Endpoints, NEW p \in SeenSet, Typed
  PROVE  /\ (p.first => recv_queue[e] # <<>>) => RecvState(e, p) \in Receiving
         /\ WriteState(e, p) \in Receiving
         /\ p.first => RecvState(e, p).data = <<>> /\ WriteState(e, p).data = <<>>
<1>1. /\ recv_queue[e] \in Seq(Recvs) /\ recv_state[e] \in Receiving
      /\ write_state[e] \in Receiving
  BY DEF Typed, QpTyped, ResponderTyped
<1>2. p.psn \in Psns /\ p.dma_length \in Nat
  BY DEF SeenSet
<1>3. ASSUME p.first, recv_queue[e] # <<>> PROVE RecvState(e, p) \in Receiving
  <2>1. PICK r \in Recvs : r = Head(recv_queue[e])
    BY SMT, <1>1, <1>3
  <2>2. r.wr_id \in Nat /\ r.size \in Nat
    BY DEF Recvs
  <2>3. [in_progress |-> TRUE, wr_id |-> r.wr_id, size |-> r.size, expected_psn |-> p.psn,
         data |-> <<>>] \in Receiving
    BY <1>2, <2>2, Fresh, Zenon
  <2> QED
    BY <1>3, <2>1, <2>3, Zenon DEF RecvState
<1>4. ASSUME p.first PROVE WriteState(e, p) \in Receiving
  <2>1. [in_progress |-> TRUE, wr_id |-> 0, size |-> p.dma_length, expected_psn |-> p.psn,
         data |-> <<>>] \in Receiving
    <3>1. 0 \in Nat
      OBVIOUS
    <3> QED
      BY <1>2, <3>1, Fresh, Zenon
  <2> QED
    BY <1>4, <2>1, Zenon DEF WriteState
<1>5. ASSUME ~p.first PROVE RecvState(e, p) \in Receiving /\ WriteState(e, p) \in Receiving
  BY <1>1, <1>5, Zenon DEF RecvState, WriteState
<1>6. p.first => RecvState(e, p).data = <<>> /\ WriteState(e, p).data = <<>>
  BY DEF RecvState, WriteState
<1> QED
  BY <1>3, <1>4, <1>5, <1>6

(* A SEND packet keeps the types. *)
LEMMA RecvTyped ==
  ASSUME NEW e \in Endpoints, NEW p \in SeenSet, Typed, Arriving(wire[e]) # {},
         process_recv_packet(e, p)
  PROVE  Typed'
<1>1. recv_state[e] \in Receiving
  BY DEF Typed, ResponderTyped
<1>2. CASE Refused(e, p) \/ (~p.first /\ OutOfPlace(e, p, recv_state[e]))
  BY <1>1, <1>2, Refusing, NakTyped
<1>3. CASE Acceptable(e, p) /\ p.first /\ recv_queue[e] = <<>> /\ Nak(e, p.psn, "RnrNak")
  BY <1>3, NakTyped DEF SeenSet, Syndromes
<1>4. ASSUME NEW st, st = RecvState(e, p), Acceptable(e, p),
             p.first => recv_queue[e] # <<>>,
             IF p.first THEN consume_recv(e) ELSE UNCHANGED recv_queue,
             UNCHANGED write_state,
             \/ /\ recv_state' = [recv_state EXCEPT ![e] = Advanced(p, st)]
                /\ Accept(e, p, Message(p, st, st.wr_id))
             \/ /\ recv_state' = [recv_state EXCEPT ![e] = [st EXCEPT !.in_progress = FALSE]]
                /\ Answer(e, generate_ack(p.psn, "RemoteAccessError"))
                /\ UNCHANGED <<state, sq_psn, rq_psn, recvs, delivered, requester>>
      PROVE  Typed'
  <2>1. recv_queue' \in [Endpoints -> Seq(Recvs)]
    BY <1>4, Consuming DEF Typed, QpTyped
  <2>2. st \in Receiving
    BY <1>4, Held
  <2>3. /\ Advanced(p, st) \in Receiving /\ [st EXCEPT !.in_progress = FALSE] \in Receiving
        /\ Message(p, st, st.wr_id) \in Deliveries
    BY <2>2, Advancing DEF Receiving
  <2>4. recv_state' \in [Endpoints -> Receiving] /\ write_state' \in [Endpoints -> Receiving]
    BY <1>4, <2>3 DEF Typed, ResponderTyped
  <2>5. CASE Accept(e, p, Message(p, st, st.wr_id))
    BY <2>1, <2>3, <2>4, <2>5, AcceptTyped
  <2>6. CASE /\ Answer(e, generate_ack(p.psn, "RemoteAccessError"))
             /\ UNCHANGED <<state, sq_psn, rq_psn, recvs, delivered, requester>>
    <3>1. p.psn \in Psns /\ "RemoteAccessError" \in Syndromes
      BY DEF SeenSet, Syndromes
    <3>2. WireTyped'
      BY <2>6, <3>1, AcksTyped, AnswerTyped DEF Typed
    <3> QED
      BY <2>1, <2>4, <2>6, <3>2
         DEF Typed, QpTyped, RequesterTyped, ResponderTyped, requester
  <2> QED
    BY <1>4, <2>5, <2>6
<1> QED
  BY <1>2, <1>3, <1>4 DEF process_recv_packet

-----------------------------------------------------------------------------
(* The requests an acknowledgement completes. *)

Increasing(f) == \A i, j \in DOMAIN f : i < j => f[i] < f[j]

Selected(t, s, I) ==
  \E at \in [DOMAIN t -> I] : Increasing(at) /\ \A k \in DOMAIN t : t[k] = s[at[k]]

(* The entries at a set of positions: each was in the sequence, and they   *)
(* keep their order (complete_up_to, the erase of process_ack).            *)
LEMMA Selecting ==
  ASSUME NEW S, NEW s \in Seq(S), NEW I \in SUBSET (DOMAIN s), NEW t \in EntriesAt(s, I)
  PROVE  t \in Seq(S) /\ Selected(t, s, I)
<1>1. PICK f \in InOrder(s, I) : t = [i \in DOMAIN f |-> s[f[i]]]
  BY DEF EntriesAt
<1>2. PICK n \in Nat : f \in [1..n -> I] /\ Increasing(f)
  BY SMT, <1>1 DEF InOrder, Increasing
<1>3. t = [i \in 1..n |-> s[f[i]]] /\ \A i \in 1..n : s[f[i]] \in S
  BY SMT, <1>1, <1>2
<1>4. t \in Seq(S) /\ DOMAIN t = 1..n
  BY SMT, <1>2, <1>3
<1>5. \A k \in DOMAIN t : t[k] = s[f[k]]
  BY <1>3, <1>4
<1>6. Selected(t, s, I)
  BY <1>2, <1>4, <1>5 DEF Selected
<1> QED
  BY <1>4, <1>6

-----------------------------------------------------------------------------
(* The other handlers keep the types. *)

(* A WRITE packet keeps the types. *)
LEMMA WriteTyped ==
  ASSUME NEW e \in Endpoints, NEW p \in SeenSet, Typed, Arriving(wire[e]) # {},
         process_write_packet(e, p)
  PROVE  Typed'
<1>1. write_state[e] \in Receiving /\ p.psn \in Psns /\ p.dma_length \in Nat
  BY DEF Typed, ResponderTyped, SeenSet
<1>2. "RemoteAccessError" \in Syndromes /\ "RnrNak" \in Syndromes
  BY DEF Syndromes
<1>3. CASE Refused(e, p) \/ (~p.first /\ OutOfPlace(e, p, write_state[e]))
  BY <1>1, <1>3, Refusing, NakTyped
<1>4. CASE Nak(e, p.psn, "RemoteAccessError")
  BY <1>1, <1>2, <1>4, NakTyped
<1>5. ASSUME NEW st, st = WriteState(e, p), NEW notify, UNCHANGED recv_state,
             \/ /\ write_state' = [write_state EXCEPT ![e] = [st EXCEPT !.in_progress = FALSE]]
                /\ Answer(e, generate_ack(p.psn, "RemoteAccessError"))
                /\ UNCHANGED <<qpVars, recvs, delivered, requester>>
             \/ /\ notify => recv_queue[e] # <<>>
                /\ write_state' = [write_state EXCEPT ![e] = Advanced(p, st)]
                /\ IF notify THEN consume_recv(e) ELSE UNCHANGED recv_queue
                /\ Accept(e, p, Message(p, st, IF notify THEN Head(recv_queue[e]).wr_id ELSE 0))
             \/ /\ write_state' = [write_state EXCEPT ![e] = Advanced(p, st)]
                /\ rq_psn' = [rq_psn EXCEPT ![e] = advance_psn(@)]
                /\ Answer(e, generate_ack(p.psn, "RnrNak"))
                /\ UNCHANGED <<state, sq_psn, recv_queue, recvs, delivered, requester>>
      PROVE  Typed'
  <2>1. st \in Receiving
    BY <1>5, Held
  <2>2. /\ Advanced(p, st) \in Receiving /\ [st EXCEPT !.in_progress = FALSE] \in Receiving
        /\ \A recv \in Nat : Message(p, st, recv) \in Deliveries
    BY <2>1, Advancing
  <2>3. recv_state' \in [Endpoints -> Receiving] /\ write_state' \in [Endpoints -> Receiving]
    BY <1>5, <2>2 DEF Typed, ResponderTyped
  <2>4. CASE /\ notify => recv_queue[e] # <<>>
             /\ IF notify THEN consume_recv(e) ELSE UNCHANGED recv_queue
             /\ Accept(e, p, Message(p, st, IF notify THEN Head(recv_queue[e]).wr_id ELSE 0))
    <3>1. recv_queue' \in [Endpoints -> Seq(Recvs)]
      BY <2>4, Consuming DEF Typed, QpTyped
    <3>2. PICK recv \in Nat : recv = IF notify THEN Head(recv_queue[e]).wr_id ELSE 0
      BY <2>4, Consuming DEF Recvs
    <3> QED
      BY <2>2, <2>3, <2>4, <3>1, <3>2, AcceptTyped
  <2>5. CASE /\ Answer(e, generate_ack(p.psn, "RemoteAccessError"))
             /\ UNCHANGED <<qpVars, recvs, delivered, requester>>
    <3>1. WireTyped'
      BY <1>1, <1>2, <2>5, AcksTyped, AnswerTyped DEF Typed
    <3> QED
      BY <2>3, <2>5, <3>1 DEF Typed, QpTyped, RequesterTyped, ResponderTyped, requester, qpVars
  <2>6. CASE /\ rq_psn' = [rq_psn EXCEPT ![e] = advance_psn(@)]
             /\ Answer(e, generate_ack(p.psn, "RnrNak"))
             /\ UNCHANGED <<state, sq_psn, recv_queue, recvs, delivered, requester>>
    <3>1. WireTyped'
      BY <1>1, <1>2, <2>6, AcksTyped, AnswerTyped DEF Typed
    <3>2. advance_psn(rq_psn[e]) \in Psns
      BY PsnInt DEF Typed, QpTyped
    <3>3. rq_psn' \in [Endpoints -> Psns]
      BY <2>6, <3>2 DEF Typed, QpTyped
    <3> QED
      BY <2>3, <2>6, <3>1, <3>3 DEF Typed, QpTyped, RequesterTyped, ResponderTyped, requester
  <2> QED
    BY <1>5, <2>4, <2>5, <2>6
<1> QED
  BY <1>3, <1>4, <1>5 DEF process_write_packet

(* A READ request keeps the types. *)
LEMMA ReadTyped ==
  ASSUME NEW e \in Endpoints, NEW p \in SeenSet, Typed, Arriving(wire[e]) # {},
         process_read_request(e, p)
  PROVE  Typed'
<1>1. /\ write_state[e] \in Receiving /\ p.psn \in Psns /\ p.dma_length \in Nat
      /\ p.wr_id \in Nat /\ p.immediate \in Seq(Nat)
      /\ rq_psn[e] \in Psns /\ sq_psn[e] \in Psns
  BY DEF Typed, ResponderTyped, QpTyped, SeenSet
<1>2. CASE Refused(e, p)
  BY <1>1, <1>2, Refusing, NakTyped
<1>3. advance_psn(rq_psn[e]) \in Psns
  BY <1>1, PsnInt
<1>4. ASSUME UNCHANGED <<state, recv_queue, recv_state, write_state, recvs, requester>>,
             rq_psn' = [rq_psn EXCEPT ![e] = advance_psn(@)],
             sq_psn' = [sq_psn EXCEPT ![e] = (@ + Count(p.dma_length)) % PsnModulus],
             delivered' = [delivered EXCEPT ![e] =
               Append(@, Message(p, [data |-> Fragments(p.wr_id, p.dma_length)], 0))],
             Answer(e, generate_read_responses(e, p))
      PROVE  Typed'
  <2>1. PICK w \in Work : w = [wr_id |-> p.wr_id, op |-> "RdmaRead", len |-> p.dma_length]
    BY <1>1 DEF Work
  <2>2. generate_read_responses(e, p) =
          [i \in 1..Count(w.len) |-> build(ResponseBuilder(w, sq_psn[e], i))]
    BY <2>1, Zenon DEF generate_read_responses, ResponseBuilder
  <2>3. generate_read_responses(e, p) \in Seq(Built(Builders))
    BY <1>1, <2>2, PacketsTyped
  <2>4. WireTyped'
    BY <1>4, <2>3, AnswerTyped DEF Typed
  <2>5. (sq_psn[e] + Count(p.dma_length)) % PsnModulus \in Psns
    <3>1. sq_psn[e] \in Nat /\ Count(p.dma_length) \in Nat
      <4>1. sq_psn[e] \in Nat
        BY <1>1, PsnInt
      <4>2. Count(p.dma_length) \in Nat
        BY <1>1, Counting
      <4> QED
        BY <4>1, <4>2
    <3>2. sq_psn[e] + Count(p.dma_length) \in Int
      BY SMT, <3>1
    <3> QED
      BY <3>2, PsnWraps
  <2>6. sq_psn' \in [Endpoints -> Psns] /\ rq_psn' \in [Endpoints -> Psns]
    BY <1>3, <1>4, <2>5 DEF Typed, QpTyped
  <2>7. Message(p, [data |-> Fragments(p.wr_id, p.dma_length)], 0) \in Deliveries
    <3>0. PICK id \in Nat, n \in Nat : id = p.wr_id /\ n = p.dma_length
      BY <1>1
    <3>1. \A i \in 1..n : [wr_id |-> id, part |-> i] \in Frags
      BY SMT DEF Frags
    <3>2. Fragments(p.wr_id, p.dma_length) \in Seq(Frags) /\ p.payload \in Seq(Frags)
      <4>1. Fragments(id, n) \in Seq(Frags)
        BY SMT, <3>1 DEF Fragments
      <4>2. p.payload \in Seq(Frags)
        BY DEF SeenSet
      <4> QED
        BY <3>0, <4>1, <4>2
    <3>3. Fragments(p.wr_id, p.dma_length) \o p.payload \in Seq(Frags)
      BY SMT, <3>2
    <3> QED
      BY <1>1, <3>3 DEF Message, Deliveries
  <2>8. delivered' \in [Endpoints -> Seq(Deliveries)]
    <3>1. delivered \in [Endpoints -> Seq(Deliveries)]
      BY DEF Typed, ResponderTyped
    <3>2. Append(delivered[e], Message(p, [data |-> Fragments(p.wr_id, p.dma_length)], 0))
            \in Seq(Deliveries)
      BY SMT, <2>7, <3>1
    <3> QED
      BY <1>4, <3>1, <3>2
  <2> QED
    BY <1>4, <2>4, <2>6, <2>8 DEF Typed, QpTyped, RequesterTyped, ResponderTyped, requester
<1>5. ASSUME UNCHANGED <<state, recv_queue, recv_state, write_state, recvs, requester>>,
             rq_psn' \in {rq_psn, [rq_psn EXCEPT ![e] = advance_psn(@)]},
             Answer(e, generate_ack(p.psn, "RemoteAccessError")),
             UNCHANGED <<sq_psn, delivered>>
      PROVE  Typed'
  <2>1. "RemoteAccessError" \in Syndromes
    BY DEF Syndromes
  <2>2. WireTyped'
    BY <1>1, <1>5, <2>1, AcksTyped, AnswerTyped DEF Typed
  <2>3. rq_psn' \in [Endpoints -> Psns]
    BY <1>3, <1>5 DEF Typed, QpTyped
  <2> QED
    BY <1>5, <2>2, <2>3 DEF Typed, QpTyped, RequesterTyped, ResponderTyped, requester
<1> QED
  BY <1>2, <1>4, <1>5 DEF process_read_request

(* A READ response keeps the types. *)
LEMMA ResponseTyped ==
  ASSUME NEW e \in Endpoints, NEW p \in SeenSet, Typed, Arriving(wire[e]) # {},
         process_read_response_packet(e, p)
  PROVE  Typed'
<1>1. PICK st \in Receiving : st = request_state[e]
  BY DEF Typed, RequesterTyped
<1>2. /\ request_state \in [Endpoints -> Receiving]
      /\ completed \in [Endpoints -> Seq(Nat)]
  BY DEF Typed, RequesterTyped
<1>3. Advanced(p, st) \in Receiving /\ [st EXCEPT !.in_progress = FALSE] \in Receiving
  BY Advancing
<1>4. st.wr_id \in Nat
  BY DEF Receiving
<1>5. \/ request_state' = request_state
      \/ request_state' = [request_state EXCEPT ![e] = Advanced(p, st)]
      \/ request_state' = [request_state EXCEPT ![e] = [st EXCEPT !.in_progress = FALSE]]
  BY <1>1, <1>2 DEF process_read_response_packet, process_read_response
<1>6. request_state' \in [Endpoints -> Receiving]
  BY <1>2, <1>3, <1>5
<1>7. completed' = completed \/ completed' = [completed EXCEPT ![e] = Append(@, st.wr_id)]
  BY <1>1 DEF process_read_response_packet, process_read_response
<1>8. completed' \in [Endpoints -> Seq(Nat)]
  <2>1. Append(completed[e], st.wr_id) \in Seq(Nat)
    BY SMT, <1>2, <1>4
  <2> QED
    BY <1>2, <1>7, <2>1
<1>9. WireTyped'
  <2>1. <<>> \in Seq(Built(Builders)) /\ Answer(e, <<>>)
    BY SMT DEF process_read_response_packet
  <2> QED
    BY <2>1, AnswerTyped DEF Typed
<1> QED
  BY <1>6, <1>8, <1>9
     DEF Typed, QpTyped, RequesterTyped, ResponderTyped, process_read_response_packet,
         qpVars, responder

(* What a NAK and a timeout make of a pending operation. *)
LEMMA PendingTyped ==
  ASSUME NEW op \in PendingAcks
  PROVE  /\ \A nak_psn, syndrome : AfterNak(op, nak_psn, syndrome) \in PendingAcks
         /\ \A now \in Elapsed : AfterTimeout(op, now) \in PendingAcks
         /\ \A nak_psn, syndrome :
              /\ AfterNak(op, nak_psn, syndrome).wr_id = op.wr_id
              /\ AfterNak(op, nak_psn, syndrome).start_psn = op.start_psn
              /\ AfterNak(op, nak_psn, syndrome).end_psn = op.end_psn
         /\ \A now \in Elapsed :
              /\ AfterTimeout(op, now).wr_id = op.wr_id
              /\ AfterTimeout(op, now).start_psn = op.start_psn
              /\ AfterTimeout(op, now).end_psn = op.end_psn
<1> DEFINE Entry(time, count, wait) ==
             [wr_id |-> op.wr_id, start_psn |-> op.start_psn, end_psn |-> op.end_psn,
              send_time_us |-> time, retry_count |-> count, waiting |-> wait]
<1>1. /\ op.wr_id \in Nat /\ op.start_psn \in Psns /\ op.end_psn \in Psns
      /\ op.send_time_us \in Elapsed \cup {0} /\ op.retry_count \in Nat
      /\ op.waiting \in BOOLEAN
      /\ op = Entry(op.send_time_us, op.retry_count, op.waiting)
  BY DEF PendingAcks
<1>2. \A time \in Elapsed \cup {0}, count \in Nat, wait \in BOOLEAN :
        Entry(time, count, wait) \in PendingAcks
  BY <1>1 DEF PendingAcks
<1>3. \A time, count, wait :
        /\ Entry(time, count, wait).wr_id = op.wr_id
        /\ Entry(time, count, wait).start_psn = op.start_psn
        /\ Entry(time, count, wait).end_psn = op.end_psn
  OBVIOUS
<1>4. PICK count \in Nat : Bumped(op) = Entry(op.send_time_us, count, op.waiting)
  <2>1. CASE op.retry_count > max_retries /\ op.retry_count > rnr_retry_count
    BY <1>1, <2>1 DEF Bumped
  <2>2. CASE ~(op.retry_count > max_retries /\ op.retry_count > rnr_retry_count)
    <3>1. PICK b : b = Bumped(op)
      OBVIOUS
    <3>2. PICK next \in Nat : next = op.retry_count + 1
      BY SMT, <1>1
    <3>3. b = [op EXCEPT !.retry_count = next]
      BY <2>2, <3>1, <3>2 DEF Bumped
    <3>4. b = Entry(op.send_time_us, next, op.waiting)
      BY <3>3 DEF PendingAcks
    <3> QED
      BY <3>1, <3>4
  <2> QED
    BY <2>1, <2>2
<1>5. ASSUME NEW nak_psn, NEW syndrome
      PROVE  \E time \in Elapsed \cup {0}, n \in Nat, wait \in BOOLEAN :
               AfterNak(op, nak_psn, syndrome) = Entry(time, n, wait)
  <2>1. CASE ~Hit(op, nak_psn, syndrome)
    <3>1. AfterNak(op, nak_psn, syndrome) = op
      BY <2>1 DEF AfterNak
    <3> HIDE DEF Entry
    <3> QED
      BY <1>1, <3>1
  <2>2. CASE Hit(op, nak_psn, syndrome) /\ syndrome \notin Retryable
    <3>1. PICK no \in BOOLEAN : no = FALSE
      BY Zenon
    <3>2. PICK b : b = [op EXCEPT !.waiting = no]
      OBVIOUS
    <3>3. b = Entry(op.send_time_us, op.retry_count, no)
      BY <3>2 DEF PendingAcks
    <3>4. AfterNak(op, nak_psn, syndrome) = b
      BY <2>2, <3>1, <3>2 DEF AfterNak
    <3> QED
      BY <1>1, <3>3, <3>4
  <2>3. CASE Hit(op, nak_psn, syndrome) /\ syndrome \in Retryable
    <3>1. PICK wait \in BOOLEAN : wait = (op.waiting /\ ~Exceeded(op, syndrome))
      BY Zenon
    <3>2. PICK time \in Elapsed \cup {0} :
            time = IF syndrome = "PsnSeqError" THEN 0 ELSE op.send_time_us
      BY <1>1
    <3>3. PICK u : u = Entry(op.send_time_us, count, op.waiting)
      OBVIOUS
    <3>4. [u EXCEPT !.waiting = wait] = Entry(op.send_time_us, count, wait)
      BY SMT, <3>3
    <3>5. PICK v : v = Entry(op.send_time_us, count, wait)
      OBVIOUS
    <3>6. [v EXCEPT !.send_time_us = time] = Entry(time, count, wait)
      BY SMT, <3>5
    <3>7. [u EXCEPT !.waiting = wait, !.send_time_us = time] = Entry(time, count, wait)
      BY <3>4, <3>5, <3>6
    <3>8. u = Bumped(op) /\ u.waiting = op.waiting /\ u.send_time_us = op.send_time_us
      BY <1>4, <3>3
    <3>9. [Bumped(op) EXCEPT !.waiting = @ /\ ~Exceeded(op, syndrome),
                             !.send_time_us = IF syndrome = "PsnSeqError" THEN 0 ELSE @]
            = [u EXCEPT !.waiting = wait, !.send_time_us = time]
      BY <3>1, <3>2, <3>8
    <3>10. AfterNak(op, nak_psn, syndrome) = Entry(time, count, wait)
      BY <2>3, <3>7, <3>9, Zenon DEF AfterNak
    <3> QED
      BY <3>10
  <2> QED
    BY <2>1, <2>2, <2>3
<1>6. ASSUME NEW now \in Elapsed
      PROVE  \E time \in Elapsed \cup {0}, n \in Nat, wait \in BOOLEAN :
               AfterTimeout(op, now) = Entry(time, n, wait)
  <2>1. CASE ~TimedOut(op, now)
    BY <1>1, <2>1, Zenon DEF AfterTimeout
  <2>2. CASE TimedOut(op, now)
    <3>1. PICK wait \in BOOLEAN : wait = (op.waiting /\ op.retry_count + 1 <= max_retries)
      BY Zenon
    <3>2. PICK next \in Nat : next = op.retry_count + 1
      BY SMT, <1>1
    <3>3. PICK u : u = Entry(op.send_time_us, next, op.waiting)
      OBVIOUS
    <3>4. [op EXCEPT !.retry_count = next] = u
      BY SMT, <3>3 DEF PendingAcks
    <3>5. PICK v : v = Entry(now, next, op.waiting)
      OBVIOUS
    <3>6. [u EXCEPT !.send_time_us = now] = v
      BY SMT, <3>3, <3>5
    <3>7. [v EXCEPT !.waiting = wait] = Entry(now, next, wait)
      BY SMT, <3>5
    <3>8. [op EXCEPT !.retry_count = next, !.send_time_us = now, !.waiting = wait]
            = Entry(now, next, wait)
      BY <3>4, <3>6, <3>7
    <3>9. AfterTimeout(op, now) = Entry(now, next, wait)
      BY <2>2, <3>1, <3>2, <3>8 DEF AfterTimeout
    <3> QED
      BY <3>9
  <2> QED
    BY <2>1, <2>2
<1> HIDE DEF Entry
<1> QED
  BY SMT, <1>2, <1>3, <1>5, <1>6

(* Acknowledgements, positive and negative. *)
LEMMA AckTyped ==
  ASSUME NEW e \in Endpoints, NEW p \in SeenSet, Typed, Arriving(wire[e]) # {},
         process_ack_packet(e, p)
  PROVE  Typed'
<1>1. /\ pending \in [Endpoints -> Seq(PendingAcks)] /\ pending[e] \in Seq(PendingAcks)
      /\ completed \in [Endpoints -> Seq(Nat)] /\ completed[e] \in Seq(Nat)
      /\ state \in [Endpoints -> QpStates]
  BY DEF Typed, RequesterTyped, QpTyped
<1>2. WireTyped'
  <2>1. <<>> \in Seq(Built(Builders)) /\ Answer(e, <<>>)
    BY SMT DEF process_ack_packet
  <2> QED
    BY <2>1, AnswerTyped DEF Typed
<1>3. ASSUME process_ack(e, p.psn)
      PROVE  /\ pending' \in [Endpoints -> Seq(PendingAcks)]
             /\ completed' \in [Endpoints -> Seq(Nat)]
             /\ state' \in [Endpoints -> QpStates]
  <2>1. PICK waiting \in SUBSET (DOMAIN pending[e]) :
          waiting = {k \in DOMAIN pending[e] : pending[e][k].waiting}
    OBVIOUS
  <2>2. PICK acked \in SUBSET (DOMAIN pending[e]) :
          acked = {k \in waiting : Acknowledged(pending[e][k], p.psn)}
    BY <2>1
  <2>3. PICK done \in EntriesAt(pending[e], acked), left \in EntriesAt(pending[e], waiting \ acked) :
          /\ pending' = [pending EXCEPT ![e] = left]
          /\ completed' = [completed EXCEPT ![e] =
                             completed[e] \o [i \in DOMAIN done |-> done[i].wr_id]]
          /\ state' = state
    BY <1>3, <2>1, <2>2, Zenon DEF process_ack
  <2>4. done \in Seq(PendingAcks) /\ left \in Seq(PendingAcks)
    <3>1. waiting \ acked \in SUBSET (DOMAIN pending[e])
      BY <2>1
    <3> QED
      BY <1>1, <2>3, <3>1, Selecting
  <2>5. PICK ids \in Seq(Nat) : ids = [k \in DOMAIN done |-> done[k].wr_id]
    <3>1. \A k \in 1..Len(done) : done[k] \in PendingAcks
      BY SMT, <2>4
    <3>2. \A k \in 1..Len(done) : done[k].wr_id \in Nat
      BY <3>1 DEF PendingAcks
    <3>3. [k \in 1..Len(done) |-> done[k].wr_id] \in Seq(Nat) /\ DOMAIN done = 1..Len(done)
      BY SMT, <2>4, <3>2
    <3> QED
      BY <3>3
  <2>6. completed[e] \o ids \in Seq(Nat)
    BY SMT, <1>1, <2>5
  <2> QED
    BY <1>1, <2>3, <2>4, <2>5, <2>6
<1>4. ASSUME process_nak(e, p.psn, p.syndrome)
      PROVE  /\ pending' \in [Endpoints -> Seq(PendingAcks)]
             /\ completed' \in [Endpoints -> Seq(Nat)]
             /\ state' \in [Endpoints -> QpStates]
  <2>1. PICK after : after = [k \in DOMAIN pending[e] |-> AfterNak(pending[e][k], p.psn, p.syndrome)]
    OBVIOUS
  <2>2. after \in Seq(PendingAcks)
    <3>1. ASSUME NEW k \in 1..Len(pending[e])
          PROVE  AfterNak(pending[e][k], p.psn, p.syndrome) \in PendingAcks
      <4>1. PICK op \in PendingAcks : op = pending[e][k]
        BY SMT, <1>1
      <4>2. AfterNak(op, p.psn, p.syndrome) \in PendingAcks
        BY PendingTyped, Zenon
      <4> QED
        BY <4>1, <4>2
    <3>2. after = [k \in 1..Len(pending[e]) |-> AfterNak(pending[e][k], p.psn, p.syndrome)]
      BY SMT, <1>1, <2>1
    <3> QED
      BY SMT, <1>1, <3>1, <3>2
  <2>3. pending' = [pending EXCEPT ![e] = after] /\ completed' = completed
    BY <1>4, <2>1, Zenon DEF process_nak
  <2>4. state' = state \/ state' = [state EXCEPT ![e] = "Error"]
    BY <1>4, Zenon DEF process_nak
  <2>5. "Error" \in QpStates
    BY DEF QpStates
  <2> QED
    BY <1>1, <2>2, <2>3, <2>4, <2>5
<1> QED
  BY <1>2, <1>3, <1>4
     DEF Typed, QpTyped, RequesterTyped, ResponderTyped, process_ack_packet, responder

(* A packet that arrives, whatever it is. *)
LEMMA ArrivalTyped ==
  ASSUME NEW e \in Endpoints, Typed, process_incoming_packet(e)
  PROVE  Typed'
<1>1. PICK p \in {parse(packet) : packet \in {w \in Arriving(wire[e]) : parses(w)}} :
        \/ p.opcode \in SendOpcodes /\ process_recv_packet(e, p)
        \/ p.opcode \in WriteOpcodes /\ process_write_packet(e, p)
        \/ p.opcode = "ReadRequest" /\ process_read_request(e, p)
        \/ opcode_is_read_response(p.opcode) /\ process_read_response_packet(e, p)
        \/ p.opcode = "Ack" /\ process_ack_packet(e, p)
  BY DEF process_incoming_packet
<1>2. PICK w \in Arriving(wire[e]) : p = parse(w)
  BY <1>1
<1>3. w \in Built(Builders)
  <2>1. wire[e] \in Wires(Built(Builders)) /\ <<>> \in Seq(Built(Builders))
    BY SMT DEF Typed, WireTyped
  <2> QED
    BY <1>2, <2>1, Carrying
<1>4. p \in SeenSet
  BY <1>2, <1>3, Sight DEF Built
<1>5. Arriving(wire[e]) # {}
  BY <1>2
<1> QED
  BY <1>1, <1>4, <1>5, RecvTyped, WriteTyped, ReadTyped, ResponseTyped, AckTyped

(* A step that only sends. *)
LEMMA Sending ==
  ASSUME NEW e \in Endpoints, NEW P, NEW Q, NEW packets \in Seq(Q),
         wire = [x \in Endpoints |-> wire[x]],
         wire[e] \in Wires(P), wire[Peer(e)] \in Wires(Q), queue_outgoing(e, packets)
  PROVE  /\ wire' = [x \in Endpoints |-> wire'[x]]
         /\ wire'[e] \in Wires(P) /\ wire'[Peer(e)] \in Wires(Q)
<1>1. Sent(wire[Peer(e)], packets) \in Wires(Q)
  BY Carrying
<1>2. Peer(e) \in Endpoints /\ Peer(e) # e
  BY Peers
<1>3. wire' = [wire EXCEPT ![Peer(e)] = Sent(wire[Peer(e)], packets)]
  BY DEF queue_outgoing
<1> QED
  BY <1>1, <1>2, <1>3

(* Posting a work request keeps the types. *)
LEMMA PostTyped ==
  ASSUME NEW e \in Endpoints, NEW op \in Ops, NEW len \in Lengths, Typed, post_send(e, op, len)
  PROVE  Typed'
<1>1. /\ posted \in [Endpoints -> Seq(Requests)] /\ posted[e] \in Seq(Requests)
      /\ pending \in [Endpoints -> Seq(PendingAcks)] /\ pending[e] \in Seq(PendingAcks)
      /\ request_state \in [Endpoints -> Receiving]
      /\ sq_psn \in [Endpoints -> Psns] /\ sq_psn[e] \in Psns
  BY DEF Typed, RequesterTyped, QpTyped
<1>2. Len(posted[e]) + 1 \in Nat /\ len \in Nat
  BY SMT, <1>1, WorkAssumption
<1>3. PICK w : w = [wr_id |-> Len(posted[e]) + 1, op |-> op, len |-> len]
  OBVIOUS
<1>4. w \in Work /\ w \in Requests /\ w.wr_id \in Nat
  BY <1>2, <1>3, WorkAssumption DEF Work, Requests
<1>5. PICK packets \in Seq(Built(Builders)) :
        packets = generate_packets(w, sq_psn[e]) /\ Len(packets) \in Nat
  <2>1. generate_packets(w, sq_psn[e]) \in Seq(Built(Builders))
    BY <1>1, <1>4, PacketsTyped, Zenon
  <2> QED
    BY SMT, <2>1
<1>6. PICK end \in Psns : end = (sq_psn[e] + Len(packets) - 1) % PsnModulus
  <2>1. sq_psn[e] \in Nat
    BY <1>1, PsnInt
  <2>2. sq_psn[e] + Len(packets) - 1 \in Int
    BY SMT, <2>1, <1>5
  <2> QED
    BY <2>2, PsnWraps
<1>7. /\ posted' = [posted EXCEPT ![e] = Append(posted[e], w)]
      /\ sq_psn' = [sq_psn EXCEPT ![e] = advance_psn(end)]
      /\ pending' = [pending EXCEPT ![e] = Append(pending[e], PendingAck(w, sq_psn[e], end))]
      /\ queue_outgoing(e, packets)
      /\ UNCHANGED <<state, rq_psn, recv_queue, completed, failures, responder>>
  BY <1>3, <1>5, <1>6, Zenon DEF post_send
<1>8. request_state' \in [Endpoints -> Receiving]
  <2>2. PICK st : st = [in_progress |-> TRUE, wr_id |-> w.wr_id, size |-> len,
                        expected_psn |-> sq_psn[e], data |-> <<>>]
    OBVIOUS
  <2>3. st \in Receiving
    BY <1>1, <1>2, <1>4, <2>2, Fresh, Zenon
  <2>4. request_state' = request_state \/ request_state' = [request_state EXCEPT ![e] = st]
    BY <1>3, <2>2, Zenon DEF post_send
  <2> QED
    BY <1>1, <2>3, <2>4
<1>9. PendingAck(w, sq_psn[e], end) \in PendingAcks
  <2>1. PICK yes \in BOOLEAN : yes = TRUE
    BY Zenon
  <2>2. PICK id \in Nat, start \in Psns : id = w.wr_id /\ start = sq_psn[e]
    BY <1>1, <1>4
  <2>3. [wr_id |-> id, start_psn |-> start, end_psn |-> end,
         send_time_us |-> 0, retry_count |-> 0, waiting |-> yes] \in PendingAcks
    BY DEF PendingAcks
  <2> QED
    BY <2>1, <2>2, <2>3, Zenon DEF PendingAck
<1>10. /\ Append(pending[e], PendingAck(w, sq_psn[e], end)) \in Seq(PendingAcks)
       /\ Append(posted[e], w) \in Seq(Requests)
  BY SMT, <1>1, <1>4, <1>9
<1>11. /\ posted' \in [Endpoints -> Seq(Requests)]
       /\ pending' \in [Endpoints -> Seq(PendingAcks)]
  BY <1>1, <1>7, <1>10
<1>12. sq_psn' \in [Endpoints -> Psns]
  BY <1>1, <1>6, <1>7, PsnInt
<1>13. WireTyped'
  <2>1. wire = [x \in Endpoints |-> wire[x]]
    BY DEF Typed, WireTyped
  <2>2. Peer(e) \in Endpoints /\ \A x \in Endpoints : x = e \/ x = Peer(e)
    BY Peers
  <2>3. wire[e] \in Wires(Built(Builders)) /\ wire[Peer(e)] \in Wires(Built(Builders))
    BY <2>2 DEF Typed, WireTyped
  <2>4. /\ wire' = [x \in Endpoints |-> wire'[x]]
        /\ wire'[e] \in Wires(Built(Builders)) /\ wire'[Peer(e)] \in Wires(Built(Builders))
    BY <1>7, <2>1, <2>3, Sending, Zenon
  <2> QED
    BY <2>2, <2>4 DEF WireTyped
<1> QED
  BY <1>7, <1>8, <1>11, <1>12, <1>13
     DEF Typed, QpTyped, RequesterTyped, ResponderTyped, responder

(* Every step keeps the types, from the start on. *)
LEMMA StepTyped ==
  ASSUME Typed, [Next]_vars
  PROVE  Typed'
<1>1. CASE UNCHANGED vars
  BY <1>1 DEF Typed, QpTyped, RequesterTyped, ResponderTyped, WireTyped, vars, qpVars,
              requester, responder
<1>2. ASSUME NEW e \in Endpoints, NEW target \in Targets, modify_qp(e, target)
      PROVE  Typed'
  <2>1. /\ state \in [Endpoints -> QpStates] /\ state[e] \in QpStates
        /\ sq_psn \in [Endpoints -> Psns] /\ rq_psn \in [Endpoints -> Psns]
    BY DEF Typed, QpTyped
  <2>2. StartPsn[e] \in Psns /\ StartPsn[Peer(e)] \in Psns
    BY Peers, PsnAssumption DEF Psns
  <2>3. target \in QpStates
    BY <1>2, <2>1 DEF modify_qp, modify, is_valid_transition, QpStates
  <2>4. /\ state' \in [Endpoints -> QpStates]
        /\ sq_psn' \in [Endpoints -> Psns] /\ rq_psn' \in [Endpoints -> Psns]
    BY <1>2, <2>1, <2>2, <2>3 DEF modify_qp, modify
  <2> QED
    BY <1>2, <2>4 DEF modify_qp, Typed, QpTyped, RequesterTyped, ResponderTyped, WireTyped,
                      requester, responder
<1>3. ASSUME NEW e \in Endpoints, NEW size \in BufferSizes, post_recv(e, size)
      PROVE  Typed'
  <2>1. /\ recvs \in [Endpoints -> Nat] /\ recv_queue \in [Endpoints -> Seq(Recvs)]
        /\ recvs[e] + 1 \in Nat /\ recv_queue[e] \in Seq(Recvs)
    BY SMT DEF Typed, QpTyped, ResponderTyped
  <2>2. PICK r : r = [wr_id |-> recvs[e] + 1, size |-> size]
    OBVIOUS
  <2>3. r \in Recvs
    BY <2>1, <2>2, WorkAssumption DEF Recvs
  <2>4. Append(recv_queue[e], r) \in Seq(Recvs)
    BY SMT, <2>1, <2>3
  <2>5. /\ recvs' = [recvs EXCEPT ![e] = recvs[e] + 1]
        /\ recv_queue' = [recv_queue EXCEPT ![e] = Append(recv_queue[e], r)]
    BY <1>3, <2>2 DEF post_recv
  <2>6. recvs' \in [Endpoints -> Nat] /\ recv_queue' \in [Endpoints -> Seq(Recvs)]
    BY <2>1, <2>4, <2>5
  <2> QED
    BY <1>3, <2>6 DEF post_recv, Typed, QpTyped, RequesterTyped, ResponderTyped, WireTyped,
                      requester
<1>4. ASSUME NEW e \in Endpoints, NEW t \in Elapsed, advance_time(e, t)
      PROVE  Typed'
  <2>1. pending \in [Endpoints -> Seq(PendingAcks)] /\ pending[e] \in Seq(PendingAcks)
    BY DEF Typed, RequesterTyped
  <2>2. PICK after : after = [k \in DOMAIN pending[e] |-> AfterTimeout(pending[e][k], t)]
    OBVIOUS
  <2>3. after \in Seq(PendingAcks)
    <3>1. \A k \in 1..Len(pending[e]) : AfterTimeout(pending[e][k], t) \in PendingAcks
      BY SMT, <2>1, PendingTyped
    <3>2. after = [k \in 1..Len(pending[e]) |-> AfterTimeout(pending[e][k], t)]
      BY SMT, <2>1, <2>2
    <3> QED
      BY SMT, <2>1, <3>1, <3>2
  <2>4. pending' = [pending EXCEPT ![e] = after]
    BY <1>4, <2>2, Zenon DEF advance_time
  <2>5. pending' \in [Endpoints -> Seq(PendingAcks)]
    BY <2>1, <2>3, <2>4
  <2> QED
    BY <1>4, <2>5 DEF advance_time, Typed, QpTyped, RequesterTyped, ResponderTyped, WireTyped,
                      qpVars, responder
<1> QED
  BY <1>1, <1>2, <1>3, <1>4, PostTyped, ArrivalTyped DEF Next

(* The initial states are typed. *)
LEMMA InitTyped ==
  ASSUME Init
  PROVE  Typed
<1>1. \A e \in Endpoints : StartPsn[e] \in Psns /\ StartPsn[Peer(e)] \in Psns
  BY Peers, PsnAssumption DEF Psns
<1>2. 0 \in Psns
  BY SMT, PsnAssumption DEF Psns
<1>3. QpTyped
  <2>1. "Rts" \in QpStates /\ "Reset" \in QpStates
    BY DEF QpStates
  <2>2. state \in [Endpoints -> QpStates]
    BY <2>1 DEF Init
  <2>3. sq_psn \in [Endpoints -> Psns] /\ rq_psn \in [Endpoints -> Psns]
    BY <1>1, <1>2 DEF Init
  <2>4. recv_queue \in [Endpoints -> Seq(Recvs)]
    BY SMT DEF Init
  <2> QED
    BY <2>2, <2>3, <2>4 DEF QpTyped
<1>4. Idle \in Receiving
  <2>1. PICK no \in BOOLEAN : no = FALSE
    BY Zenon
  <2>2. PICK idle : idle = [in_progress |-> no, wr_id |-> 0, size |-> 0, expected_psn |-> 0,
                            data |-> <<>>]
    OBVIOUS
  <2>3. idle \in Receiving
    BY SMT, <1>2, <2>2 DEF Receiving
  <2> QED
    BY <2>1, <2>2, <2>3 DEF Idle
<1>5. RequesterTyped /\ ResponderTyped
  <2>1. \A S : [e \in Endpoints |-> <<>>] \in [Endpoints -> Seq(S)]
    BY SMT
  <2>2. [e \in Endpoints |-> Idle] \in [Endpoints -> Receiving]
    BY <1>4
  <2>3. [e \in Endpoints |-> 0] \in [Endpoints -> Nat]
    OBVIOUS
  <2> QED
    BY <2>1, <2>2, <2>3, Zenon DEF Init, RequesterTyped, ResponderTyped
<1>6. WireTyped
  <2>1. (IF Lossy THEN {} ELSE <<>>) \in Wires(Built(Builders))
    <3>1. <<>> \in Seq(Built(Builders)) /\ {} \in SUBSET Built(Builders)
      BY SMT
    <3> QED
      BY <3>1, Zenon DEF Wires
  <2> QED
    BY <2>1 DEF Init, WireTyped
<1> QED
  BY <1>3, <1>5, <1>6 DEF Typed

(* For every network, PSN space, message length and mix of operations the  *)
(* queue pairs, the receive states, the pending operations and every packet *)
(* on the wire stay well formed; the packets have to be in the invariant,  *)
(* since the states are made from what the parser sees of them.            *)
THEOREM TransportTyped == Spec => []TypeOK
<1>1. Init => Typed
  BY InitTyped
<1>2. Typed /\ [Next]_vars => Typed'
  BY StepTyped
<1>3. Typed => TypeOK
  <2>1. SUFFICES ASSUME Typed PROVE TypeOK
    OBVIOUS
  <2>2. ASSUME NEW e \in Endpoints
        PROVE  /\ \A k \in DOMAIN pending[e] : pending[e][k] \in PendingAcks
               /\ recv_state[e] \in Receiving /\ write_state[e] \in Receiving
               /\ request_state[e] \in Receiving
    <3>1. pending[e] \in Seq(PendingAcks)
      BY <2>1 DEF Typed, RequesterTyped
    <3> QED
      BY SMT, <2>1, <3>1 DEF Typed, RequesterTyped, ResponderTyped
  <2> QED
    BY <2>1, <2>2 DEF Typed, QpTyped, TypeOK, PendingAcks, Receiving
<1> QED
  BY <1>1, <1>2, <1>3, PTL DEF Spec

-----------------------------------------------------------------------------
(* Receive requests are used once, in order. *)

(* Of a receive queue q, the receive request held for the message being    *)
(* received, the deliveries d and the number n of requests posted: a       *)
(* delivery used an older request than the one held, and that one is older *)
(* than those that wait.                                                   *)
RecvOrder(q, held, d, n) ==
  /\ \A i \in DOMAIN q : q[i].wr_id \in 1..n
  /\ \A i, j \in DOMAIN q : i < j => q[i].wr_id < q[j].wr_id
  /\ held.in_progress =>
       /\ held.wr_id \in 1..n
       /\ \A i \in DOMAIN q : held.wr_id < q[i].wr_id
       /\ \A k \in DOMAIN d : d[k].recv < held.wr_id
  /\ \A k \in DOMAIN d :
       d[k].recv \in 0..n /\ \A i \in DOMAIN q : d[k].recv < q[i].wr_id
  /\ \A i, j \in DOMAIN d : i < j /\ d[i].recv # 0 /\ d[j].recv # 0 => d[i].recv < d[j].recv

(* A new request is younger than all others. *)
LEMMA OrderPosted ==
  ASSUME NEW q \in Seq(Recvs), NEW held, NEW d, NEW n \in Nat, NEW r \in Recvs,
         RecvOrder(q, held, d, n), r.wr_id = n + 1
  PROVE  RecvOrder(Append(q, r), held, d, n + 1)
<1>1. PICK t : t = Append(q, r)
  OBVIOUS
<1>2. /\ DOMAIN t = 1..(Len(q) + 1) /\ DOMAIN q = 1..Len(q) /\ Len(q) \in Nat
      /\ \A i \in 1..Len(q) : t[i] = q[i]
      /\ t[Len(q) + 1] = r
  BY SMT, <1>1
<1>a. \A i \in 1..Len(q) : q[i].wr_id \in 1..n
  BY <1>2 DEF RecvOrder
<1>b. \A i, j \in 1..Len(q) : i < j => q[i].wr_id < q[j].wr_id
  BY <1>2 DEF RecvOrder
<1>3. \A i \in DOMAIN t : t[i].wr_id \in 1..(n + 1)
  <2>1. SUFFICES ASSUME NEW i \in DOMAIN t PROVE t[i].wr_id \in 1..(n + 1)
    OBVIOUS
  <2>2. CASE i = Len(q) + 1
    BY SMT, <1>2, <2>2
  <2>3. CASE i \in 1..Len(q)
    <3>1. t[i] = q[i] /\ q[i].wr_id \in 1..n
      BY <1>2, <1>a, <2>3
    <3> QED
      BY SMT, <3>1
  <2> QED
    BY SMT, <1>2, <2>2, <2>3
<1>4. ASSUME NEW i \in DOMAIN t, NEW j \in DOMAIN t, i < j PROVE t[i].wr_id < t[j].wr_id
  <2>1. i \in 1..Len(q)
    BY SMT, <1>2, <1>4
  <2>2. CASE j = Len(q) + 1
    <3>1. t[i] = q[i] /\ q[i].wr_id \in 1..n /\ t[j] = r
      BY <1>2, <1>a, <2>1, <2>2
    <3> QED
      BY SMT, <3>1
  <2>3. CASE j \in 1..Len(q)
    BY <1>2, <1>4, <1>b, <2>1, <2>3
  <2> QED
    BY SMT, <1>2, <2>2, <2>3
<1>c. held.in_progress =>
        /\ held.wr_id \in 1..n /\ \A i \in 1..Len(q) : held.wr_id < q[i].wr_id
        /\ \A k \in DOMAIN d : d[k].recv < held.wr_id
  BY <1>2 DEF RecvOrder
<1>d. \A k \in DOMAIN d :
        d[k].recv \in 0..n /\ \A i \in 1..Len(q) : d[k].recv < q[i].wr_id
  BY <1>2 DEF RecvOrder
<1>5. ASSUME held.in_progress
      PROVE  /\ held.wr_id \in 1..(n + 1)
             /\ \A i \in DOMAIN t : held.wr_id < t[i].wr_id
             /\ \A k \in DOMAIN d : d[k].recv < held.wr_id
  <2>1. ASSUME NEW i \in DOMAIN t PROVE held.wr_id < t[i].wr_id
    <3>1. CASE i = Len(q) + 1
      BY SMT, <1>2, <1>5, <1>c, <3>1
    <3>2. CASE i \in 1..Len(q)
      BY <1>2, <1>5, <1>c, <3>2
    <3> QED
      BY SMT, <1>2, <3>1, <3>2
  <2> QED
    BY SMT, <1>5, <1>c, <2>1
<1>6. ASSUME NEW k \in DOMAIN d
      PROVE  d[k].recv \in 0..(n + 1) /\ \A i \in DOMAIN t : d[k].recv < t[i].wr_id
  <2>1. ASSUME NEW i \in DOMAIN t PROVE d[k].recv < t[i].wr_id
    <3>1. CASE i = Len(q) + 1
      BY SMT, <1>2, <1>d, <3>1
    <3>2. CASE i \in 1..Len(q)
      BY <1>2, <1>d, <3>2
    <3> QED
      BY SMT, <1>2, <3>1, <3>2
  <2> QED
    BY SMT, <1>d, <2>1
<1>7. \A i, j \in DOMAIN d : i < j /\ d[i].recv # 0 /\ d[j].recv # 0 => d[i].recv < d[j].recv
  BY DEF RecvOrder
<1>8. RecvOrder(t, held, d, n + 1)
  BY <1>3, <1>4, <1>5, <1>6, <1>7 DEF RecvOrder
<1> QED
  BY <1>1, <1>8

(* The oldest request is taken for a message. *)
LEMMA OrderTaken ==
  ASSUME NEW q \in Seq(Recvs), q # <<>>, NEW held, NEW d, NEW n \in Nat,
         RecvOrder(q, held, d, n), NEW st, st.wr_id = Head(q).wr_id
  PROVE  RecvOrder(Tail(q), st, d, n)
<1>1. PICK t : t = Tail(q)
  OBVIOUS
<1>2. /\ DOMAIN t = 1..(Len(q) - 1) /\ DOMAIN q = 1..Len(q) /\ Len(q) \in Nat \ {0}
      /\ \A i \in DOMAIN t : t[i] = q[i + 1]
      /\ Head(q) = q[1]
  BY SMT, <1>1
<1>3. \A i \in DOMAIN t : i + 1 \in DOMAIN q /\ 1 < i + 1 /\ 1 \in DOMAIN q
  BY SMT, <1>2
<1>4. \A i \in DOMAIN t : t[i].wr_id \in 1..n
  BY <1>2, <1>3 DEF RecvOrder
<1>5. ASSUME NEW i \in DOMAIN t, NEW j \in DOMAIN t, i < j PROVE t[i].wr_id < t[j].wr_id
  <2>1. i + 1 < j + 1
    BY SMT, <1>2, <1>5
  <2> QED
    BY <1>2, <1>3, <2>1 DEF RecvOrder
<1>6. /\ st.wr_id \in 1..n
      /\ \A i \in DOMAIN t : st.wr_id < t[i].wr_id
      /\ \A k \in DOMAIN d : d[k].recv < st.wr_id
  <2>1. 1 \in DOMAIN q
    BY SMT, <1>2
  <2> QED
    BY <1>2, <1>3, <2>1 DEF RecvOrder
<1>7. \A k \in DOMAIN d : d[k].recv \in 0..n /\ \A i \in DOMAIN t : d[k].recv < t[i].wr_id
  BY <1>2, <1>3 DEF RecvOrder
<1>8. \A i, j \in DOMAIN d : i < j /\ d[i].recv # 0 /\ d[j].recv # 0 => d[i].recv < d[j].recv
  BY DEF RecvOrder
<1>9. RecvOrder(t, st, d, n)
  BY <1>4, <1>5, <1>6, <1>7, <1>8 DEF RecvOrder
<1> QED
  BY <1>1, <1>9

(* The message in progress goes on, or is given up. *)
LEMMA OrderHeld ==
  ASSUME NEW q, NEW held, NEW d, NEW n, RecvOrder(q, held, d, n),
         NEW st, st.in_progress => held.in_progress /\ st.wr_id = held.wr_id
  PROVE  RecvOrder(q, st, d, n)
BY DEF RecvOrder

(* A message is delivered with the request held for it, or with none. *)
LEMMA OrderDelivered ==
  ASSUME NEW q, NEW held, NEW d \in Seq(Deliveries), NEW n \in Nat, RecvOrder(q, held, d, n),
         NEW m \in Deliveries, NEW st,
         \/ m.recv = held.wr_id /\ held.in_progress /\ ~st.in_progress
         \/ m.recv = 0 /\ st = held
  PROVE  RecvOrder(q, st, Append(d, m), n)
<1>1. PICK t : t = Append(d, m)
  OBVIOUS
<1>2. /\ DOMAIN t = 1..(Len(d) + 1) /\ DOMAIN d = 1..Len(d) /\ Len(d) \in Nat
      /\ \A i \in 1..Len(d) : t[i] = d[i]
      /\ t[Len(d) + 1] = m
  BY SMT, <1>1
<1>a. held.in_progress =>
        /\ held.wr_id \in 1..n /\ \A i \in DOMAIN q : held.wr_id < q[i].wr_id
        /\ \A k \in 1..Len(d) : d[k].recv < held.wr_id
  BY <1>2 DEF RecvOrder
<1>b. \A k \in 1..Len(d) :
        d[k].recv \in 0..n /\ \A i \in DOMAIN q : d[k].recv < q[i].wr_id
  BY <1>2 DEF RecvOrder
<1>c. \A i, j \in 1..Len(d) :
        i < j /\ d[i].recv # 0 /\ d[j].recv # 0 => d[i].recv < d[j].recv
  BY <1>2 DEF RecvOrder
<1>3. m.recv \in 0..n /\ (\A i \in DOMAIN q : m.recv < q[i].wr_id)
  <2>1. CASE m.recv = held.wr_id /\ held.in_progress
    BY SMT, <1>a, <2>1
  <2>2. CASE m.recv = 0
    <3>1. \A i \in DOMAIN q : q[i].wr_id \in 1..n
      BY DEF RecvOrder
    <3> QED
      BY SMT, <2>2, <3>1
  <2> QED
    BY <2>1, <2>2
<1>4. ASSUME NEW k \in DOMAIN t
      PROVE  t[k].recv \in 0..n /\ \A i \in DOMAIN q : t[k].recv < q[i].wr_id
  <2>1. CASE k = Len(d) + 1
    BY <1>2, <1>3, <2>1
  <2>2. CASE k \in 1..Len(d)
    BY <1>2, <1>b, <2>2
  <2> QED
    BY SMT, <1>2, <2>1, <2>2
<1>5. ASSUME NEW i \in DOMAIN t, NEW j \in DOMAIN t, i < j, t[i].recv # 0, t[j].recv # 0
      PROVE  t[i].recv < t[j].recv
  <2>1. i \in 1..Len(d)
    BY SMT, <1>2, <1>5
  <2>2. CASE j = Len(d) + 1
    <3>1. m.recv = held.wr_id /\ held.in_progress
      BY <1>2, <1>5, <2>2
    <3> QED
      BY <1>2, <1>a, <2>1, <2>2, <3>1
  <2>3. CASE j \in 1..Len(d)
    BY <1>2, <1>5, <1>c, <2>1, <2>3
  <2> QED
    BY SMT, <1>2, <2>2, <2>3
<1>6. ASSUME st.in_progress
      PROVE  /\ st.wr_id \in 1..n
             /\ \A i \in DOMAIN q : st.wr_id < q[i].wr_id
             /\ \A k \in DOMAIN t : t[k].recv < st.wr_id
  <2>1. m.recv = 0 /\ st = held /\ held.in_progress
    BY <1>6
  <2>2. ASSUME NEW k \in DOMAIN t PROVE t[k].recv < st.wr_id
    <3>1. CASE k = Len(d) + 1
      BY SMT, <1>2, <1>a, <2>1, <3>1
    <3>2. CASE k \in 1..Len(d)
      BY <1>2, <1>a, <2>1, <3>2
    <3> QED
      BY SMT, <1>2, <3>1, <3>2
  <2> QED
    BY <1>a, <2>1, <2>2
<1>7. /\ \A i \in DOMAIN q : q[i].wr_id \in 1..n
      /\ \A i, j \in DOMAIN q : i < j => q[i].wr_id < q[j].wr_id
  BY DEF RecvOrder
<1>8. RecvOrder(q, st, t, n)
  BY <1>4, <1>5, <1>6, <1>7 DEF RecvOrder
<1> QED
  BY <1>1, <1>8

RecvsOrdered ==
  \A e \in Endpoints : RecvOrder(recv_queue[e], recv_state[e], delivered[e], recvs[e])

(* The builders of packets that do not notify of a WRITE, and a wire that  *)
(* carries no others.                                                      *)
Plain == {b \in Builders : b.opcode \notin {"WriteLastImm", "WriteOnlyImm"}}

PlainWire == wire \in [Endpoints -> Wires(Built(Plain))]

(* A step that leaves the receives of the other side alone. *)
LEMMA OrderLocal ==
  ASSUME NEW e \in Endpoints, RecvsOrdered,
         RecvOrder(recv_queue'[e], recv_state'[e], delivered'[e], recvs'[e]),
         \A x \in Endpoints \ {e} : /\ recv_queue'[x] = recv_queue[x] /\ recvs'[x] = recvs[x]
                                   /\ recv_state'[x] = recv_state[x]
                                   /\ delivered'[x] = delivered[x]
  PROVE  RecvsOrdered'
<1>1. ASSUME NEW x \in Endpoints
      PROVE  RecvOrder(recv_queue'[x], recv_state'[x], delivered'[x], recvs'[x])
  BY DEF RecvsOrdered
<1> QED
  BY <1>1 DEF RecvsOrdered

(* A SEND packet keeps the receive requests in order. *)
LEMMA RecvOrdered ==
  ASSUME NEW e \in Endpoints, NEW p \in SeenSet, Typed, RecvsOrdered, process_recv_packet(e, p)
  PROVE  RecvsOrdered'
<1>0. /\ recv_queue \in [Endpoints -> Seq(Recvs)] /\ recv_state \in [Endpoints -> Receiving]
      /\ delivered \in [Endpoints -> Seq(Deliveries)] /\ recvs \in [Endpoints -> Nat]
      /\ recv_queue[e] \in Seq(Recvs) /\ delivered[e] \in Seq(Deliveries) /\ recvs[e] \in Nat
      /\ recv_state[e] \in Receiving
  BY DEF Typed, QpTyped, ResponderTyped
<1>1. ASSUME UNCHANGED <<recv_queue, recv_state, delivered, recvs>>
      PROVE  RecvsOrdered'
  BY <1>1 DEF RecvsOrdered
<1>2. CASE \/ Refused(e, p) \/ OutOfPlace(e, p, recv_state[e])
           \/ Nak(e, p.psn, "RnrNak")
  BY <1>1, <1>2 DEF Refused, OutOfPlace, Nak, qpVars, responder
<1>3. ASSUME NEW st, st = RecvState(e, p), InPlace(p, st),
             p.first => recv_queue[e] # <<>>,
             IF p.first THEN consume_recv(e) ELSE UNCHANGED recv_queue,
             \/ /\ recv_state' = [recv_state EXCEPT ![e] = Advanced(p, st)]
                /\ Accept(e, p, Message(p, st, st.wr_id))
             \/ /\ recv_state' = [recv_state EXCEPT ![e] = [st EXCEPT !.in_progress = FALSE]]
                /\ UNCHANGED <<recvs, delivered>>
      PROVE  RecvsOrdered'
  <2>1. PICK q \in Seq(Recvs) :
          /\ recv_queue' = [recv_queue EXCEPT ![e] = q]
          /\ RecvOrder(q, st, delivered[e], recvs[e])
          /\ st \in Receiving
    <3>1. RecvOrder(recv_queue[e], recv_state[e], delivered[e], recvs[e])
      BY DEF RecvsOrdered
    <3>2. CASE p.first
      <4>1. recv_queue' = [recv_queue EXCEPT ![e] = Tail(recv_queue[e])]
        BY <1>3, <3>2 DEF consume_recv
      <4>2. Head(recv_queue[e]) \in Recvs /\ Tail(recv_queue[e]) \in Seq(Recvs)
        BY SMT, <1>0, <1>3, <3>2
      <4>3. st \in Receiving
        BY <1>3, Held
      <4>5. st.wr_id = Head(recv_queue[e]).wr_id
        BY <1>3, <3>2 DEF RecvState
      <4>6. RecvOrder(Tail(recv_queue[e]), st, delivered[e], recvs[e])
        BY <1>0, <1>3, <3>1, <3>2, <4>5, OrderTaken
      <4> QED
        BY <4>1, <4>2, <4>3, <4>6
    <3>3. CASE ~p.first
      <4>1. recv_queue' = [recv_queue EXCEPT ![e] = recv_queue[e]] /\ st = recv_state[e]
        BY <1>0, <1>3, <3>3 DEF RecvState
      <4> QED
        BY <1>0, <3>1, <4>1
    <3> QED
      BY <3>2, <3>3
  <2>2. st.in_progress /\ st.wr_id \in Nat
    BY <1>3, <2>1 DEF InPlace, Receiving
  <2>3. CASE /\ recv_state' = [recv_state EXCEPT ![e] = Advanced(p, st)]
             /\ Accept(e, p, Message(p, st, st.wr_id))
    <3>1. PICK more \in Receiving : more = Advanced(p, st)
      BY <2>1, Advancing
    <3>2. more.wr_id = st.wr_id /\ (more.in_progress <=> ~p.last)
      <4>1. more = [in_progress |-> ~p.last, wr_id |-> st.wr_id, size |-> st.size,
                    expected_psn |-> advance_psn(p.psn), data |-> st.data \o p.payload]
        BY <2>1, <3>1, Advancing, Zenon
      <4>2. p.last \in BOOLEAN
        BY DEF SeenSet
      <4>3. more.in_progress = ~p.last
        BY <4>1, Zenon
      <4> QED
        BY <4>1, <4>2, <4>3
    <3>3. PICK m \in Deliveries : m = Message(p, st, st.wr_id)
      BY <2>1, <2>2, Advancing
    <3>4. m.recv = st.wr_id
      BY <3>3 DEF Message
    <3>5. CASE p.last
      <4>1. RecvOrder(q, more, Append(delivered[e], m), recvs[e])
        BY <1>0, <2>1, <2>2, <3>2, <3>4, <3>5, OrderDelivered
      <4>2. /\ recv_state' = [recv_state EXCEPT ![e] = more] /\ recvs' = recvs
            /\ delivered' = [delivered EXCEPT ![e] = Append(delivered[e], m)]
        BY <2>3, <3>1, <3>3, <3>5 DEF Accept
      <4> QED
        BY <1>0, <2>1, <4>1, <4>2, OrderLocal
    <3>6. CASE ~p.last
      <4>1. RecvOrder(q, more, delivered[e], recvs[e])
        BY <2>1, <2>2, <3>2, OrderHeld
      <4>2. /\ recv_state' = [recv_state EXCEPT ![e] = more] /\ recvs' = recvs
            /\ delivered' = delivered
        BY <2>3, <3>1, <3>6 DEF Accept
      <4> QED
        BY <1>0, <2>1, <4>1, <4>2, OrderLocal
    <3> QED
      BY <3>5, <3>6
  <2>4. CASE /\ recv_state' = [recv_state EXCEPT ![e] = [st EXCEPT !.in_progress = FALSE]]
             /\ UNCHANGED <<recvs, delivered>>
    <3>1. PICK gone : gone = [st EXCEPT !.in_progress = FALSE]
      OBVIOUS
    <3>2. ~gone.in_progress
      <4>1. gone = [in_progress |-> FALSE, wr_id |-> st.wr_id, size |-> st.size,
                    expected_psn |-> st.expected_psn, data |-> st.data]
        BY <2>1, <3>1, Advancing
      <4> QED
        BY <4>1
    <3>3. RecvOrder(q, gone, delivered[e], recvs[e])
      BY <2>1, <3>2, OrderHeld
    <3> QED
      BY <1>0, <2>1, <2>4, <3>1, <3>3, OrderLocal
  <2> QED
    BY <1>3, <2>3, <2>4
<1> QED
  BY <1>2, <1>3 DEF process_recv_packet

(* A WRITE without immediate uses no receive request. *)
LEMMA WriteOrdered ==
  ASSUME NEW e \in Endpoints, NEW p \in SeenSet, Typed, RecvsOrdered, p.immediate = <<>>,
         process_write_packet(e, p)
  PROVE  RecvsOrdered'
<1>0. /\ recv_queue \in [Endpoints -> Seq(Recvs)] /\ recv_state \in [Endpoints -> Receiving]
      /\ delivered \in [Endpoints -> Seq(Deliveries)] /\ recvs \in [Endpoints -> Nat]
      /\ delivered[e] \in Seq(Deliveries) /\ recvs[e] \in Nat
  BY DEF Typed, QpTyped, ResponderTyped
<1>1. ASSUME UNCHANGED <<recv_queue, recv_state, delivered, recvs>>
      PROVE  RecvsOrdered'
  BY <1>1 DEF RecvsOrdered
<1>2. CASE \/ Refused(e, p) \/ OutOfPlace(e, p, write_state[e])
           \/ Nak(e, p.psn, "RemoteAccessError")
  BY <1>1, <1>2 DEF Refused, OutOfPlace, Nak, qpVars, responder
<1>3. ASSUME NEW st, st = WriteState(e, p), UNCHANGED recv_state, UNCHANGED recv_queue,
             \/ UNCHANGED <<recvs, delivered>>
             \/ Accept(e, p, Message(p, st, 0))
      PROVE  RecvsOrdered'
  <2>1. CASE Accept(e, p, Message(p, st, 0)) /\ p.last
    <3>1. st \in Receiving
      BY <1>3, Held
    <3>2. PICK m \in Deliveries : m = Message(p, st, 0)
      BY <3>1, Advancing
    <3>3. m.recv = 0
      BY <3>2 DEF Message
    <3>4. RecvOrder(recv_queue[e], recv_state[e], delivered[e], recvs[e])
      BY DEF RecvsOrdered
    <3>5. RecvOrder(recv_queue[e], recv_state[e], Append(delivered[e], m), recvs[e])
      BY <1>0, <3>3, <3>4, OrderDelivered
    <3>6. delivered' = [delivered EXCEPT ![e] = Append(delivered[e], m)] /\ recvs' = recvs
      BY <2>1, <3>2 DEF Accept
    <3> QED
      BY <1>0, <1>3, <3>5, <3>6, OrderLocal
  <2>2. CASE Accept(e, p, Message(p, st, 0)) /\ ~p.last
    BY <1>1, <1>3, <2>2 DEF Accept
  <2> QED
    BY <1>1, <1>3, <2>1, <2>2
<1> QED
  BY <1>2, <1>3 DEF process_write_packet, qpVars

(* A READ request uses no receive request. *)
LEMMA ReadOrdered ==
  ASSUME NEW e \in Endpoints, NEW p \in SeenSet, Typed, RecvsOrdered,
         Arriving(wire[e]) # {}, process_read_request(e, p)
  PROVE  RecvsOrdered'
<1>0. /\ delivered \in [Endpoints -> Seq(Deliveries)] /\ recvs \in [Endpoints -> Nat]
      /\ delivered[e] \in Seq(Deliveries) /\ recvs[e] \in Nat
  BY DEF Typed, ResponderTyped
<1>1. ASSUME UNCHANGED <<recv_queue, recv_state, delivered, recvs>>
      PROVE  RecvsOrdered'
  BY <1>1 DEF RecvsOrdered
<1>2. CASE Refused(e, p)
  BY <1>1, <1>2 DEF Refused, Nak, qpVars, responder
<1>3. ASSUME NEW m, m = Message(p, [data |-> Fragments(p.wr_id, p.dma_length)], 0),
             delivered' = [delivered EXCEPT ![e] = Append(delivered[e], m)],
             UNCHANGED <<recv_queue, recv_state, recvs>>, Typed'
      PROVE  RecvsOrdered'
  <2>1. m.recv = 0
    BY <1>3 DEF Message
  <2>2. m \in Deliveries
    <3>1. delivered'[e] \in Seq(Deliveries) /\ delivered'[e] = Append(delivered[e], m)
      BY <1>0, <1>3 DEF Typed, ResponderTyped
    <3>2. Append(delivered[e], m)[Len(delivered[e]) + 1] = m
          /\ Len(delivered[e]) + 1 \in DOMAIN Append(delivered[e], m)
      BY SMT, <1>0
    <3> QED
      BY SMT, <3>1, <3>2
  <2>3. RecvOrder(recv_queue[e], recv_state[e], delivered[e], recvs[e])
    BY DEF RecvsOrdered
  <2>4. RecvOrder(recv_queue[e], recv_state[e], Append(delivered[e], m), recvs[e])
    BY <1>0, <2>1, <2>2, <2>3, OrderDelivered
  <2> QED
    BY <1>0, <1>3, <2>4, OrderLocal
<1>4. Typed'
  BY ReadTyped
<1> QED
  BY <1>1, <1>2, <1>3, <1>4 DEF process_read_request

(* Packets that are sent on either side of a wire that carries only some. *)
LEMMA Carries ==
  ASSUME NEW P, NEW e \in Endpoints, NEW packets \in Seq(P), wire \in [Endpoints -> Wires(P)],
         \/ Arriving(wire[e]) # {} /\ Answer(e, packets)
         \/ queue_outgoing(e, packets)
  PROVE  wire' \in [Endpoints -> Wires(P)]
<1>1. wire = [x \in Endpoints |-> wire[x]] /\ DOMAIN wire = Endpoints
  OBVIOUS
<1>2. Peer(e) \in Endpoints /\ \A x \in Endpoints : x = e \/ x = Peer(e)
  BY Peers
<1>3. wire[e] \in Wires(P) /\ wire[Peer(e)] \in Wires(P)
  BY <1>2
<1>4. /\ wire' = [x \in Endpoints |-> wire'[x]]
      /\ wire'[e] \in Wires(P) /\ wire'[Peer(e)] \in Wires(P)
  <2>1. CASE Arriving(wire[e]) # {} /\ Answer(e, packets)
    BY <1>1, <1>3, <2>1, Answering, Zenon
  <2>2. CASE queue_outgoing(e, packets)
    BY <1>1, <1>3, <2>2, Sending, Zenon
  <2> QED
    BY <2>1, <2>2
<1> QED
  BY <1>2, <1>4

(* What a NAK, a positive answer, a response or a request other than a     *)
(* WRITE with immediate is built from.                                     *)
LEMMA PlainPackets ==
  ASSUME NEW w \in Work, NEW psn \in Psns
  PROVE  /\ <<>> \in Seq(Built(Plain))
         /\ \A syndrome \in Syndromes : generate_ack(psn, syndrome) \in Seq(Built(Plain))
         /\ w.op # "RdmaWriteImm" => generate_packets(w, psn) \in Seq(Built(Plain))
         /\ [i \in 1..Count(w.len) |-> build(ResponseBuilder(w, psn, i))] \in Seq(Built(Plain))
<1>0. Count(w.len) \in Nat
  BY Counting DEF Work
<1>1. \A syndrome \in Syndromes : generate_ack(psn, syndrome) \in Seq(Built(Plain))
  <2>1. SUFFICES ASSUME NEW syndrome \in Syndromes
                 PROVE  generate_ack(psn, syndrome) \in Seq(Built(Plain))
    OBVIOUS
  <2>2. AckBuilder(psn, syndrome) \in Builders
    BY Building
  <2>3. AckBuilder(psn, syndrome).opcode = "Ack"
    BY DEF AckBuilder, RdmaPacketBuilder
  <2>4. build(AckBuilder(psn, syndrome)) \in Built(Plain)
    BY <2>2, <2>3 DEF Built, Plain
  <2>5. generate_ack(psn, syndrome) = <<build(AckBuilder(psn, syndrome))>>
    BY Generated
  <2> QED
    BY SMT, <2>4, <2>5
<1>2. build(ReadBuilder(w, psn)) \in Built(Plain)
  <2>1. ReadBuilder(w, psn) \in Builders
    BY Building
  <2>2. ReadBuilder(w, psn).opcode = "ReadRequest"
    BY DEF ReadBuilder, RdmaPacketBuilder
  <2> QED
    BY <2>1, <2>2 DEF Built, Plain
<1>3. ASSUME NEW i \in 1..Count(w.len)
      PROVE  /\ build(SendBuilder(w, psn, i)) \in Built(Plain)
             /\ build(ResponseBuilder(w, psn, i)) \in Built(Plain)
             /\ w.op = "RdmaWrite" => build(WriteBuilder(w, psn, i)) \in Built(Plain)
  <2>1. /\ SendBuilder(w, psn, i) \in Builders /\ WriteBuilder(w, psn, i) \in Builders
        /\ ResponseBuilder(w, psn, i) \in Builders
    BY Building
  <2>2. PICK first, last, imm \in BOOLEAN :
          first = (i = 1) /\ last = (i = Count(w.len)) /\ imm = (Immediate(w) # <<>>)
    BY Zenon
  <2>3. /\ SendBuilder(w, psn, i).opcode = get_send_opcode(first, last, imm)
        /\ WriteBuilder(w, psn, i).opcode = get_write_opcode(first, last, imm)
        /\ ResponseBuilder(w, psn, i).opcode = get_read_response_opcode(first, last)
    BY <2>2 DEF SendBuilder, WriteBuilder, ResponseBuilder, Segment, RdmaPacketBuilder
  <2>4. /\ SendBuilder(w, psn, i).opcode \in SendOpcodes
        /\ ~has_immediate_variant(ResponseBuilder(w, psn, i).opcode)
        /\ ~imm => ~has_immediate_variant(WriteBuilder(w, psn, i).opcode)
    BY SMT, <2>3, Choices
  <2>5. w.op = "RdmaWrite" => ~imm
    BY <2>2 DEF Immediate
  <2> QED
    BY <2>1, <2>4, <2>5 DEF Built, Plain, SendOpcodes, has_immediate_variant
<1>4. w.op # "RdmaWriteImm" => generate_packets(w, psn) \in Seq(Built(Plain))
  <2>1. CASE w.op \in {"Send", "SendImm"}
    <3>1. generate_packets(w, psn) = [i \in 1..Count(w.len) |-> build(SendBuilder(w, psn, i))]
      BY <2>1, Generated
    <3> QED
      BY SMT, <1>0, <1>3, <3>1
  <2>2. CASE w.op = "RdmaWrite"
    <3>1. generate_packets(w, psn) = [i \in 1..Count(w.len) |-> build(WriteBuilder(w, psn, i))]
      BY <2>2, Generated
    <3> QED
      BY SMT, <1>0, <1>3, <2>2, <3>1
  <2>3. CASE w.op = "RdmaRead"
    <3>1. generate_packets(w, psn) = <<build(ReadBuilder(w, psn))>>
      BY <2>3, Generated
    <3> QED
      BY SMT, <1>2, <3>1
  <2> QED
    BY <2>1, <2>2, <2>3 DEF Work
<1>5. [i \in 1..Count(w.len) |-> build(ResponseBuilder(w, psn, i))] \in Seq(Built(Plain))
  BY SMT, <1>0, <1>3
<1> QED
  BY SMT, <1>1, <1>4, <1>5

(* Whatever arrives is answered with packets that do not notify. *)
LEMMA PlainAnswers ==
  ASSUME NEW e \in Endpoints, NEW p \in SeenSet, Typed,
         \/ process_recv_packet(e, p) \/ process_write_packet(e, p)
         \/ process_read_request(e, p) \/ process_read_response_packet(e, p)
         \/ process_ack_packet(e, p)
  PROVE  \E packets \in Seq(Built(Plain)) : Answer(e, packets)
<1>1. PICK w \in Work : w = [wr_id |-> p.wr_id, op |-> "RdmaRead", len |-> p.dma_length]
  BY DEF Work, SeenSet
<1>2. p.psn \in Psns /\ sq_psn[e] \in Psns
  BY DEF SeenSet, Typed, QpTyped
<1>3. {"Ack", "RnrNak", "RemoteAccessError"} \subseteq Syndromes
  BY DEF Syndromes
<1>4. <<>> \in Seq(Built(Plain))
  BY SMT
<1>5. \A psn \in Psns, syndrome \in Syndromes : generate_ack(psn, syndrome) \in Seq(Built(Plain))
  BY <1>1, PlainPackets
<1>6. ASSUME \E psn \in Psns, syndrome \in Syndromes : Nak(e, psn, syndrome)
      PROVE  \E packets \in Seq(Built(Plain)) : Answer(e, packets)
  BY <1>5, <1>6 DEF Nak
<1>7. ASSUME NEW message, Accept(e, p, message)
      PROVE  \E packets \in Seq(Built(Plain)) : Answer(e, packets)
  BY <1>2, <1>3, <1>4, <1>5, <1>7 DEF Accept
<1>8. recv_state[e] \in Receiving /\ write_state[e] \in Receiving
  BY DEF Typed, ResponderTyped
<1>9. ASSUME \/ Refused(e, p) \/ OutOfPlace(e, p, recv_state[e])
             \/ OutOfPlace(e, p, write_state[e])
      PROVE  \E packets \in Seq(Built(Plain)) : Answer(e, packets)
  BY <1>6, <1>8, <1>9, Refusing
<1>10. CASE process_recv_packet(e, p)
  BY <1>2, <1>3, <1>5, <1>6, <1>7, <1>9, <1>10 DEF process_recv_packet
<1>11. CASE process_write_packet(e, p)
  BY <1>2, <1>3, <1>5, <1>6, <1>7, <1>9, <1>11 DEF process_write_packet
<1>12. CASE process_read_request(e, p)
  <2>1. generate_read_responses(e, p) =
          [i \in 1..Count(w.len) |-> build(ResponseBuilder(w, sq_psn[e], i))]
    BY <1>1, Zenon DEF generate_read_responses, ResponseBuilder
  <2>2. generate_read_responses(e, p) \in Seq(Built(Plain))
    BY <1>2, <2>1, PlainPackets
  <2> QED
    BY <1>2, <1>3, <1>5, <1>9, <1>12, <2>2 DEF process_read_request
<1>13. CASE process_read_response_packet(e, p) \/ process_ack_packet(e, p)
  BY <1>4, <1>13 DEF process_read_response_packet, process_ack_packet
<1> QED
  BY <1>10, <1>11, <1>12, <1>13

(* The steps of a connection that has no WRITE with immediate. *)
LEMMA StepOrdered ==
  ASSUME "RdmaWriteImm" \notin Ops, Typed, RecvsOrdered, PlainWire, [Next]_vars
  PROVE  RecvsOrdered' /\ PlainWire'
<1>0. /\ recv_queue \in [Endpoints -> Seq(Recvs)] /\ recvs \in [Endpoints -> Nat]
  BY DEF Typed, QpTyped, ResponderTyped
<1>1. ASSUME UNCHANGED <<recv_queue, recv_state, delivered, recvs>>
      PROVE  RecvsOrdered'
  BY <1>1 DEF RecvsOrdered
<1>2. CASE UNCHANGED vars
  BY <1>1, <1>2 DEF PlainWire, vars, qpVars, responder
<1>3. ASSUME NEW e \in Endpoints, NEW target \in Targets, modify_qp(e, target)
      PROVE  RecvsOrdered' /\ PlainWire'
  BY <1>1, <1>3 DEF PlainWire, modify_qp, responder
<1>4. ASSUME NEW e \in Endpoints, NEW t \in Elapsed, advance_time(e, t)
      PROVE  RecvsOrdered' /\ PlainWire'
  BY <1>1, <1>4 DEF PlainWire, advance_time, qpVars, responder
<1>5. ASSUME NEW e \in Endpoints, NEW op \in Ops, NEW len \in Lengths, post_send(e, op, len)
      PROVE  RecvsOrdered' /\ PlainWire'
  <2>1. RecvsOrdered'
    BY <1>1, <1>5 DEF post_send, responder
  <2>2. posted[e] \in Seq(Requests) /\ sq_psn[e] \in Psns
    BY DEF Typed, RequesterTyped, QpTyped
  <2>3. PICK w : w = [wr_id |-> Len(posted[e]) + 1, op |-> op, len |-> len]
    OBVIOUS
  <2>4. w \in Work /\ w.op # "RdmaWriteImm"
    <3>1. Len(posted[e]) + 1 \in Nat /\ len \in Nat
      BY SMT, <2>2, WorkAssumption
    <3>2. op \in {"Send", "SendImm", "RdmaWrite", "RdmaWriteImm", "RdmaRead"}
      BY WorkAssumption
    <3> QED
      BY <2>3, <3>1, <3>2 DEF Work
  <2>5. generate_packets(w, sq_psn[e]) \in Seq(Built(Plain))
    BY <2>2, <2>4, PlainPackets
  <2>6. queue_outgoing(e, generate_packets(w, sq_psn[e]))
    BY <1>5, <2>3, Zenon DEF post_send
  <2>7. PlainWire'
    BY <2>5, <2>6, Carries DEF PlainWire
  <2> QED
    BY <2>1, <2>7
<1>6. ASSUME NEW e \in Endpoints, NEW size \in BufferSizes, post_recv(e, size)
      PROVE  RecvsOrdered' /\ PlainWire'
  <2>1. PICK r : r = [wr_id |-> recvs[e] + 1, size |-> size]
    OBVIOUS
  <2>2. r \in Recvs /\ r.wr_id = recvs[e] + 1
    BY SMT, <1>0, <2>1, WorkAssumption DEF Recvs
  <2>3. RecvOrder(recv_queue[e], recv_state[e], delivered[e], recvs[e])
    BY DEF RecvsOrdered
  <2>4. RecvOrder(Append(recv_queue[e], r), recv_state[e], delivered[e], recvs[e] + 1)
    BY <1>0, <2>2, <2>3, OrderPosted
  <2>5. /\ recvs' = [recvs EXCEPT ![e] = recvs[e] + 1]
        /\ recv_queue' = [recv_queue EXCEPT ![e] = Append(recv_queue[e], r)]
        /\ UNCHANGED <<recv_state, delivered, wire>>
    BY <1>6, <2>1 DEF post_recv
  <2>6. RecvsOrdered'
    BY <1>0, <2>4, <2>5, OrderLocal
  <2> QED
    BY <2>5, <2>6 DEF PlainWire
<1>7. ASSUME NEW e \in Endpoints, process_incoming_packet(e)
      PROVE  RecvsOrdered' /\ PlainWire'
  <2>1. PICK p \in {parse(packet) : packet \in {w \in Arriving(wire[e]) : parses(w)}} :
          \/ p.opcode \in SendOpcodes /\ process_recv_packet(e, p)
          \/ p.opcode \in WriteOpcodes /\ process_write_packet(e, p)
          \/ p.opcode = "ReadRequest" /\ process_read_request(e, p)
          \/ opcode_is_read_response(p.opcode) /\ process_read_response_packet(e, p)
          \/ p.opcode = "Ack" /\ process_ack_packet(e, p)
    BY <1>7 DEF process_incoming_packet
  <2>2. PICK packet \in Arriving(wire[e]) : p = parse(packet)
    BY <2>1
  <2>3. packet \in Built(Plain)
    <3>1. wire[e] \in Wires(Built(Plain)) /\ <<>> \in Seq(Built(Plain))
      BY SMT DEF PlainWire
    <3> QED
      BY <2>2, <3>1, Carrying
  <2>4. PICK b \in Plain : p = Seen(b) /\ p \in SeenSet
    BY <2>2, <2>3, Sight DEF Built, Plain
  <2>5. Arriving(wire[e]) # {}
    BY <2>2
  <2>6. p.opcode = b.opcode /\ (p.opcode \in WriteOpcodes => p.immediate = <<>>)
    BY <2>4 DEF Seen, Plain, WriteOpcodes, has_immediate_variant
  <2>7. PlainWire'
    <3>1. PICK packets \in Seq(Built(Plain)) : Answer(e, packets)
      BY <2>1, <2>4, PlainAnswers
    <3> QED
      BY <2>5, <3>1, Carries DEF PlainWire
  <2>8. CASE p.opcode \in SendOpcodes /\ process_recv_packet(e, p)
    BY <2>4, <2>7, <2>8, RecvOrdered
  <2>9. CASE p.opcode \in WriteOpcodes /\ process_write_packet(e, p)
    BY <2>4, <2>6, <2>7, <2>9, WriteOrdered
  <2>10. CASE process_read_request(e, p)
    BY <2>4, <2>5, <2>7, <2>10, ReadOrdered
  <2>11. CASE process_read_response_packet(e, p) \/ process_ack_packet(e, p)
    BY <1>1, <2>7, <2>11 DEF process_read_response_packet, process_ack_packet, qpVars, responder
  <2> QED
    BY <2>1, <2>8, <2>9, <2>10, <2>11
<1> QED
  BY <1>2, <1>3, <1>4, <1>5, <1>6, <1>7 DEF Next

(* Whatever the network does, and across PSN wrap-around, failed transfers *)
(* and resets of the pair, no receive request completes two messages and   *)
(* none overtakes another, as long as no WRITE with immediate is in use:   *)
(* such a WRITE takes a request while the message that holds an older one  *)
(* may still be incomplete.                                                *)
THEOREM RecvsTheorem ==
  ASSUME "RdmaWriteImm" \notin Ops
  PROVE  Spec => []RecvsUsedOnceInOrder
<1>1. Init => Typed /\ RecvsOrdered /\ PlainWire
  <2>1. SUFFICES ASSUME Init PROVE RecvsOrdered /\ PlainWire
    BY InitTyped
  <2>2. ASSUME NEW e \in Endpoints
        PROVE  RecvOrder(recv_queue[e], recv_state[e], delivered[e], recvs[e])
    <3>1. /\ recv_queue[e] = <<>> /\ recv_state[e] = Idle /\ delivered[e] = <<>>
          /\ recvs[e] = 0
      <4>1. /\ recv_queue = [x \in Endpoints |-> <<>>] /\ recv_state = [x \in Endpoints |-> Idle]
            /\ delivered = [x \in Endpoints |-> <<>>] /\ recvs = [x \in Endpoints |-> 0]
        BY <2>1, Zenon DEF Init
      <4> QED
        BY <4>1
    <3>2. DOMAIN recv_queue[e] = {} /\ DOMAIN delivered[e] = {}
      BY SMT, <3>1
    <3>3. ~recv_state[e].in_progress
      BY SMT, <3>1 DEF Idle
    <3> QED
      BY <3>2, <3>3 DEF RecvOrder
  <2>3. (IF Lossy THEN {} ELSE <<>>) \in Wires(Built(Plain))
    <3>1. <<>> \in Seq(Built(Plain)) /\ {} \in SUBSET Built(Plain)
      BY SMT
    <3> QED
      BY <3>1, Zenon DEF Wires
  <2>4. PlainWire
    BY <2>1, <2>3 DEF Init, PlainWire
  <2> QED
    BY <2>2, <2>4 DEF RecvsOrdered
<1>2. Typed /\ RecvsOrdered /\ PlainWire /\ [Next]_vars => (Typed /\ RecvsOrdered /\ PlainWire)'
  BY StepTyped, StepOrdered
<1>3. RecvsOrdered => RecvsUsedOnceInOrder
  BY DEF RecvsOrdered, RecvOrder, RecvsUsedOnceInOrder
<1> QED
  BY <1>1, <1>2, <1>3, PTL DEF Spec
=============================================================================
