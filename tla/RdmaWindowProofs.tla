-------------------------- MODULE RdmaWindowProofs --------------------------
(***************************************************************************)
(* The packets of a reliable connection, from the state of its two ends:   *)
(* how posted messages number them, which of them the requester has        *)
(* outstanding, how far the responder is, and what of it is under way.     *)
(***************************************************************************)
EXTENDS RcTransportProofs

(* Leaves are for Zenon; the ones with arithmetic, sequences or records in   *)
(* them name SMT.                                                           *)
USE Zenon

-----------------------------------------------------------------------------
(* The numbering of packets. *)

(* The PSN of the packet x packets behind the first one of e. *)
At(e, x) == (StartPsn[e] + x) % PsnModulus

(* Half of the PSN space, the most that complete_up_to can tell apart. *)
Half == PsnModulus \div 2

(* A number at most one turn off wraps at most once. *)
LEMMA Wrap ==
  ASSUME NEW N \in Nat, N > 0, NEW k \in Int, -N <= k, k < 2 * N
  PROVE  k % N = IF k < 0 THEN k + N ELSE IF k < N THEN k ELSE k - N
<1>1. CASE k < 0
  BY SMT, <1>1
<1>2. CASE 0 <= k /\ k < N
  BY SMT, <1>2
<1>3. CASE k >= N
  BY SMT, <1>3
<1> QED
  BY SMT, <1>1, <1>2, <1>3

(* The two halves of the space. *)
LEMMA Halves ==
  /\ PsnModulus \in Nat /\ PsnModulus > 0 /\ Half \in Nat /\ PsnModulus = 2 * Half
  /\ \A e \in Endpoints : StartPsn[e] \in Nat /\ StartPsn[e] < PsnModulus
<1>1. PsnModulus \in Nat /\ PsnModulus > 0 /\ PsnModulus % 2 = 0
  BY SMT, PsnAssumption
<1>2. PsnModulus = 2 * (PsnModulus \div 2) /\ PsnModulus \div 2 \in Nat
  BY SMT, <1>1
<1>3. \A e \in Endpoints : StartPsn[e] \in 0..(PsnModulus - 1)
  BY PsnAssumption
<1> QED
  BY SMT, <1>1, <1>2, <1>3 DEF Half

(* The PSN of a packet in the first half of the space, without the modulus. *)
LEMMA AtIs ==
  ASSUME NEW e \in Endpoints, NEW x \in Nat, x <= Half
  PROVE  /\ At(e, x) = IF StartPsn[e] + x < PsnModulus THEN StartPsn[e] + x
                       ELSE StartPsn[e] + x - PsnModulus
         /\ At(e, x) \in Psns /\ At(e, x) \in Nat
<1>1. PICK s \in Nat : s = StartPsn[e] /\ s < PsnModulus
  BY Halves
<1>2. s + x \in Int /\ 0 <= s + x /\ s + x < 2 * PsnModulus
  BY SMT, <1>1, Halves
<1>3. (s + x) % PsnModulus = IF s + x < PsnModulus THEN s + x ELSE s + x - PsnModulus
  BY SMT, <1>2, Halves, Wrap
<1>4. (s + x) % PsnModulus \in Psns
  BY <1>2, PsnWraps
<1> QED
  BY <1>1, <1>3, <1>4, PsnInt DEF At

(* Numbers tell the packets of the first half of the space apart. *)
LEMMA AtTells ==
  ASSUME NEW e \in Endpoints, NEW x \in Nat, x <= Half, NEW y \in Nat, y <= Half,
         At(e, x) = At(e, y)
  PROVE  x = y
<1>1. PICK s \in Nat : s = StartPsn[e] /\ s < PsnModulus
  BY Halves
<1>2. PICK M \in Nat, h \in Nat : M = PsnModulus /\ h = Half /\ M = 2 * h /\ M > 0
  BY Halves
<1>3. PICK a \in Nat : a = At(e, x) /\ a = IF s + x < M THEN s + x ELSE s + x - M
  BY <1>1, <1>2, AtIs
<1>4. PICK b \in Nat : b = At(e, y) /\ b = IF s + y < M THEN s + y ELSE s + y - M
  BY <1>1, <1>2, AtIs
<1>5. a = b /\ x <= h /\ y <= h
  BY <1>2, <1>3, <1>4
<1> QED
  BY SMT, <1>1, <1>2, <1>3, <1>4, <1>5

(* The i-th packet from one on is numbered as the generators do. *)
LEMMA AtCounts ==
  ASSUME NEW e \in Endpoints, NEW x \in Nat, NEW i \in Nat, i > 0, x + i - 1 <= Half
  PROVE  (At(e, x) + i - 1) % PsnModulus = At(e, x + i - 1)
<1>0. Half \in Nat /\ x <= Half
  BY SMT, Halves
<1>1. PICK s \in Nat : s = StartPsn[e] /\ s < PsnModulus
  BY Halves
<1>2. PICK a \in Nat : a = At(e, x) /\ a = IF s + x < PsnModulus THEN s + x ELSE s + x - PsnModulus
  BY <1>0, <1>1, AtIs
<1>3. PICK y \in Nat : y = x + i - 1
  BY SMT
<1>4. At(e, y) = IF s + y < PsnModulus THEN s + y ELSE s + y - PsnModulus
  BY <1>1, <1>3, AtIs
<1>5. PICK k \in Int : k = a + i - 1 /\ 0 <= k /\ k < 2 * PsnModulus
  BY SMT, <1>1, <1>2, Halves
<1>6. k % PsnModulus = IF k < PsnModulus THEN k ELSE k - PsnModulus
  BY SMT, <1>5, Halves, Wrap
<1>7. k % PsnModulus = At(e, y)
  BY SMT, <1>1, <1>2, <1>3, <1>4, <1>5, <1>6, Halves
<1> QED
  BY <1>2, <1>3, <1>5, <1>7

(* The next packet has the next number (advance_psn). *)
LEMMA AtNext ==
  ASSUME NEW e \in Endpoints, NEW x \in Nat, x < Half
  PROVE  advance_psn(At(e, x)) = At(e, x + 1)
<1>0. Half \in Nat /\ x <= Half /\ x + 2 - 1 <= Half
  BY SMT, Halves
<1>1. (At(e, x) + 2 - 1) % PsnModulus = At(e, x + 2 - 1)
  BY SMT, <1>0, AtCounts
<1>2. At(e, x) \in Nat
  BY <1>0, AtIs
<1>3. At(e, x) + 2 - 1 = At(e, x) + 1 /\ x + 2 - 1 = x + 1
  BY SMT, <1>2
<1> QED
  BY <1>1, <1>3 DEF advance_psn

(* complete_up_to takes a request for acknowledged exactly when it ends    *)
(* with the acknowledged packet or before it.                              *)
LEMMA AtAcknowledges ==
  ASSUME NEW e \in Endpoints, NEW x \in Nat, x < Half, NEW y \in Nat, y < Half,
         NEW op, op.end_psn = At(e, y)
  PROVE  Acknowledged(op, At(e, x)) <=> y <= x
<1>0. Half \in Nat /\ x <= Half /\ y <= Half
  BY SMT, Halves
<1>1. PICK s \in Nat : s = StartPsn[e] /\ s < PsnModulus
  BY Halves
<1>2. PICK a \in Nat : a = At(e, x) /\ a = IF s + x < PsnModulus THEN s + x ELSE s + x - PsnModulus
  BY <1>0, <1>1, AtIs
<1>3. PICK b \in Nat : b = At(e, y) /\ b = IF s + y < PsnModulus THEN s + y ELSE s + y - PsnModulus
  BY <1>0, <1>1, AtIs
<1>4. PICK k \in Int : k = a - b /\ -PsnModulus <= k /\ k < 2 * PsnModulus
  BY SMT, <1>1, <1>2, <1>3, Halves
<1>5. k % PsnModulus = IF k < 0 THEN k + PsnModulus ELSE IF k < PsnModulus THEN k ELSE k - PsnModulus
  BY <1>4, Halves, Wrap
<1>6. k % PsnModulus < Half <=> y <= x
  BY SMT, <1>1, <1>2, <1>3, <1>4, <1>5, Halves
<1> QED
  BY <1>2, <1>3, <1>4, <1>6 DEF Acknowledged, Half

-----------------------------------------------------------------------------
(* The packets of a message. *)

Simple == {"Send", "SendImm", "RdmaWrite"}

PacketOf(w, psn, i) == IF w.op = "RdmaWrite" THEN WriteBuilder(w, psn, i) ELSE SendBuilder(w, psn, i)

(* The opcode tells the place of a packet in its message. *)
LEMMA Places ==
  ASSUME NEW first \in BOOLEAN, NEW last \in BOOLEAN, NEW imm \in BOOLEAN, NEW op,
         op = get_send_opcode(first, last, imm) \/ op = get_write_opcode(first, last, imm)
  PROVE  /\ (opcode_is_first(op) \/ opcode_is_only(op)) <=> first
         /\ (opcode_is_last(op) \/ opcode_is_only(op)) <=> last
<1>1. CASE first /\ last /\ imm
  BY <1>1 DEF get_send_opcode, get_write_opcode, opcode_is_first, opcode_is_last, opcode_is_only
<1>2. CASE first /\ last /\ ~imm
  BY <1>2 DEF get_send_opcode, get_write_opcode, opcode_is_first, opcode_is_last, opcode_is_only
<1>3. CASE first /\ ~last
  BY <1>3 DEF get_send_opcode, get_write_opcode, opcode_is_first, opcode_is_last, opcode_is_only
<1>4. CASE ~first /\ last /\ imm
  BY <1>4 DEF get_send_opcode, get_write_opcode, opcode_is_first, opcode_is_last, opcode_is_only
<1>5. CASE ~first /\ last /\ ~imm
  BY <1>5 DEF get_send_opcode, get_write_opcode, opcode_is_first, opcode_is_last, opcode_is_only
<1>6. CASE ~first /\ ~last
  BY <1>6 DEF get_send_opcode, get_write_opcode, opcode_is_first, opcode_is_last, opcode_is_only
<1> QED
  BY <1>1, <1>2, <1>3, <1>4, <1>5, <1>6

(* What the receiver sees of the i-th packet of a message. *)
SeenPacket(p, w, psn, i) ==
  /\ p \in SeenSet
  /\ p.opcode \in (IF w.op = "RdmaWrite" THEN WriteOpcodes ELSE SendOpcodes)
  /\ p.psn = (psn + i - 1) % PsnModulus
  /\ p.wr_id = w.wr_id
  /\ p.first <=> i = 1
  /\ p.last <=> i = Count(w.len)
  /\ p.ack_request <=> i = Count(w.len)
  /\ p.payload = Fragment(w, i)
  /\ p.last => p.immediate = Immediate(w)
  /\ w.op = "RdmaWrite" => p.immediate = <<>>

(* The builder of the i-th packet of a message and what is seen of it. *)
LEMMA Sighting ==
  ASSUME NEW w \in Work, w.op \in Simple, NEW psn \in Psns, NEW i \in 1..Count(w.len)
  PROVE  /\ PacketOf(w, psn, i) \in Builders
         /\ SeenPacket(Seen(PacketOf(w, psn, i)), w, psn, i)
<1>1. PICK b \in Builders : b = PacketOf(w, psn, i)
  BY Building DEF PacketOf
<1>2. PICK first, last, imm \in BOOLEAN :
        first = (i = 1) /\ last = (i = Count(w.len)) /\ imm = (Immediate(w) # <<>>)
  BY Zenon
<1>3. PICK op : op = IF w.op = "RdmaWrite" THEN get_write_opcode(first, last, imm)
                     ELSE get_send_opcode(first, last, imm)
  OBVIOUS
<1>4. PICK length : b = Segment(w, psn, i, op, last, length)
  BY <1>1, <1>2, <1>3, Zenon DEF PacketOf, SendBuilder, WriteBuilder
<1>5. /\ b.opcode = op /\ b.psn = (psn + i - 1) % PsnModulus /\ b.wr_id = w.wr_id
      /\ b.payload = Fragment(w, i) /\ b.ack_request = last
      /\ b.immediate = IF i = Count(w.len) THEN Immediate(w) ELSE <<>>
  BY <1>4 DEF Segment, RdmaPacketBuilder
<1>6. /\ op \in (IF w.op = "RdmaWrite" THEN WriteOpcodes ELSE SendOpcodes)
      /\ has_immediate_variant(op) <=> last /\ imm
  BY <1>3, Choices
<1>7. /\ (opcode_is_first(op) \/ opcode_is_only(op)) <=> first
      /\ (opcode_is_last(op) \/ opcode_is_only(op)) <=> last
  BY <1>3, Places
<1>8. PICK p \in SeenSet : p = Seen(b)
  BY Sight
<1>9. /\ p.opcode = op /\ p.psn = (psn + i - 1) % PsnModulus /\ p.wr_id = w.wr_id
      /\ p.payload = Fragment(w, i) /\ p.ack_request = last
  BY <1>5, <1>8 DEF Seen
<1>10. (p.first <=> i = 1) /\ (p.last <=> i = Count(w.len))
  BY <1>2, <1>5, <1>7, <1>8, Zenon DEF Seen
<1>11. p.immediate = IF has_immediate_variant(op) THEN <<b.immediate[1]>> ELSE <<>>
  BY <1>5, <1>8 DEF Seen
<1>12. ASSUME i = Count(w.len) PROVE p.immediate = Immediate(w)
  <2>1. b.immediate = Immediate(w) /\ (has_immediate_variant(op) <=> Immediate(w) # <<>>)
    BY <1>2, <1>5, <1>6, <1>12
  <2>2. Immediate(w) # <<>> => Immediate(w) = <<w.wr_id>>
    BY DEF Immediate
  <2> QED
    BY SMT, <1>11, <2>1, <2>2
<1>13. ASSUME w.op = "RdmaWrite" PROVE p.immediate = <<>>
  <2>1. Immediate(w) = <<>>
    BY <1>13 DEF Immediate
  <2>2. ~imm
    BY <1>2, <2>1
  <2> QED
    BY <1>6, <1>11, <2>2
<1>14. SeenPacket(p, w, psn, i)
  <2>1. p.ack_request <=> i = Count(w.len)
    BY <1>2, <1>9
  <2> QED
    BY <1>6, <1>9, <1>10, <1>12, <1>13, <2>1 DEF SeenPacket
<1> QED
  BY <1>1, <1>8, <1>14

(* Fragments that follow each other. *)
LEMMA Growing ==
  ASSUME NEW w \in Work, NEW j \in Nat
  PROVE  /\ Fragments(w.wr_id, 0) = <<>>
         /\ j + 1 <= w.len => Fragments(w.wr_id, j) \o Fragment(w, j + 1) = Fragments(w.wr_id, j + 1)
         /\ w.len = 0 => Fragment(w, 1) = <<>>
<1>1. w.wr_id \in Nat /\ w.len \in Nat
  BY DEF Work
<1>2. Fragments(w.wr_id, 0) = <<>>
  BY SMT DEF Fragments
<1>3. ASSUME j + 1 <= w.len
      PROVE  Fragments(w.wr_id, j) \o Fragment(w, j + 1) = Fragments(w.wr_id, j + 1)
  <2>1. PICK f : f = Fragments(w.wr_id, j)
    OBVIOUS
  <2>2. \A k \in 1..(j + 1) : [wr_id |-> w.wr_id, part |-> k] \in Frags
    BY SMT, <1>1 DEF Frags
  <2>3. f \in Seq(Frags) /\ Len(f) = j /\ \A k \in 1..j : f[k] = [wr_id |-> w.wr_id, part |-> k]
    BY SMT, <2>1, <2>2 DEF Fragments
  <2>4. PICK last \in Frags : last = [wr_id |-> w.wr_id, part |-> j + 1]
    <3>1. j + 1 \in 1..(j + 1)
      BY SMT
    <3>2. [wr_id |-> w.wr_id, part |-> j + 1] \in Frags
      BY <2>2, <3>1
    <3> QED
      BY <3>2, Zenon
  <2>5. Fragment(w, j + 1) = <<last>>
    BY <1>3, <2>4 DEF Fragment
  <2>6. PICK g : g = f \o <<last>>
    OBVIOUS
  <2>7. g \in Seq(Frags) /\ Len(g) = j + 1
    BY SMT, <2>3, <2>6
  <2>8. /\ \A k \in 1..j : g[k] = f[k]
        /\ g[j + 1] = last
    BY SMTT(20), <2>3, <2>6
  <2>9. PICK h : h = Fragments(w.wr_id, j + 1)
    OBVIOUS
  <2>10. h \in Seq(Frags) /\ Len(h) = j + 1 /\ \A k \in 1..(j + 1) : h[k] = [wr_id |-> w.wr_id, part |-> k]
    BY SMT, <2>2, <2>9 DEF Fragments
  <2>11. \A k \in 1..(j + 1) : g[k] = h[k]
    <3>1. SUFFICES ASSUME NEW k \in 1..(j + 1) PROVE g[k] = h[k]
      OBVIOUS
    <3>2. CASE k = j + 1
      BY <2>4, <2>8, <2>10, <3>2
    <3>3. CASE k \in 1..j
      BY <2>3, <2>8, <2>10, <3>3
    <3> QED
      BY SMT, <3>2, <3>3
  <2>12. g = h
    BY <2>7, <2>10, <2>11, SeqEqual
  <2> QED
    BY <2>1, <2>5, <2>6, <2>9, <2>12
<1>4. w.len = 0 => Fragment(w, 1) = <<>>
  BY SMT DEF Fragment
<1> QED
  BY <1>2, <1>3, <1>4

-----------------------------------------------------------------------------
(* How the two sides hang together. *)

(* Messages s are numbered by o: message k starts o[k] packets behind the  *)
(* first packet, the next one will start at o[Len(s) + 1].                 *)
Numbered(s, o, L) ==
  /\ o \in Seq(Nat) /\ Len(o) = Len(s) + 1 /\ o[1] = 0
  /\ \A k \in DOMAIN s : o[k + 1] = o[k] + Count(s[k].len)
  /\ \A i, j \in DOMAIN o : i < j => o[i] < o[j]
  /\ o[Len(o)] <= Len(s) * L

(* The sender e in state st is about to number its next message. *)
Sender(st, e, s, o, sq) ==
  /\ st \in {"Reset", "Init", "Rtr"} => s = <<>>
  /\ st \in {"Rts", "Sqd"} => sq = At(e, o[Len(o)])

(* With n messages of e behind it, the receiver has taken j packets of the *)
(* next one; what it holds is their data.                                  *)
Holds(st, s, n, j) == st.in_progress => j > 0 /\ st.data = Fragments(s[n + 1].wr_id, j)

Midway(e, s, o, n, j, rq, rs, ws) ==
  /\ rq = At(e, o[n + 1] + j)
  /\ j = 0 \/ (n < Len(s) /\ j < Count(s[n + 1].len))
  /\ Holds(rs, s, n, j) /\ (rs.in_progress => s[n + 1].op # "RdmaWrite")
  /\ Holds(ws, s, n, j) /\ (ws.in_progress => s[n + 1].op = "RdmaWrite")

Receiver(st, e, s, o, n, rq, rs, ws) ==
  /\ n <= Len(s)
  /\ st \in {"Reset", "Init"} => n = 0 /\ ~rs.in_progress /\ ~ws.in_progress
  /\ st \in {"Rtr", "Rts", "Sqd"} => \E j \in Nat : Midway(e, s, o, n, j, rq, rs, ws)

(* The requests of e that are pending, q, are younger than the completed   *)
(* ones, c, and end with the last packet of their message; of the          *)
(* completed ones all were delivered.                                      *)
Outstanding(e, o, q, c, n) ==
  /\ \A i \in DOMAIN q : q[i].wr_id \in 1..(Len(o) - 1) /\ q[i].end_psn = At(e, o[q[i].wr_id + 1] - 1)
  /\ \A i, j \in DOMAIN q : i < j => q[i].wr_id < q[j].wr_id
  /\ \A k \in DOMAIN c : c[k] \in 1..n /\ \A i \in DOMAIN q : c[k] < q[i].wr_id
  /\ \A i, j \in DOMAIN c : i < j => c[i] < c[j]

(* The packets on their way to e: those of its peer's messages s, refusals *)
(* and acknowledgements of the n messages of e, numbered by t, that were   *)
(* delivered.                                                              *)
RequestBuilders(e, s, o) ==
  {b \in Builders : \E k \in DOMAIN s : \E i \in 1..Count(s[k].len) :
                      b = PacketOf(s[k], At(e, o[k]), i)}

NakBuilders ==
  {b \in Builders : \E psn \in Psns, syndrome \in Syndromes \ {"Ack"} : b = AckBuilder(psn, syndrome)}

AckBuilders(e, t, n) ==
  {b \in Builders : \E k \in 1..n : b = AckBuilder(At(e, t[k + 1] - 1), "Ack")}

Traffic(e, s, o, t, n) == RequestBuilders(Peer(e), s, o) \cup NakBuilders \cup AckBuilders(e, t, n)

(* All of this for both sides, b numbering the messages of each. *)
Numbers(b, L) ==
  \A e \in Endpoints : Numbered(posted[e], b[e], L) /\ Len(posted[e]) <= MaxPosts[e]

Senders(b) == \A e \in Endpoints : Sender(state[e], e, posted[e], b[e], sq_psn[e])

Receivers(b) ==
  \A e \in Endpoints :
    Receiver(state[e], Peer(e), posted[Peer(e)], b[Peer(e)], Len(delivered[e]), rq_psn[e],
             recv_state[e], write_state[e])

Requesters(b) ==
  \A e \in Endpoints :
    Outstanding(e, b[e], pending[e], completed[e], Len(delivered[Peer(e)]))

Wiring(b) ==
  \A e \in Endpoints :
    wire[e] \in Wires(Built(Traffic(e, posted[Peer(e)], b[Peer(e)], b[e],
                                   Len(delivered[Peer(e)]))))

LinkedBy(b, L) == Numbers(b, L) /\ Senders(b) /\ Receivers(b) /\ Requesters(b) /\ Wiring(b)

(* No message of the allowed number and length L reaches beyond half of    *)
(* the PSN space, which is what complete_up_to can tell apart.             *)
Room(L) ==
  /\ L \in Nat /\ \A len \in Lengths : Count(len) <= L
  /\ \A e \in Endpoints : MaxPosts[e] \in Nat /\ MaxPosts[e] * L <= Half

(* Numbers up to the next message stay within half of the space. *)
LEMMA Within ==
  ASSUME NEW L, Room(L), NEW e \in Endpoints, NEW s \in Seq(Requests), Len(s) <= MaxPosts[e],
         NEW o, Numbered(s, o, L)
  PROVE  /\ \A k \in DOMAIN o : o[k] \in Nat /\ o[k] <= Half
         /\ DOMAIN o = 1..(Len(s) + 1) /\ Len(s) \in Nat
         /\ \A k \in DOMAIN s : o[k] < o[k + 1]
<1>1. /\ o \in Seq(Nat) /\ Len(o) = Len(s) + 1 /\ Len(s) \in Nat /\ DOMAIN o = 1..(Len(s) + 1)
      /\ DOMAIN s = 1..Len(s)
  BY SMT DEF Numbered
<1>2. PICK n \in Nat, m \in Nat, l \in Nat : n = Len(s) /\ m = MaxPosts[e] /\ l = L /\ n <= m
  BY <1>1 DEF Room
<1>3. n * l <= m * l
  <2>1. PICK d \in Nat : m = n + d
    BY SMT, <1>2
  <2>2. m * l = n * l + d * l /\ d * l >= 0 /\ n * l \in Nat
    BY SMT, <2>1
  <2> QED
    BY SMT, <2>2
<1>4. m * l <= Half /\ Half \in Nat /\ o[Len(s) + 1] <= n * l
  BY <1>1, <1>2, Halves DEF Room, Numbered
<1>5. ASSUME NEW k \in DOMAIN o PROVE o[k] \in Nat /\ o[k] <= o[Len(s) + 1] /\ o[Len(s) + 1] \in Nat
  <2>1. o[k] \in Nat /\ o[Len(s) + 1] \in Nat
    BY SMT, <1>1
  <2>2. CASE k < Len(s) + 1
    BY SMT, <1>1, <2>1, <2>2 DEF Numbered
  <2>3. CASE k = Len(s) + 1
    BY SMT, <2>1, <2>3
  <2> QED
    BY SMT, <1>1, <2>1, <2>2, <2>3
<1>6. ASSUME NEW k \in DOMAIN s PROVE o[k] < o[k + 1]
  BY SMT, <1>1 DEF Numbered
<1>7. ASSUME NEW k \in DOMAIN o PROVE o[k] \in Nat /\ o[k] <= Half
  <2>1. PICK x \in Nat, y \in Nat, h \in Nat, a \in Nat, c \in Nat :
          x = o[k] /\ y = o[Len(s) + 1] /\ h = Half /\ a = n * l /\ c = m * l
    BY SMT, <1>4, <1>5
  <2>2. x <= y /\ y <= a /\ a <= c /\ c <= h
    BY <1>3, <1>4, <1>5, <2>1
  <2> QED
    BY SMT, <2>1, <2>2
<1> QED
  BY <1>1, <1>6, <1>7

(* A posted request, seen as a work request. *)
LEMMA Requested ==
  ASSUME NEW s \in Seq(Requests), NEW k \in DOMAIN s
  PROVE  /\ s[k] \in Work /\ s[k].op \in Ops /\ s[k].len \in Nat /\ s[k].wr_id \in Nat
         /\ Count(s[k].len) \in Nat /\ Count(s[k].len) > 0
<1>1. PICK w \in Requests : w = s[k]
  BY SMT
<1>2. w.wr_id \in Nat /\ w.op \in Ops /\ w.len \in Lengths /\ w \in Work
  BY WorkAssumption DEF Requests, Work
<1>3. w.len \in Nat
  BY <1>2, WorkAssumption
<1>4. Count(w.len) \in Nat /\ Count(w.len) > 0
  BY SMT, <1>3, Counting
<1> QED
  BY <1>1, <1>2, <1>3, <1>4

(* The packet with the expected number is the next one of the next message. *)
LEMMA Locating ==
  ASSUME NEW L, Room(L), NEW e \in Endpoints, NEW s \in Seq(Requests), Len(s) <= MaxPosts[e],
         NEW o, Numbered(s, o, L), NEW n \in Nat, n <= Len(s), NEW j \in Nat,
         j = 0 \/ (n < Len(s) /\ j < Count(s[n + 1].len)),
         NEW k \in DOMAIN s, NEW i \in 1..Count(s[k].len)
  PROVE  /\ (At(e, o[k]) + i - 1) % PsnModulus = At(e, o[k] + i - 1)
         /\ At(e, o[k]) \in Psns
         /\ o[k] + i - 1 < Half
         /\ At(e, o[k] + i - 1) = At(e, o[n + 1] + j) => k = n + 1 /\ i = j + 1
<1>1. /\ DOMAIN o = 1..(Len(s) + 1) /\ Len(s) \in Nat /\ DOMAIN s = 1..Len(s)
      /\ \A m \in DOMAIN o : o[m] \in Nat /\ o[m] <= Half
      /\ \A m \in DOMAIN s : o[m] < o[m + 1]
      /\ Half \in Nat
  BY SMT, Within, Halves
<1>3. PICK c \in Nat : c = Count(s[k].len) /\ i \in Nat /\ 0 < i /\ i <= c
  BY SMT, Requested
<1>4. PICK x \in Nat : x = o[k] /\ x <= Half /\ x + c <= Half /\ o[k + 1] = x + c
  <2>1. k \in DOMAIN o /\ k + 1 \in DOMAIN o
    BY SMT, <1>1
  <2>2. o[k] \in Nat /\ o[k + 1] <= Half /\ o[k + 1] = o[k] + c
    BY <1>1, <1>3, <2>1 DEF Numbered
  <2> QED
    BY SMT, <1>1, <1>3, <2>2
<1>5. PICK y \in Nat : y = x + i - 1 /\ y <= Half /\ y < Half /\ y < x + c
  BY SMT, <1>1, <1>3, <1>4
<1>6. (At(e, o[k]) + i - 1) % PsnModulus = At(e, o[k] + i - 1) /\ At(e, o[k]) \in Psns
  BY SMT, <1>3, <1>4, <1>5, AtCounts, AtIs
<1>7. ASSUME At(e, o[k] + i - 1) = At(e, o[n + 1] + j)
      PROVE  k = n + 1 /\ i = j + 1
  <2>1. n + 1 \in DOMAIN o
    BY SMT, <1>1
  <2>2. PICK z \in Nat : z = o[n + 1]
    BY <1>1, <2>1
  <2>3. z + j <= Half /\ (n < Len(s) => o[n + 2] \in Nat /\ z + j < o[n + 2])
    <3>1. CASE n < Len(s)
      <4>1. n + 1 \in DOMAIN s /\ n + 2 \in DOMAIN o /\ n + 1 + 1 = n + 2
        BY SMT, <1>1, <3>1
      <4>2. o[n + 2] = z + Count(s[n + 1].len) /\ o[n + 2] \in Nat /\ o[n + 2] <= Half
        BY <1>1, <2>2, <4>1 DEF Numbered
      <4>4. Count(s[n + 1].len) \in Nat /\ j < Count(s[n + 1].len)
        BY <4>1, Requested
      <4> QED
        BY SMT, <1>1, <4>2, <4>4
    <3>2. CASE ~(n < Len(s))
      BY SMT, <1>1, <2>1, <2>2, <3>2
    <3> QED
      BY <3>1, <3>2
  <2>4. At(e, y) = At(e, z + j)
    BY <1>4, <1>5, <1>7, <2>2
  <2>5. y = z + j
    BY SMT, <1>5, <2>3, <2>4, AtTells
  <2>6. CASE k < n + 1
    <3>1. k + 1 \in DOMAIN o /\ (k + 1 < n + 1 \/ k + 1 = n + 1)
      BY SMT, <1>1, <2>6
    <3>2. o[k + 1] < o[n + 1] \/ o[k + 1] = o[n + 1]
      BY <2>1, <3>1 DEF Numbered
    <3>3. x + c < z \/ x + c = z
      BY <1>4, <2>2, <3>2
    <3> QED
      BY SMT, <1>5, <2>5, <3>3
  <2>7. CASE k > n + 1
    <3>1. n < Len(s) /\ n + 2 \in DOMAIN o /\ k \in DOMAIN o /\ (n + 2 < k \/ n + 2 = k)
      BY SMT, <1>1, <2>7
    <3>2. o[n + 2] < o[k] \/ o[n + 2] = o[k]
      BY <3>1 DEF Numbered
    <3>3. PICK m \in Nat : z + j < m /\ (m < x \/ m = x)
      BY <1>4, <2>3, <3>1, <3>2
    <3>4. x <= y
      BY SMT, <1>1, <1>5
    <3> QED
      BY SMT, <1>1, <2>5, <3>3, <3>4
  <2>8. k = n + 1
    BY SMT, <1>1, <2>6, <2>7
  <2> QED
    BY SMT, <1>3, <1>4, <1>5, <2>2, <2>5, <2>8
<1> QED
  BY <1>1, <1>3, <1>4, <1>5, <1>6, <1>7

-----------------------------------------------------------------------------
(* The responder takes a packet. *)

(* What a receive state holds once the next packet of the next message was *)
(* taken: the whole message behind the last one.                           *)
LEMMA Gathering ==
  ASSUME NEW w \in Work, NEW j \in Nat, j < Count(w.len),
         NEW data, j > 0 => data = Fragments(w.wr_id, j), j = 0 => data = <<>>
  PROVE  /\ j + 1 < Count(w.len) => data \o Fragment(w, j + 1) = Fragments(w.wr_id, j + 1)
         /\ j + 1 = Count(w.len) => data \o Fragment(w, j + 1) = Fragments(w.wr_id, w.len)
<1>1. w.len \in Nat /\ Count(w.len) \in Nat /\ (w.len = 0 => Count(w.len) = 1)
      /\ (w.len # 0 => Count(w.len) = w.len)
  BY DEF Work, Count
<1>2. data = Fragments(w.wr_id, j)
  BY SMT, Growing
<1>3. CASE w.len = 0
  <2>1. j = 0
    BY SMT, <1>1, <1>3
  <2>2. Fragment(w, 1) = <<>> /\ data = <<>> /\ Fragments(w.wr_id, 0) = <<>>
    BY <1>3, <2>1, Growing
  <2>3. <<>> \o <<>> = <<>>
    BY SMT
  <2> QED
    BY SMT, <1>1, <1>3, <2>1, <2>2, <2>3
<1>4. CASE w.len # 0
  <2>1. j + 1 <= w.len
    BY SMT, <1>1, <1>4
  <2>2. data \o Fragment(w, j + 1) = Fragments(w.wr_id, j + 1)
    BY <1>2, <2>1, Growing
  <2> QED
    BY <1>1, <1>4, <2>2
<1> QED
  BY <1>3, <1>4


(* The receive states after packet p of w was taken into st: a new state   *)
(* for a first packet, the one that is held for another.                   *)
Consumes(p, st, w, rs, ws, rs2, ws2) ==
  /\ st.in_progress /\ (p.first => st.data = <<>>)
  /\ ~p.first => st = IF w.op = "RdmaWrite" THEN ws ELSE rs
  /\ \E more :
       /\ more.in_progress <=> ~p.last
       /\ more.data = st.data \o p.payload
       /\ w.op = "RdmaWrite" => rs2 = rs /\ ws2 = more
       /\ w.op # "RdmaWrite" => rs2 = more /\ ws2 = ws

(* Where the responder is then. *)
Taken(e, s, o, n, j, rq, k, p, st, rs2, ws2) ==
  /\ k = n + 1
  /\ ~p.last => Midway(e, s, o, n, j + 1, advance_psn(rq), rs2, ws2)
  /\ p.last =>
       /\ Midway(e, s, o, n + 1, 0, advance_psn(rq), rs2, ws2)
       /\ p.psn = At(e, o[k + 1] - 1)
       /\ st.data \o p.payload = Fragments(s[k].wr_id, s[k].len)

(* The responder's place in the messages of e after the packet with the    *)
(* number it expects: within the same message, or behind it when that was  *)
(* its last packet, the message then being whole.                          *)
LEMMA Taking ==
  ASSUME NEW L, Room(L), Ops \subseteq Simple, NEW e \in Endpoints,
         NEW s \in Seq(Requests), Len(s) <= MaxPosts[e], NEW o, Numbered(s, o, L),
         NEW n \in Nat, n <= Len(s), NEW j \in Nat, NEW rq, NEW rs, NEW ws,
         Midway(e, s, o, n, j, rq, rs, ws),
         NEW k \in DOMAIN s, NEW i \in 1..Count(s[k].len),
         NEW p, SeenPacket(p, s[k], At(e, o[k]), i), p.psn = rq,
         NEW st, NEW rs2, NEW ws2, Consumes(p, st, s[k], rs, ws, rs2, ws2)
  PROVE  Taken(e, s, o, n, j, rq, k, p, st, rs2, ws2)
<1>0. PICK more : /\ more.in_progress <=> ~p.last
                  /\ more.data = st.data \o p.payload
                  /\ s[k].op = "RdmaWrite" => rs2 = rs /\ ws2 = more
                  /\ s[k].op # "RdmaWrite" => rs2 = more /\ ws2 = ws
  BY Zenon DEF Consumes
<1>a. /\ st.in_progress /\ (p.first => st.data = <<>>)
      /\ ~p.first => st = IF s[k].op = "RdmaWrite" THEN ws ELSE rs
  BY DEF Consumes
<1>1. /\ j = 0 \/ (n < Len(s) /\ j < Count(s[n + 1].len))
      /\ rq = At(e, o[n + 1] + j)
  BY DEF Midway
<1>2. /\ (At(e, o[k]) + i - 1) % PsnModulus = At(e, o[k] + i - 1)
      /\ o[k] + i - 1 < Half
      /\ At(e, o[k] + i - 1) = At(e, o[n + 1] + j) => k = n + 1 /\ i = j + 1
  BY SMT, <1>1, Locating
<1>3. p.psn = At(e, o[k] + i - 1)
  BY <1>2 DEF SeenPacket
<1>4. k = n + 1 /\ i = j + 1
  BY <1>1, <1>2, <1>3
<1>5. PICK w \in Work : w = s[k] /\ w.op \in Ops /\ Count(w.len) \in Nat /\ w.len \in Nat
  BY Requested
<1>6. /\ DOMAIN o = 1..(Len(s) + 1) /\ Len(s) \in Nat /\ DOMAIN s = 1..Len(s)
      /\ k \in DOMAIN o /\ k + 1 \in DOMAIN o /\ o[k] \in Nat /\ o[k + 1] \in Nat
      /\ o[k + 1] = o[k] + Count(w.len)
  <2>1. /\ DOMAIN o = 1..(Len(s) + 1) /\ Len(s) \in Nat /\ DOMAIN s = 1..Len(s)
        /\ \A m \in DOMAIN o : o[m] \in Nat
    BY SMT, Within
  <2>2. k \in DOMAIN o /\ k + 1 \in DOMAIN o
    BY SMT, <2>1
  <2>3. o[k + 1] = o[k] + Count(w.len)
    BY <1>5 DEF Numbered
  <2> QED
    BY <2>1, <2>2, <2>3
<1>7. /\ p.first <=> j = 0
      /\ p.last <=> j + 1 = Count(w.len)
      /\ p.payload = Fragment(w, j + 1) /\ j < Count(w.len)
  BY SMT, <1>4, <1>5 DEF SeenPacket
<1>8. (j > 0 => st.data = Fragments(w.wr_id, j)) /\ (j = 0 => st.data = <<>>)
  BY SMT, <1>a, <1>4, <1>5, <1>7 DEF Midway, Holds
<1>9. /\ j + 1 < Count(w.len) => st.data \o p.payload = Fragments(w.wr_id, j + 1)
      /\ j + 1 = Count(w.len) => st.data \o p.payload = Fragments(w.wr_id, w.len)
  <2>1. PICK data : data = st.data
    OBVIOUS
  <2>2. /\ j + 1 < Count(w.len) => data \o Fragment(w, j + 1) = Fragments(w.wr_id, j + 1)
        /\ j + 1 = Count(w.len) => data \o Fragment(w, j + 1) = Fragments(w.wr_id, w.len)
    BY <1>7, <1>8, <2>1, Gathering, Zenon
  <2> QED
    BY <1>7, <2>1, <2>2, Zenon
<1>10. advance_psn(rq) = At(e, o[k] + j + 1)
  <2>1. PICK x \in Nat : x = o[k] + j /\ x < Half
    BY SMT, <1>2, <1>4, <1>6
  <2>2. advance_psn(At(e, x)) = At(e, x + 1)
    BY <2>1, AtNext
  <2>3. rq = At(e, x) /\ x + 1 = o[k] + j + 1
    BY <1>1, <1>4, <1>6, <2>1
  <2> QED
    BY <2>2, <2>3
<1>11. /\ rs.in_progress => w.op # "RdmaWrite"
       /\ ws.in_progress => w.op = "RdmaWrite"
  BY <1>4, <1>5 DEF Midway
<1>12. ASSUME ~p.last
       PROVE  Midway(e, s, o, n, j + 1, advance_psn(rq), rs2, ws2)
  <2>1. j + 1 < Count(s[n + 1].len) /\ n < Len(s) /\ s[n + 1] = w
    BY SMT, <1>4, <1>5, <1>6, <1>7, <1>12
  <2>2. advance_psn(rq) = At(e, o[n + 1] + (j + 1))
    <3>1. o[k] + j + 1 = o[n + 1] + (j + 1)
      BY SMT, <1>4, <1>6
    <3> QED
      BY <1>10, <3>1
  <2>3. more.data = Fragments(w.wr_id, j + 1) /\ j + 1 > 0
    <3>1. more.data = Fragments(w.wr_id, j + 1)
      BY <1>0, <1>9, <2>1, Zenon
    <3> QED
      BY SMT, <3>1
  <2>4. CASE w.op = "RdmaWrite"
    <3>1. rs2 = rs /\ ws2 = more /\ ~rs.in_progress
      BY <1>0, <1>5, <1>11, <2>4
    <3> QED
      BY <2>1, <2>2, <2>3, <2>4, <3>1 DEF Midway, Holds
  <2>5. CASE w.op # "RdmaWrite"
    <3>1. rs2 = more /\ ws2 = ws /\ ~ws.in_progress
      BY <1>0, <1>5, <1>11, <2>5
    <3> QED
      BY <2>1, <2>2, <2>3, <2>5, <3>1 DEF Midway, Holds
  <2> QED
    BY <2>4, <2>5
<1>13. ASSUME p.last
       PROVE  /\ Midway(e, s, o, n + 1, 0, advance_psn(rq), rs2, ws2)
              /\ p.psn = At(e, o[k + 1] - 1)
              /\ st.data \o p.payload = Fragments(s[k].wr_id, s[k].len)
  <2>1. o[k] + j + 1 = o[n + 1 + 1] + 0 /\ o[k] + i - 1 = o[k + 1] - 1
    BY SMT, <1>4, <1>5, <1>6, <1>7, <1>13
  <2>2. advance_psn(rq) = At(e, o[n + 1 + 1] + 0) /\ p.psn = At(e, o[k + 1] - 1)
    BY <1>3, <1>10, <2>1
  <2>3. ~rs2.in_progress /\ ~ws2.in_progress
    BY <1>0, <1>5, <1>11, <1>13
  <2>4. st.data \o p.payload = Fragments(s[k].wr_id, s[k].len)
    BY <1>5, <1>7, <1>9, <1>13
  <2> QED
    BY <2>2, <2>3, <2>4 DEF Midway, Holds
<1> QED
  BY <1>4, <1>12, <1>13 DEF Taken

(* A message that is given up. *)
LEMMA Dropping ==
  ASSUME NEW e, NEW s, NEW o, NEW n, NEW j, NEW rq, NEW rs, NEW ws,
         Midway(e, s, o, n, j, rq, rs, ws), NEW gone, ~gone.in_progress
  PROVE  Midway(e, s, o, n, j, rq, gone, ws) /\ Midway(e, s, o, n, j, rq, rs, gone)
BY DEF Midway, Holds

-----------------------------------------------------------------------------
(* The traffic grows. *)

(* A wire may carry what it carried and more. *)
LEMMA WiresGrow ==
  ASSUME NEW V, NEW W, V \subseteq W, NEW w \in Wires(Built(V))
  PROVE  w \in Wires(Built(W))
<1>1. Built(V) \subseteq Built(W)
  BY DEF Built
<1>2. w \in Seq(Built(V)) => w \in Seq(Built(W))
  BY SMT, <1>1
<1> QED
  BY <1>1, <1>2 DEF Wires

(* Sequences of packets, likewise. *)
LEMMA PacketsGrow ==
  ASSUME NEW V, NEW W, V \subseteq W, NEW w \in Seq(Built(V))
  PROVE  w \in Seq(Built(W))
<1>1. Built(V) \subseteq Built(W)
  BY DEF Built
<1> QED
  BY SMT, <1>1

(* The packets of a message that is posted join those of the messages      *)
(* before it.                                                              *)
LEMMA RequestsGrow ==
  ASSUME NEW e \in Endpoints, NEW s \in Seq(Requests), NEW o \in Seq(Nat), Len(o) = Len(s) + 1,
         NEW w \in Requests, NEW x \in Nat, Ops \subseteq Simple, At(e, o[Len(o)]) \in Psns
  PROVE  /\ RequestBuilders(e, s, o) \subseteq RequestBuilders(e, Append(s, w), Append(o, x))
         /\ generate_packets(w, At(e, o[Len(o)])) \in
              Seq(Built(RequestBuilders(e, Append(s, w), Append(o, x))))
         /\ Len(generate_packets(w, At(e, o[Len(o)]))) = Count(w.len)
<1>1. PICK t : t = Append(s, w)
  OBVIOUS
<1>2. PICK u : u = Append(o, x)
  OBVIOUS
<1>3. /\ Len(s) \in Nat /\ DOMAIN s = 1..Len(s) /\ DOMAIN t = 1..(Len(s) + 1)
      /\ \A k \in DOMAIN s : t[k] = s[k]
      /\ t[Len(s) + 1] = w
  BY SMT, <1>1
<1>4. /\ \A k \in 1..Len(o) : u[k] = o[k]
      /\ Len(s) + 1 \in 1..Len(o) /\ \A k \in DOMAIN s : k \in 1..Len(o)
  BY SMT, <1>2, <1>3
<1>5. RequestBuilders(e, s, o) \subseteq RequestBuilders(e, t, u)
  <2>1. SUFFICES ASSUME NEW b \in RequestBuilders(e, s, o) PROVE b \in RequestBuilders(e, t, u)
    OBVIOUS
  <2>2. PICK k \in DOMAIN s : \E i \in 1..Count(s[k].len) : b = PacketOf(s[k], At(e, o[k]), i)
    BY DEF RequestBuilders
  <2>3. k \in DOMAIN t /\ t[k] = s[k] /\ u[k] = o[k] /\ b \in Builders
    BY <1>3, <1>4, <2>2 DEF RequestBuilders
  <2> QED
    BY <2>2, <2>3 DEF RequestBuilders
<1>6. PICK psn \in Psns : psn = At(e, o[Len(o)])
  OBVIOUS
<1>7. /\ w \in Work /\ w.op \in Simple /\ Count(w.len) \in Nat
  <2>1. <<w>> \in Seq(Requests) /\ 1 \in DOMAIN <<w>> /\ <<w>>[1] = w
    BY SMT
  <2> QED
    BY <2>1, Requested
<1>8. ASSUME NEW i \in 1..Count(w.len)
      PROVE  build(PacketOf(w, psn, i)) \in Built(RequestBuilders(e, t, u))
  <2>1. PacketOf(w, psn, i) \in Builders
    BY <1>7, Sighting
  <2>2. Len(s) + 1 \in DOMAIN t /\ t[Len(s) + 1] = w /\ psn = At(e, u[Len(s) + 1])
    BY <1>3, <1>4, <1>6
  <2>3. PacketOf(w, psn, i) \in RequestBuilders(e, t, u)
    BY <2>1, <2>2 DEF RequestBuilders
  <2> QED
    BY <2>3 DEF Built
<1>9. generate_packets(w, psn) = [i \in 1..Count(w.len) |-> build(PacketOf(w, psn, i))]
  <2>1. CASE w.op = "RdmaWrite"
    BY ZenonT(30), <1>7, <2>1, Generated DEF PacketOf
  <2>2. CASE w.op # "RdmaWrite"
    <3>1. w.op \in {"Send", "SendImm"}
      BY <1>7, <2>2 DEF Simple
    <3> QED
      BY <1>7, <2>2, <3>1, Generated, Zenon DEF PacketOf
  <2> QED
    BY <2>1, <2>2
<1>10. /\ generate_packets(w, psn) \in Seq(Built(RequestBuilders(e, t, u)))
       /\ Len(generate_packets(w, psn)) = Count(w.len)
  BY SMT, <1>7, <1>8, <1>9
<1> QED
  BY <1>1, <1>2, <1>5, <1>6, <1>10

(* Acknowledgements of messages remain so when another message is numbered *)
(* or delivered.                                                           *)
LEMMA AcksGrow ==
  ASSUME NEW e, NEW t \in Seq(Nat), NEW n \in Nat, n + 1 <= Len(t)
  PROVE  /\ \A x \in Nat : AckBuilders(e, t, n) \subseteq AckBuilders(e, Append(t, x), n)
         /\ AckBuilders(e, t, n) \subseteq AckBuilders(e, t, n + 1)
<1>1. ASSUME NEW x \in Nat PROVE AckBuilders(e, t, n) \subseteq AckBuilders(e, Append(t, x), n)
  <2>1. \A k \in 1..n : Append(t, x)[k + 1] = t[k + 1]
    BY SMT
  <2> QED
    BY <2>1 DEF AckBuilders
<1>2. AckBuilders(e, t, n) \subseteq AckBuilders(e, t, n + 1)
  <2>1. \A k \in 1..n : k \in 1..(n + 1)
    BY SMT
  <2> QED
    BY <2>1 DEF AckBuilders
<1> QED
  BY <1>1, <1>2

(* The answers of the responder: nothing, a refusal, an acknowledgement. *)
LEMMA Answers ==
  ASSUME NEW psn \in Psns
  PROVE  /\ \A syndrome \in Syndromes \ {"Ack"} : generate_ack(psn, syndrome) \in Seq(Built(NakBuilders))
         /\ \A e, t, n : \A k \in 1..n :
              psn = At(e, t[k + 1] - 1) =>
                generate_ack(psn, "Ack") \in Seq(Built(AckBuilders(e, t, n)))
<1>0. ASSUME NEW S, NEW x \in S PROVE <<x>> \in Seq(S)
  BY SMT
<1>1. PICK w \in Work : w = [wr_id |-> 0, op |-> "Send", len |-> 0]
  BY DEF Work
<1>2. \A syndrome \in Syndromes :
        /\ AckBuilder(psn, syndrome) \in Builders
        /\ generate_ack(psn, syndrome) = <<build(AckBuilder(psn, syndrome))>>
  BY <1>1, Building, Generated
<1>3. ASSUME NEW syndrome \in Syndromes \ {"Ack"}
      PROVE  generate_ack(psn, syndrome) \in Seq(Built(NakBuilders))
  <2>1. AckBuilder(psn, syndrome) \in NakBuilders
    BY <1>2 DEF NakBuilders
  <2>2. build(AckBuilder(psn, syndrome)) \in Built(NakBuilders)
    BY <2>1 DEF Built
  <2>3. generate_ack(psn, syndrome) = <<build(AckBuilder(psn, syndrome))>>
    BY <1>2, Zenon
  <2> QED
    BY <1>0, <2>2, <2>3, Zenon
<1>4. ASSUME NEW e, NEW t, NEW n, NEW k \in 1..n, psn = At(e, t[k + 1] - 1)
      PROVE  generate_ack(psn, "Ack") \in Seq(Built(AckBuilders(e, t, n)))
  <2>1. "Ack" \in Syndromes
    BY DEF Syndromes
  <2>2. AckBuilder(psn, "Ack") \in AckBuilders(e, t, n)
    BY <1>2, <1>4, <2>1 DEF AckBuilders
  <2>3. build(AckBuilder(psn, "Ack")) \in Built(AckBuilders(e, t, n))
    BY <2>2 DEF Built
  <2>4. generate_ack(psn, "Ack") = <<build(AckBuilder(psn, "Ack"))>>
    BY <1>2, <2>1, Zenon
  <2> QED
    BY <1>0, <2>3, <2>4, Zenon
<1> QED
  BY <1>3, <1>4

-----------------------------------------------------------------------------
(* The requests that are pending. *)

(* A message more was delivered. *)
LEMMA OutstandingDelivered ==
  ASSUME NEW e, NEW o, NEW q, NEW c, NEW n \in Nat, Outstanding(e, o, q, c, n)
  PROVE  Outstanding(e, o, q, c, n + 1)
<1>1. \A k \in 1..n : k \in 1..(n + 1)
  BY SMT
<1> QED
  BY <1>1 DEF Outstanding

(* A NAK or a timeout changes only the counts of a request. *)
LEMMA OutstandingKept ==
  ASSUME NEW e, NEW o, NEW q, NEW c, NEW n, Outstanding(e, o, q, c, n),
         NEW r, DOMAIN r = DOMAIN q,
         \A i \in DOMAIN q : r[i].wr_id = q[i].wr_id /\ r[i].end_psn = q[i].end_psn
  PROVE  Outstanding(e, o, r, c, n)
BY DEF Outstanding

(* A request is posted. *)
LEMMA OutstandingPosted ==
  ASSUME NEW e, NEW o \in Seq(Nat), Len(o) > 0, NEW q \in Seq(PendingAcks), NEW c,
         NEW n \in Nat, n < Len(o), Outstanding(e, o, q, c, n),
         NEW x \in Nat, NEW a \in PendingAcks, a.wr_id = Len(o), a.end_psn = At(e, x - 1)
  PROVE  Outstanding(e, Append(o, x), Append(q, a), c, n)
<1>1. PICK t : t = Append(q, a)
  OBVIOUS
<1>2. PICK u : u = Append(o, x)
  OBVIOUS
<1>3. /\ Len(q) \in Nat /\ DOMAIN q = 1..Len(q) /\ DOMAIN t = 1..(Len(q) + 1)
      /\ \A i \in 1..Len(q) : t[i] = q[i]
      /\ t[Len(q) + 1] = a
  BY SMT, <1>1
<1>4. /\ Len(o) \in Nat /\ Len(u) = Len(o) + 1
      /\ \A k \in 1..Len(o) : u[k] = o[k]
      /\ u[Len(o) + 1] = x
  BY SMT, <1>2
<1>5. /\ a.wr_id \in 1..(Len(u) - 1) /\ a.end_psn = At(e, u[a.wr_id + 1] - 1)
      /\ \A i \in DOMAIN q : q[i].wr_id < a.wr_id
      /\ \A k \in DOMAIN c : c[k] < a.wr_id
  <2>1. a.wr_id \in 1..(Len(u) - 1) /\ u[a.wr_id + 1] = x
    BY SMT, <1>4
  <2>2. ASSUME NEW i \in DOMAIN q PROVE q[i].wr_id < a.wr_id
    <3>1. q[i].wr_id \in 1..(Len(o) - 1)
      BY DEF Outstanding
    <3> QED
      BY SMT, <1>4, <3>1
  <2>3. ASSUME NEW k \in DOMAIN c PROVE c[k] < a.wr_id
    <3>1. c[k] \in 1..n
      BY DEF Outstanding
    <3> QED
      BY SMT, <1>4, <3>1
  <2> QED
    BY <2>1, <2>2, <2>3
<1>6. ASSUME NEW i \in DOMAIN q
      PROVE  /\ q[i].wr_id \in 1..(Len(u) - 1)
             /\ q[i].end_psn = At(e, u[q[i].wr_id + 1] - 1)
  <2>1. q[i].wr_id \in 1..(Len(o) - 1) /\ q[i].end_psn = At(e, o[q[i].wr_id + 1] - 1)
    BY DEF Outstanding
  <2>2. q[i].wr_id + 1 \in 1..Len(o) /\ q[i].wr_id \in 1..(Len(u) - 1)
    <3>1. PICK id \in 1..(Len(o) - 1) : id = q[i].wr_id
      BY <2>1
    <3>2. id + 1 \in 1..Len(o) /\ id \in 1..(Len(u) - 1)
      BY SMT, <1>4
    <3> QED
      BY <3>1, <3>2
  <2> QED
    BY <1>4, <2>1, <2>2
<1>7. ASSUME NEW i \in DOMAIN t
      PROVE  /\ t[i].wr_id \in 1..(Len(u) - 1)
             /\ t[i].end_psn = At(e, u[t[i].wr_id + 1] - 1)
  <2>1. CASE i = Len(q) + 1
    BY <1>3, <1>5, <2>1
  <2>2. CASE i \in DOMAIN q
    BY <1>3, <1>6, <2>2
  <2> QED
    BY SMT, <1>3, <2>1, <2>2
<1>8. ASSUME NEW i \in DOMAIN t, NEW j \in DOMAIN t, i < j
      PROVE  t[i].wr_id < t[j].wr_id
  <2>1. i \in DOMAIN q /\ t[i] = q[i]
    BY SMT, <1>3, <1>8
  <2>2. CASE j = Len(q) + 1
    BY <1>3, <1>5, <2>1, <2>2
  <2>3. CASE j \in DOMAIN q
    BY <1>3, <1>8, <2>1, <2>3 DEF Outstanding
  <2> QED
    BY SMT, <1>3, <2>2, <2>3
<1>9. ASSUME NEW k \in DOMAIN c
      PROVE  c[k] \in 1..n /\ \A i \in DOMAIN t : c[k] < t[i].wr_id
  <2>1. c[k] \in 1..n /\ \A i \in DOMAIN q : c[k] < q[i].wr_id
    BY DEF Outstanding
  <2>2. ASSUME NEW i \in DOMAIN t PROVE c[k] < t[i].wr_id
    <3>1. CASE i = Len(q) + 1
      BY <1>3, <1>5, <3>1
    <3>2. CASE i \in DOMAIN q
      BY <1>3, <2>1, <3>2
    <3> QED
      BY SMT, <1>3, <3>1, <3>2
  <2> QED
    BY <2>1, <2>2
<1>10. \A i, j \in DOMAIN c : i < j => c[i] < c[j]
  BY DEF Outstanding
<1>11. Outstanding(e, u, t, c, n)
  BY <1>7, <1>8, <1>9, <1>10 DEF Outstanding
<1> QED
  BY <1>1, <1>2, <1>11

(* The request with which an acknowledged packet ends, and those before it, *)
(* are the acknowledged ones.                                               *)
LEMMA AckedUpTo ==
  ASSUME NEW L, Room(L), NEW e \in Endpoints, NEW s \in Seq(Requests), Len(s) <= MaxPosts[e],
         NEW o, Numbered(s, o, L), NEW k \in 1..Len(s), NEW id \in 1..(Len(o) - 1),
         NEW op, op.end_psn = At(e, o[id + 1] - 1)
  PROVE  Acknowledged(op, At(e, o[k + 1] - 1)) <=> id <= k
<1>1. /\ DOMAIN o = 1..(Len(s) + 1) /\ Len(s) \in Nat /\ Half \in Nat /\ Len(o) = Len(s) + 1
      /\ \A m \in DOMAIN o : o[m] \in Nat /\ o[m] <= Half
  BY Within, Halves DEF Numbered
<1>2. k \in Nat /\ id \in Nat /\ k + 1 \in DOMAIN o /\ id + 1 \in DOMAIN o /\ 1 \in DOMAIN o
      /\ 1 < k + 1 /\ 1 < id + 1
  BY SMT, <1>1
<1>3. o[1] = 0 /\ o[1] < o[k + 1] /\ o[1] < o[id + 1]
  BY <1>2 DEF Numbered
<1>4. PICK u \in Nat, v \in Nat : u = o[k + 1] /\ v = o[id + 1] /\ u <= Half /\ v <= Half
  BY <1>1, <1>2
<1>5. PICK x \in Nat, y \in Nat : x = u - 1 /\ y = v - 1 /\ x < Half /\ y < Half
  <2>1. 0 < u /\ 0 < v
    BY <1>3, <1>4
  <2>2. u - 1 \in Nat /\ v - 1 \in Nat /\ u - 1 < Half /\ v - 1 < Half
    BY SMTT(20), <1>1, <1>4, <2>1
  <2> QED
    BY <2>2
<1>6. Acknowledged(op, At(e, x)) <=> y <= x
  BY <1>4, <1>5, AtAcknowledges
<1>7. v <= u <=> id <= k
  <2>1. CASE id < k
    <3>0. id + 1 < k + 1
      BY SMT, <1>2, <2>1
    <3>1. o[id + 1] < o[k + 1]
      BY <1>2, <3>0 DEF Numbered
    <3> QED
      BY SMT, <1>2, <1>4, <2>1, <3>1
  <2>2. CASE id = k
    BY SMT, <1>2, <1>4, <2>2
  <2>3. CASE k < id
    <3>0. k + 1 < id + 1
      BY SMT, <1>2, <2>3
    <3>1. o[k + 1] < o[id + 1]
      BY <1>2, <3>0 DEF Numbered
    <3> QED
      BY SMT, <1>2, <1>4, <2>3, <3>1
  <2> QED
    BY SMT, <1>2, <2>1, <2>2, <2>3
<1>8. y <= x <=> v <= u
  BY SMT, <1>5
<1> QED
  BY <1>4, <1>5, <1>6, <1>7, <1>8

(* What process_ack takes from the pending requests q and what it leaves. *)
Acks(q, psn, ids, left) ==
  \E waiting \in SUBSET (DOMAIN q) : \E acked \in SUBSET waiting :
    /\ \A i \in waiting : i \in acked <=> Acknowledged(q[i], psn)
    /\ left \in EntriesAt(q, waiting \ acked)
    /\ \E done \in EntriesAt(q, acked) :
         DOMAIN ids = DOMAIN done /\ \A i \in DOMAIN done : ids[i] = done[i].wr_id

(* An acknowledgement completes pending requests that were delivered, in   *)
(* their order, and leaves younger ones (ReliabilityManager::process_ack). *)
LEMMA OutstandingAcked ==
  ASSUME NEW L, Room(L), NEW e \in Endpoints, NEW s \in Seq(Requests), Len(s) <= MaxPosts[e],
         NEW o, Numbered(s, o, L), NEW q \in Seq(PendingAcks), NEW c \in Seq(Nat),
         NEW n \in Nat, n <= Len(s), Outstanding(e, o, q, c, n),
         NEW k \in 1..n, NEW psn, psn = At(e, o[k + 1] - 1),
         NEW ids \in Seq(Nat), NEW left, Acks(q, psn, ids, left)
  PROVE  Outstanding(e, o, left, c \o ids, n)
<1>w. PICK waiting \in SUBSET (DOMAIN q) : \E acked \in SUBSET waiting :
        /\ \A i \in waiting : i \in acked <=> Acknowledged(q[i], psn)
        /\ left \in EntriesAt(q, waiting \ acked)
        /\ \E done \in EntriesAt(q, acked) :
             DOMAIN ids = DOMAIN done /\ \A i \in DOMAIN done : ids[i] = done[i].wr_id
  BY Zenon DEF Acks
<1>c. PICK acked \in SUBSET waiting :
        /\ \A i \in waiting : i \in acked <=> Acknowledged(q[i], psn)
        /\ left \in EntriesAt(q, waiting \ acked)
        /\ \E done \in EntriesAt(q, acked) :
             DOMAIN ids = DOMAIN done /\ \A i \in DOMAIN done : ids[i] = done[i].wr_id
  BY <1>w, Zenon
<1>d. PICK done \in EntriesAt(q, acked) :
        DOMAIN ids = DOMAIN done /\ \A i \in DOMAIN done : ids[i] = done[i].wr_id
  BY <1>c, Zenon
<1>1. k \in 1..Len(s) /\ k \in Nat /\ Len(s) \in Nat
  BY SMT
<1>2. ASSUME NEW i \in DOMAIN q
      PROVE  /\ q[i].wr_id \in 1..(Len(o) - 1) /\ q[i].end_psn = At(e, o[q[i].wr_id + 1] - 1)
             /\ Acknowledged(q[i], psn) <=> q[i].wr_id <= k
  <2>1. q[i].wr_id \in 1..(Len(o) - 1) /\ q[i].end_psn = At(e, o[q[i].wr_id + 1] - 1)
    BY DEF Outstanding
  <2>2. Acknowledged(q[i], psn) <=> q[i].wr_id <= k
    BY <1>1, <2>1, AckedUpTo
  <2> QED
    BY <2>1, <2>2
<1>3. acked \in SUBSET (DOMAIN q) /\ waiting \ acked \in SUBSET (DOMAIN q)
  OBVIOUS
<1>a. Selected(done, q, acked) /\ Selected(left, q, waiting \ acked)
  BY <1>3, <1>c, Selecting
<1>4. PICK f \in [DOMAIN done -> acked] : Increasing(f) /\ \A i \in DOMAIN done : done[i] = q[f[i]]
  BY <1>a, Zenon DEF Selected
<1>5. PICK g \in [DOMAIN left -> waiting \ acked] : Increasing(g) /\ \A i \in DOMAIN left : left[i] = q[g[i]]
  BY <1>a, Zenon DEF Selected
<1>6. DOMAIN done = DOMAIN ids /\ DOMAIN ids = 1..Len(ids) /\ \A i \in DOMAIN ids : ids[i] = q[f[i]].wr_id
  <2>1. DOMAIN ids = 1..Len(ids)
    BY SMT
  <2> QED
    BY <1>4, <1>d, <2>1
<1>7. ASSUME NEW i \in DOMAIN left
      PROVE  /\ g[i] \in DOMAIN q /\ left[i] = q[g[i]] /\ left[i].wr_id \in Nat /\ left[i].wr_id > k
             /\ left[i].wr_id \in 1..(Len(o) - 1) /\ left[i].end_psn = At(e, o[left[i].wr_id + 1] - 1)
  <2>1. g[i] \in waiting /\ g[i] \notin acked /\ g[i] \in DOMAIN q /\ left[i] = q[g[i]]
    BY <1>5
  <2>2. ~(q[g[i]].wr_id <= k) /\ q[g[i]].wr_id \in 1..(Len(o) - 1)
    BY <1>2, <1>c, <2>1
  <2> QED
    <3>1. q[g[i]].wr_id \in Nat /\ q[g[i]].wr_id > k
      BY SMT, <1>1, <2>2
    <3> QED
      BY <1>2, <2>1, <2>2, <3>1
<1>8. ASSUME NEW i \in DOMAIN ids
      PROVE  f[i] \in DOMAIN q /\ ids[i] = q[f[i]].wr_id /\ ids[i] \in 1..k
  <2>1. f[i] \in acked /\ f[i] \in DOMAIN q /\ ids[i] = q[f[i]].wr_id
    BY <1>3, <1>4, <1>6
  <2>2. q[f[i]].wr_id <= k /\ q[f[i]].wr_id \in 1..(Len(o) - 1)
    BY <1>2, <1>c, <2>1
  <2> QED
    BY SMT, <1>1, <2>1, <2>2
<1>9. PICK r : r = c \o ids
  OBVIOUS
<1>10. /\ r \in Seq(Nat) /\ Len(r) = Len(c) + Len(ids) /\ Len(c) \in Nat /\ Len(ids) \in Nat
       /\ \A i \in 1..Len(c) : r[i] = c[i]
       /\ \A i \in 1..Len(ids) : r[Len(c) + i] = ids[i]
  BY SMT, <1>9, Joined
<1>11. DOMAIN c = 1..Len(c) /\ DOMAIN r = 1..(Len(c) + Len(ids))
  BY SMTT(20), <1>10
<1>12. ASSUME NEW m \in DOMAIN r
       PROVE  \/ m \in DOMAIN c /\ r[m] = c[m]
              \/ m - Len(c) \in DOMAIN ids /\ r[m] = ids[m - Len(c)] /\ m > Len(c)
  <2>1. CASE m <= Len(c)
    BY SMT, <1>10, <1>11, <2>1
  <2>2. CASE m > Len(c)
    <3>0. PICK x \in Nat, y \in Nat : x = Len(c) /\ y = Len(ids) /\ m \in 1..(x + y) /\ m > x
      BY <1>10, <1>11, <2>2
    <3>1. m - Len(c) \in 1..Len(ids) /\ Len(c) + (m - Len(c)) = m
      <4>1. m - x \in 1..y /\ x + (m - x) = m
        BY SMT, <3>0
      <4> QED
        BY <3>0, <4>1
    <3> QED
      BY <1>6, <1>10, <2>2, <3>1
  <2> QED
    BY SMTT(20), <1>10, <1>11, <2>1, <2>2
<1>13. \A i, j \in DOMAIN left : i < j => left[i].wr_id < left[j].wr_id
  <2>1. SUFFICES ASSUME NEW i \in DOMAIN left, NEW j \in DOMAIN left, i < j
                 PROVE  left[i].wr_id < left[j].wr_id
    OBVIOUS
  <2>2. g[i] < g[j] /\ g[i] \in DOMAIN q /\ g[j] \in DOMAIN q
    BY <1>5, <1>7, <2>1 DEF Increasing
  <2> QED
    BY <1>7, <2>2 DEF Outstanding
<1>14. ASSUME NEW m \in DOMAIN r
       PROVE  r[m] \in 1..n /\ \A i \in DOMAIN left : r[m] < left[i].wr_id
  <2>1. CASE m \in DOMAIN c /\ r[m] = c[m]
    BY <1>7, <2>1 DEF Outstanding
  <2>2. ASSUME NEW a \in DOMAIN ids, r[m] = ids[a]
        PROVE  r[m] \in 1..n /\ \A i \in DOMAIN left : r[m] < left[i].wr_id
    <3>1. r[m] \in 1..k
      BY <1>8, <2>2
    <3>2. r[m] \in Nat /\ r[m] <= k /\ r[m] \in 1..n
      BY SMT, <1>1, <3>1
    <3> QED
      BY SMTT(20), <1>1, <1>7, <3>2
  <2> QED
    BY <1>12, <2>1, <2>2
<1>15. ASSUME NEW a \in DOMAIN r, NEW b \in DOMAIN r, a < b
       PROVE  r[a] < r[b]
  <2>1. CASE b \in DOMAIN c /\ r[b] = c[b]
    <3>0. PICK x \in Nat, y \in Nat : x = Len(c) /\ y = Len(ids) /\ a \in 1..(x + y) /\ b \in 1..x
      BY <1>10, <1>11, <2>1
    <3>1. a \in DOMAIN c /\ r[a] = c[a]
      <4>1. a \in 1..x
        BY SMT, <1>15, <3>0
      <4> QED
        BY <1>10, <1>11, <3>0, <4>1
    <3> QED
      BY <1>15, <2>1, <3>1 DEF Outstanding
  <2>2. ASSUME NEW j \in DOMAIN ids, j = b - Len(c), r[b] = ids[j]
        PROVE  r[a] < r[b]
    <3>1. f[j] \in DOMAIN q /\ r[b] = q[f[j]].wr_id
      BY <1>8, <2>2
    <3>2. CASE a \in DOMAIN c /\ r[a] = c[a]
      BY <3>1, <3>2 DEF Outstanding
    <3>3. ASSUME NEW i \in DOMAIN ids, i = a - Len(c), r[a] = ids[i]
          PROVE  r[a] < r[b]
      <4>1. i < j
        BY SMT, <1>10, <1>11, <1>15, <2>2, <3>3
      <4>2. f[i] < f[j] /\ f[i] \in DOMAIN q /\ r[a] = q[f[i]].wr_id
        BY <1>4, <1>6, <1>8, <3>3, <4>1 DEF Increasing
      <4> QED
        BY <3>1, <4>2 DEF Outstanding
    <3> QED
      BY <1>12, <3>2, <3>3
  <2> QED
    BY <1>12, <2>1, <2>2
<1>16. Outstanding(e, o, left, r, n)
  BY <1>7, <1>13, <1>14, <1>15 DEF Outstanding
<1> QED
  BY <1>9, <1>16

-----------------------------------------------------------------------------
(* One more message. *)

(* The numbers go on with it. *)
LEMMA NumbersGrow ==
  ASSUME NEW L \in Nat, NEW s \in Seq(Requests), NEW o, Numbered(s, o, L),
         NEW w \in Requests, NEW c \in Nat, c = Count(w.len), 0 < c, c <= L,
         NEW x \in Nat, x = o[Len(o)] + c
  PROVE  Numbered(Append(s, w), Append(o, x), L)
<1>1. PICK t : t = Append(s, w)
  OBVIOUS
<1>2. PICK u : u = Append(o, x)
  OBVIOUS
<1>3. PICK n \in Nat : n = Len(s)
  BY SMT
<1>4. o \in Seq(Nat) /\ Len(o) = n + 1 /\ DOMAIN o = 1..(n + 1) /\ o[n + 1] \in Nat
  BY SMT, <1>3 DEF Numbered
<1>5. /\ t \in Seq(Requests) /\ Len(t) = n + 1 /\ DOMAIN t = 1..(n + 1) /\ DOMAIN s = 1..n
      /\ \A k \in 1..n : t[k] = s[k]
      /\ t[n + 1] = w
  BY SMT, <1>1, <1>3
<1>6. /\ u \in Seq(Nat) /\ Len(u) = n + 2 /\ DOMAIN u = 1..(n + 2)
      /\ \A k \in 1..(n + 1) : u[k] = o[k]
      /\ u[n + 2] = x
  <2>1. u \in Seq(Nat) /\ Len(u) = Len(o) + 1 /\ (\A k \in 1..Len(o) : u[k] = o[k]) /\ u[Len(o) + 1] = x
    BY SMT, <1>2, <1>4
  <2>2. Len(o) + 1 = n + 2
    BY SMT, <1>4
  <2> QED
    BY SMT, <1>4, <2>1, <2>2
<1>7. u[1] = 0
  <2>1. 1 \in 1..(n + 1) /\ o[1] = 0
    BY SMT, <1>3 DEF Numbered
  <2> QED
    BY <1>6, <2>1
<1>8. ASSUME NEW k \in DOMAIN t PROVE u[k + 1] = u[k] + Count(t[k].len)
  <2>1. CASE k = n + 1
    <3>1. k + 1 = n + 2 /\ u[k] = o[n + 1] /\ t[k] = w
      BY SMTT(20), <1>5, <1>6, <2>1
    <3> QED
      BY <1>4, <1>6, <3>1
  <2>2. CASE k \in 1..n
    <3>1. k + 1 \in 1..(n + 1) /\ k \in 1..(n + 1) /\ k \in DOMAIN s
      BY SMT, <1>5, <2>2
    <3>2. u[k + 1] = o[k + 1] /\ u[k] = o[k] /\ t[k] = s[k]
      BY <1>5, <1>6, <2>2, <3>1
    <3> QED
      BY <3>1, <3>2 DEF Numbered
  <2> QED
    BY SMT, <1>5, <2>1, <2>2
<1>9. ASSUME NEW i \in DOMAIN u, NEW j \in DOMAIN u, i < j PROVE u[i] < u[j]
  <2>1. i \in 1..(n + 1) /\ u[i] = o[i] /\ o[i] \in Nat
    <3>1. i \in 1..(n + 2) /\ j \in 1..(n + 2)
      BY <1>6
    <3>2. i \in 1..(n + 1)
      BY SMT, <1>9, <3>1
    <3>3. \A k \in DOMAIN o : o[k] \in Nat
      BY SMT, <1>4
    <3> QED
      BY <1>4, <1>6, <3>2, <3>3
  <2>2. CASE j = n + 2
    <3>1. i = n + 1 \/ o[i] < o[n + 1]
      <4>1. i = n + 1 \/ i < n + 1
        BY SMT, <2>1
      <4>2. i \in DOMAIN o /\ n + 1 \in DOMAIN o
        BY SMT, <1>4, <2>1
      <4> QED
        BY <4>1, <4>2 DEF Numbered
    <3>2. o[n + 1] < x
      BY SMT, <1>4
    <3> QED
      <4>1. o[i] \in Nat /\ o[n + 1] \in Nat
        BY <1>4, <2>1
      <4>2. o[i] < x
        BY SMT, <3>1, <3>2, <4>1
      <4> QED
        BY <1>6, <2>1, <2>2, <4>2
  <2>3. CASE j \in 1..(n + 1)
    <3>1. i \in DOMAIN o /\ j \in DOMAIN o /\ u[j] = o[j]
      BY <1>4, <1>6, <2>1, <2>3
    <3> QED
      BY <1>9, <2>1, <3>1 DEF Numbered
  <2> QED
    BY SMT, <1>6, <2>2, <2>3
<1>10. u[Len(u)] <= Len(t) * L
  <2>1. o[n + 1] <= n * L
    BY <1>3, <1>4 DEF Numbered
  <2>2. PICK a \in Nat, z \in Nat : a = n * L /\ z = o[n + 1]
    BY SMT, <1>4
  <2>3. (n + 1) * L = a + L
    BY SMT, <2>2
  <2>4. x = z + c /\ z <= a
    BY <1>4, <2>1, <2>2
  <2>5. x <= a + L
    BY SMT, <2>4
  <2> QED
    BY <1>5, <1>6, <2>3, <2>5
<1>11. Numbered(t, u, L)
  <2>1. Len(u) = Len(t) + 1
    BY SMT, <1>5, <1>6
  <2> QED
    BY <1>6, <1>7, <1>8, <1>9, <1>10, <2>1 DEF Numbered
<1> QED
  BY <1>1, <1>2, <1>11

(* The responder's place in the messages is the same. *)
LEMMA ReceiverPosted ==
  ASSUME NEW st, NEW e, NEW s \in Seq(Requests), NEW o \in Seq(Nat), Len(o) = Len(s) + 1,
         NEW n \in Nat, NEW rq, NEW rs, NEW ws, Receiver(st, e, s, o, n, rq, rs, ws),
         NEW w \in Requests, NEW x \in Nat
  PROVE  Receiver(st, e, Append(s, w), Append(o, x), n, rq, rs, ws)
<1>1. PICK t : t = Append(s, w)
  OBVIOUS
<1>2. PICK u : u = Append(o, x)
  OBVIOUS
<1>3. n <= Len(s) /\ Len(s) \in Nat
  BY SMT DEF Receiver
<1>4. /\ Len(t) = Len(s) + 1
      /\ n < Len(s) => t[n + 1] = s[n + 1]
  BY SMT, <1>1, <1>3
<1>5. u[n + 1] = o[n + 1]
  BY SMT, <1>2, <1>3
<1>6. ASSUME NEW j \in Nat, Midway(e, s, o, n, j, rq, rs, ws)
      PROVE  Midway(e, t, u, n, j, rq, rs, ws)
  <2>1. CASE j = 0
    <3>1. ~rs.in_progress /\ ~ws.in_progress /\ rq = At(e, u[n + 1] + j)
      BY SMT, <1>5, <1>6, <2>1 DEF Midway, Holds
    <3> QED
      BY <2>1, <3>1 DEF Midway, Holds
  <2>2. CASE j # 0
    <3>1. n < Len(s) /\ n < Len(t) /\ t[n + 1] = s[n + 1]
      <4>1. n < Len(s)
        BY <1>6, <2>2 DEF Midway
      <4>2. n < Len(s) + 1
        BY SMT, <1>3, <4>1
      <4> QED
        BY <1>4, <4>1, <4>2
    <3> QED
      BY <1>5, <1>6, <2>2, <3>1 DEF Midway, Holds
  <2> QED
    BY <2>1, <2>2
<1>7. n <= Len(t)
  BY SMT, <1>3, <1>4
<1>8. Receiver(st, e, t, u, n, rq, rs, ws)
  BY <1>6, <1>7 DEF Receiver
<1> QED
  BY <1>1, <1>2, <1>8

-----------------------------------------------------------------------------
(* What the channel sees of messages and deliveries. *)

Messages == {Whole(w) : w \in Requests}

Receipt(m) == [wr_id |-> m.wr_id, data |-> m.data, imm |-> m.imm]

Receipts == {Receipt(m) : m \in Deliveries}

(* Appending a request appends its message. *)
LEMMA MessagesAppend ==
  ASSUME NEW s \in Seq(Requests), NEW w \in Requests
  PROVE  AsMessages(Append(s, w)) = Append(AsMessages(s), Whole(w))
<1>0. Append(s, w) \in Seq(Requests)
  BY SMT
<1>1. PICK t \in Seq(Requests) : t = Append(s, w)
  BY <1>0, Zenon
<1>2. /\ Len(s) \in Nat /\ Len(t) = Len(s) + 1 /\ DOMAIN s = 1..Len(s) /\ DOMAIN t = 1..Len(t)
      /\ \A k \in 1..Len(s) : t[k] = s[k]
      /\ t[Len(s) + 1] = w
  BY SMT, <1>1
<1>3. /\ \A k \in 1..Len(s) : Whole(s[k]) \in Messages
      /\ \A k \in 1..Len(t) : Whole(t[k]) \in Messages
      /\ Whole(w) \in Messages
  BY SMT DEF Messages
<1>4. PICK a : a = AsMessages(s)
  OBVIOUS
<1>5. PICK z : z = AsMessages(t)
  OBVIOUS
<1>6. /\ a \in Seq(Messages) /\ Len(a) = Len(s) /\ \A k \in 1..Len(s) : a[k] = Whole(s[k])
  BY SMT, <1>2, <1>3, <1>4 DEF AsMessages
<1>7. /\ z \in Seq(Messages) /\ Len(z) = Len(s) + 1 /\ \A k \in 1..(Len(s) + 1) : z[k] = Whole(t[k])
  BY SMT, <1>2, <1>3, <1>5 DEF AsMessages
<1>8. PICK m \in Messages : m = Whole(w)
  BY <1>3
<1>9. PICK b : b = Append(a, m)
  OBVIOUS
<1>10. /\ b \in Seq(Messages) /\ Len(b) = Len(s) + 1 /\ b[Len(s) + 1] = m
       /\ \A k \in 1..Len(s) : b[k] = a[k]
  BY SMT, <1>6, <1>9
<1>11. ASSUME NEW k \in 1..(Len(s) + 1) PROVE z[k] = b[k]
  <2>1. CASE k = Len(s) + 1
    BY <1>2, <1>7, <1>8, <1>10, <2>1
  <2>2. CASE k \in 1..Len(s)
    BY <1>2, <1>6, <1>7, <1>10, <2>2
  <2> QED
    BY SMT, <1>2, <2>1, <2>2
<1>12. z = b
  BY <1>7, <1>10, <1>11, SeqEqual
<1> QED
  BY <1>1, <1>4, <1>5, <1>8, <1>9, <1>12

(* A delivery appends what it is seen as. *)
LEMMA ReceiptsAppend ==
  ASSUME NEW d \in Seq(Deliveries), NEW m \in Deliveries
  PROVE  /\ AsReceived(Append(d, m)) = Append(AsReceived(d), Receipt(m))
         /\ Len(AsReceived(d)) = Len(d)
<1>0. Append(d, m) \in Seq(Deliveries)
  BY SMT
<1>1. PICK t \in Seq(Deliveries) : t = Append(d, m)
  BY <1>0, Zenon
<1>2. /\ Len(d) \in Nat /\ Len(t) = Len(d) + 1 /\ DOMAIN d = 1..Len(d) /\ DOMAIN t = 1..Len(t)
      /\ \A k \in 1..Len(d) : t[k] = d[k]
      /\ t[Len(d) + 1] = m
  BY SMT, <1>1
<1>3. /\ \A k \in 1..Len(d) : Receipt(d[k]) \in Receipts
      /\ \A k \in 1..Len(t) : Receipt(t[k]) \in Receipts
      /\ Receipt(m) \in Receipts
  BY SMT DEF Receipts
<1>4. PICK a : a = AsReceived(d)
  OBVIOUS
<1>5. PICK z : z = AsReceived(t)
  OBVIOUS
<1>6. a = [k \in 1..Len(d) |-> Receipt(d[k])] /\ z = [k \in 1..Len(t) |-> Receipt(t[k])]
  BY <1>2, <1>4, <1>5, Zenon DEF AsReceived, Receipt
<1>7. /\ a \in Seq(Receipts) /\ Len(a) = Len(d) /\ \A k \in 1..Len(d) : a[k] = Receipt(d[k])
  BY SMT, <1>2, <1>3, <1>6
<1>8. /\ z \in Seq(Receipts) /\ Len(z) = Len(d) + 1 /\ \A k \in 1..(Len(d) + 1) : z[k] = Receipt(t[k])
  BY SMT, <1>2, <1>3, <1>6
<1>9. PICK r \in Receipts : r = Receipt(m)
  BY <1>3
<1>10. PICK b : b = Append(a, r)
  OBVIOUS
<1>11. /\ b \in Seq(Receipts) /\ Len(b) = Len(d) + 1 /\ b[Len(d) + 1] = r
       /\ \A k \in 1..Len(d) : b[k] = a[k]
  BY SMT, <1>7, <1>10
<1>12. ASSUME NEW k \in 1..(Len(d) + 1) PROVE z[k] = b[k]
  <2>1. CASE k = Len(d) + 1
    BY <1>2, <1>8, <1>9, <1>11, <2>1
  <2>2. CASE k \in 1..Len(d)
    BY <1>2, <1>7, <1>8, <1>11, <2>2
  <2> QED
    BY SMT, <1>2, <2>1, <2>2
<1>13. z = b
  BY <1>8, <1>11, <1>12, SeqEqual
<1> QED
  BY <1>1, <1>4, <1>5, <1>7, <1>9, <1>10, <1>13
=============================================================================
