------------------------- MODULE NicQueuePairProofs -------------------------
(***************************************************************************)
(* For any descriptors, rings and completion queues: the rings and queues  *)
(* keep within their sizes, every descriptor pushed ends in one place, and *)
(* the segments given to receive buffers are the packet, in order.         *)
(***************************************************************************)
EXTENDS NicQueuePair, TLAPS

(* Leaves are for Zenon; the ones with arithmetic, sequences or records in   *)
(* them name SMT.                                                           *)
USE Zenon

Codes == {"Success", "Fault"} \cup Drops

Segs == [header : Nat, from : Nat, size : Nat]

TxSlots == [index : Nat, desc : TxDescriptors]

RxSlots == [index : Nat, desc : RxDescriptors]

TxEntries == [tx : Nat, code : Codes]

RxEntries == [rx : Nat, code : Codes, tx : Nat, seg : Segs]

(* A piece of a sequence. *)
LEMMA Slice ==
  ASSUME NEW S, NEW s, NEW m \in Nat, NEW n \in Nat, \A i \in m..n : s[i] \in S
  PROVE  /\ SubSeq(s, m, n) \in Seq(S)
         /\ Len(SubSeq(s, m, n)) = IF m <= n THEN n - m + 1 ELSE 0
         /\ \A i \in 1..(n - m + 1) : SubSeq(s, m, n)[i] = s[m + i - 1]
BY SMT

-----------------------------------------------------------------------------
(* Segmentation. *)

(* The number of chunks is the payload over the MSS, rounded up. *)
LEMMA ChunkCount ==
  ASSUME NEW payload \in Nat \ {0}, NEW mss \in Nat \ {0}
  PROVE  LET n == (payload + mss - 1) \div mss
         IN  n \in Nat \ {0} /\ (n - 1) * mss < payload /\ payload <= n * mss
<1>1. PICK x \in Nat : x = payload + mss - 1
  BY SMT
<1>2. PICK n \in Nat : n = x \div mss
  BY SMT, <1>1
<1>3. mss * n <= x /\ x < mss * n + mss
  BY SMT, <1>2
<1>4. n # 0
  BY SMT, <1>1, <1>3
<1>5. (n - 1) * mss = mss * n - mss /\ n * mss = mss * n
  BY SMT
<1>6. mss * n \in Nat
  BY SMT
<1> QED
  BY SMT, <1>1, <1>2, <1>3, <1>4, <1>5, <1>6

(* The segments of a packet: the first starts behind the header, the next   *)
(* where the one before ends, and the last ends with the packet.            *)
LEMMA Segmentation ==
  ASSUME NEW d \in TxDescriptors, Segmented(d) => ValidMss(d)
  PROVE  LET segs == build_segments(d)
         IN  /\ segs \in Seq(Segs) /\ Len(segs) >= 1
             /\ segs[1].from = segs[1].header
             /\ \A k \in 2..Len(segs) : segs[k].from = segs[k - 1].from + segs[k - 1].size
             /\ segs[Len(segs)].from + segs[Len(segs)].size = d.len
<1>1. /\ d.len \in Nat /\ d.mss \in Nat /\ d.header \in Nat
  BY QueuePairAssumption
<1>2. PICK segs : segs = build_segments(d)
  OBVIOUS
<1>3. CASE ~Segmented(d) \/ d.header >= d.len
  <2>1. PICK s : s = [header |-> 0, from |-> 0, size |-> d.len]
    OBVIOUS
  <2>2. s \in Segs /\ s.from = 0 /\ s.header = 0 /\ s.size = d.len
    BY <1>1, <2>1 DEF Segs
  <2>3. segs = <<s>>
    BY <1>2, <1>3, <2>1 DEF build_segments
  <2>4. segs \in Seq(Segs) /\ Len(segs) = 1 /\ segs[1] = s
    BY SMT, <2>2, <2>3
  <2> QED
    BY SMT, <1>1, <1>2, <2>2, <2>4
<1>4. CASE ~(~Segmented(d) \/ d.header >= d.len)
  <2>1. PICK payload \in Nat \ {0} : payload = d.len - d.header
    BY SMT, <1>1, <1>4
  <2>2. PICK mss \in Nat \ {0} : mss = d.mss
    BY SMT, <1>1, <1>4 DEF Segmented
  <2>3. PICK n \in Nat \ {0} : /\ n = (payload + mss - 1) \div mss
                               /\ (n - 1) * mss < payload /\ payload <= n * mss
    BY ChunkCount
  <2>4. segs = [i \in 1..n |-> Chunk(d, i)]
    BY <1>2, <1>4, <2>1, <2>2, <2>3 DEF build_segments
  <2>5. ASSUME NEW i \in 1..n
        PROVE  /\ Chunk(d, i) \in Segs /\ Chunk(d, i).header = d.header
               /\ Chunk(d, i).from = d.header + (i - 1) * mss
               /\ i < n => Chunk(d, i).size = mss
               /\ i = n => Chunk(d, i).from + Chunk(d, i).size = d.len
    <3>1. (i - 1) * mss \in Nat /\ (i - 1) * mss <= (n - 1) * mss
      BY SMT
    <3>2. PICK from \in Nat : from = d.header + (i - 1) * mss
      BY SMT, <1>1, <3>1
    <3>3. from < d.len
      <4>1. (n - 1) * mss \in Int
        BY SMT
      <4> QED
        BY SMT, <1>1, <2>1, <2>3, <3>1, <3>2, <4>1
    <3>4. PICK size \in Nat : size = Smaller(d.mss, d.len - from)
      BY SMT, <1>1, <2>2, <3>3 DEF Smaller
    <3>5. Chunk(d, i) = [header |-> d.header, from |-> from, size |-> size]
      BY <2>2, <3>2, <3>4 DEF Chunk
    <3>6. i < n => size = mss
      <4> SUFFICES ASSUME i < n PROVE size = mss
        OBVIOUS
      <4>1. i * mss <= (n - 1) * mss /\ i * mss = (i - 1) * mss + mss
        BY SMT
      <4>2. i * mss \in Nat /\ (n - 1) * mss \in Nat
        BY SMT
      <4>3. from + mss < d.len
        BY SMT, <1>1, <2>1, <2>3, <3>1, <3>2, <4>1, <4>2
      <4> QED
        BY SMT, <1>1, <2>2, <3>4, <4>3 DEF Smaller
    <3>7. i = n => from + size = d.len
      <4> SUFFICES ASSUME i = n PROVE from + size = d.len
        OBVIOUS
      <4>1. n * mss = (n - 1) * mss + mss /\ (n - 1) * mss \in Nat
        BY SMT
      <4>2. d.len - from <= mss
        BY SMT, <1>1, <2>1, <2>3, <3>2, <4>1
      <4> QED
        BY SMT, <1>1, <2>2, <3>3, <3>4, <4>2 DEF Smaller
    <3> QED
      BY SMT, <1>1, <3>2, <3>5, <3>6, <3>7 DEF Segs
  <2>6. /\ segs \in Seq(Segs) /\ Len(segs) = n
        /\ \A i \in 1..n : segs[i] = Chunk(d, i)
    <3>1. segs \in [1..n -> Segs] /\ \A i \in 1..n : segs[i] = Chunk(d, i)
      BY <2>4, <2>5
    <3> QED
      BY SMT, <3>1
  <2>7. segs[1].from = segs[1].header
    BY SMT, <1>1, <2>5, <2>6
  <2>8. \A k \in 2..n : segs[k].from = segs[k - 1].from + segs[k - 1].size
    <3> SUFFICES ASSUME NEW k \in 2..n
                 PROVE  segs[k].from = segs[k - 1].from + segs[k - 1].size
      OBVIOUS
    <3>1. k - 1 \in 1..n /\ k \in 1..n /\ k - 1 < n
      BY SMT
    <3>2. /\ segs[k].from = d.header + (k - 1) * mss
          /\ segs[k - 1].from = d.header + ((k - 1) - 1) * mss /\ segs[k - 1].size = mss
      BY <2>5, <2>6, <3>1
    <3>3. (k - 1) * mss = ((k - 1) - 1) * mss + mss /\ ((k - 1) - 1) * mss \in Nat
      BY SMT
    <3> QED
      BY SMT, <1>1, <3>2, <3>3
  <2>9. segs[n].from + segs[n].size = d.len
    BY SMT, <2>5, <2>6
  <2>10. n >= 1
    BY SMT
  <2> QED
    BY <1>2, <2>6, <2>7, <2>8, <2>9, <2>10
<1> QED
  BY <1>3, <1>4
-----------------------------------------------------------------------------
(* The invariant.  The rings hold the last descriptors pushed; the earlier  *)
(* ones are taken.                                                          *)
TxTaken == Len(sent) - Len(tx_ring)

RxTaken == pushed_rx - Len(rx_ring)

Typed ==
  /\ tx_ring \in Seq(TxSlots) /\ Len(tx_ring) <= TxRingSize /\ Len(tx_ring) <= Len(sent)
  /\ rx_ring \in Seq(RxSlots) /\ Len(rx_ring) <= RxRingSize /\ Len(rx_ring) <= pushed_rx
  /\ tx_cq \in Seq(TxEntries) /\ Len(tx_cq) <= TxCqSize
  /\ rx_cq \in Seq(RxEntries) /\ Len(rx_cq) <= RxCqSize
  /\ sent \in Seq(TxDescriptors) /\ Len(sent) <= MaxTx /\ pushed_rx \in 0..MaxRx
  /\ tx_log \in Seq(TxEntries) /\ rx_log \in Seq(RxEntries)
  /\ tx_events \in 0..TxTaken /\ rx_events \in 0..RxTaken /\ worked \in BOOLEAN

Indexed ==
  /\ \A k \in 1..Len(tx_ring) : /\ tx_ring[k].index = TxTaken + k
                                /\ tx_ring[k].desc = sent[TxTaken + k]
  /\ \A k \in 1..Len(rx_ring) : rx_ring[k].index = RxTaken + k

Logged ==
  /\ \A k \in 1..Len(tx_log) : tx_log[k].tx \in 1..TxTaken
  /\ \A j, k \in 1..Len(tx_log) : j < k => tx_log[j].tx < tx_log[k].tx
  /\ \A k \in 1..Len(rx_log) : rx_log[k].rx \in 1..RxTaken /\ rx_log[k].tx \in 1..TxTaken
  /\ \A j, k \in 1..Len(rx_log) : j < k => rx_log[j].rx < rx_log[k].rx /\ rx_log[j].tx <= rx_log[k].tx

TxDone(i) == \E k \in 1..Len(tx_log) : tx_log[k].tx = i

RxDone(i) == \E k \in 1..Len(rx_log) : rx_log[k].rx = i

RxPlaced(i) ==
  /\ RxDone(i) \/ <<"rx", i>> \in vanished \/ <<"rx", i>> \in discarded
  /\ ~(RxDone(i) /\ <<"rx", i>> \in vanished)
  /\ ~(RxDone(i) /\ <<"rx", i>> \in discarded)
  /\ ~(<<"rx", i>> \in vanished /\ <<"rx", i>> \in discarded)

(* A descriptor taken off its ring is in one place. *)
Placed ==
  /\ vanished \subseteq {<<"tx", i>> : i \in 1..TxTaken} \cup {<<"rx", i>> : i \in 1..RxTaken}
  /\ discarded \subseteq {<<"tx", i>> : i \in 1..TxTaken} \cup {<<"rx", i>> : i \in 1..RxTaken}
  /\ \A i \in 1..TxTaken : /\ TxDone(i) \/ <<"tx", i>> \in vanished \/ <<"tx", i>> \in discarded
                           /\ ~(TxDone(i) /\ <<"tx", i>> \in vanished)
                           /\ ~(TxDone(i) /\ <<"tx", i>> \in discarded)
                           /\ ~(<<"tx", i>> \in vanished /\ <<"tx", i>> \in discarded)
  /\ \A i \in 1..RxTaken : RxPlaced(i)

Follows(k) == IF k > 1 /\ rx_log[k - 1].tx = rx_log[k].tx
              THEN Segment(k).from = Segment(k - 1).from + Segment(k - 1).size
              ELSE Segment(k).from = Segment(k).header

(* The segments of a descriptor completed with success: one of them failed, *)
(* or the last of them ends the packet.                                     *)
Whole(log, packets, i) ==
  \/ \E k \in 1..Len(log) : log[k].tx = i /\ log[k].code # "Success"
  \/ \E k \in 1..Len(log) :
       /\ log[k].tx = i /\ (k < Len(log) => log[k + 1].tx # i)
       /\ log[k].seg.from + log[k].seg.size = packets[i].len

Covering ==
  /\ \A k \in 1..Len(rx_log) : Follows(k)
  /\ \A k \in 1..Len(tx_log) : tx_log[k].code = "Success" => Whole(rx_log, sent, tx_log[k].tx)

Inv == Typed /\ Indexed /\ Logged /\ Placed /\ Covering

(* Completions made on behalf of the front transmit descriptor. *)
OnBehalf(rx) ==
  /\ rx \in Seq(RxEntries) /\ Len(rx) <= Len(rx_ring)
  /\ \A j \in 1..Len(rx) : rx[j].rx = rx_ring[j].index /\ rx[j].tx = Head(tx_ring).index
  /\ Len(rx) >= 1 => rx[1].seg.from = rx[1].seg.header
  /\ \A j \in 2..Len(rx) : rx[j].seg.from = rx[j - 1].seg.from + rx[j - 1].seg.size

-----------------------------------------------------------------------------
(* The front transmit descriptor and the receive descriptors used for it    *)
(* leave their rings.                                                       *)
Take(rx) ==
  /\ tx_ring' = Tail(tx_ring) /\ rx_ring' = SubSeq(rx_ring, Len(rx) + 1, Len(rx_ring))
  /\ rx_log' = rx_log \o rx /\ UNCHANGED pushes

(* The counts of the invariant. *)
LEMMA Counts ==
  ASSUME Typed
  PROVE  /\ Len(sent) \in Nat /\ Len(tx_ring) \in Nat /\ pushed_rx \in Nat /\ Len(rx_ring) \in Nat
         /\ TxTaken \in Nat /\ RxTaken \in Nat /\ Len(tx_log) \in Nat /\ Len(rx_log) \in Nat
         /\ {TxRingSize, RxRingSize, TxCqSize, RxCqSize, MaxTx, MaxRx} \subseteq Nat
<1>1. /\ tx_ring \in Seq(TxSlots) /\ Len(tx_ring) <= Len(sent) /\ sent \in Seq(TxDescriptors)
      /\ rx_ring \in Seq(RxSlots) /\ Len(rx_ring) <= pushed_rx /\ pushed_rx \in 0..MaxRx
      /\ tx_log \in Seq(TxEntries) /\ rx_log \in Seq(RxEntries)
  BY DEF Typed
<1>2. {TxRingSize, RxRingSize, TxCqSize, RxCqSize, MaxTx, MaxRx} \subseteq Nat
  BY QueuePairAssumption
<1>3. /\ Len(sent) \in Nat /\ Len(tx_ring) \in Nat /\ Len(rx_ring) \in Nat
      /\ Len(tx_log) \in Nat /\ Len(rx_log) \in Nat
  BY SMT, <1>1
<1>4. pushed_rx \in Nat
  BY SMT, <1>1
<1>5. Len(sent) - Len(tx_ring) \in Nat /\ pushed_rx - Len(rx_ring) \in Nat
  BY SMT, <1>1, <1>3, <1>4
<1> QED
  BY <1>2, <1>3, <1>4, <1>5 DEF TxTaken, RxTaken

(* What is on the rings and in the receive log afterwards. *)
LEMMA Taking ==
  ASSUME Inv, tx_ring # <<>>, NEW rx, OnBehalf(rx), Take(rx)
  PROVE  /\ tx_ring' \in Seq(TxSlots) /\ rx_ring' \in Seq(RxSlots) /\ rx_log' \in Seq(RxEntries)
         /\ Len(tx_ring') = Len(tx_ring) - 1 /\ Len(rx_ring') = Len(rx_ring) - Len(rx)
         /\ Len(rx_log') = Len(rx_log) + Len(rx) /\ Len(rx) \in Nat
         /\ TxTaken' = TxTaken + 1 /\ RxTaken' = RxTaken + Len(rx)
         /\ Indexed'
         /\ \A k \in 1..Len(rx_log) : rx_log'[k] = rx_log[k]
         /\ \A k \in 1..Len(rx) : /\ rx_log'[Len(rx_log) + k] = rx[k]
                                  /\ rx[k].rx = RxTaken + k /\ rx[k].tx = TxTaken + 1
<1>1. /\ Len(sent) \in Nat /\ Len(tx_ring) \in Nat /\ pushed_rx \in Nat /\ Len(rx_ring) \in Nat
      /\ TxTaken \in Nat /\ RxTaken \in Nat /\ Len(rx_log) \in Nat
  BY Counts DEF Inv
<1>2. tx_ring \in Seq(TxSlots) /\ rx_ring \in Seq(RxSlots) /\ rx_log \in Seq(RxEntries)
  BY DEF Inv, Typed
<1>3. rx \in Seq(RxEntries) /\ Len(rx) \in Nat /\ Len(rx) <= Len(rx_ring)
  BY SMT DEF OnBehalf
<1>4. /\ tx_ring' \in Seq(TxSlots) /\ Len(tx_ring') = Len(tx_ring) - 1 /\ Len(tx_ring) >= 1
      /\ Head(tx_ring) = tx_ring[1]
      /\ \A k \in 1..Len(tx_ring') : tx_ring'[k] = tx_ring[k + 1]
  BY SMT, <1>2 DEF Take
<1>5. /\ rx_ring' \in Seq(RxSlots) /\ Len(rx_ring') = Len(rx_ring) - Len(rx)
      /\ \A k \in 1..Len(rx_ring') : rx_ring'[k] = rx_ring[Len(rx) + k]
  <2>1. PICK m \in Nat, n \in Nat : m = Len(rx) + 1 /\ n = Len(rx_ring)
    BY SMT, <1>1, <1>3
  <2>2. rx_ring' = SubSeq(rx_ring, m, n)
    BY <2>1 DEF Take
  <2>3. \A k \in m..n : rx_ring[k] \in RxSlots
    BY SMT, <1>2, <1>3, <2>1
  <2>4. /\ SubSeq(rx_ring, m, n) \in Seq(RxSlots)
        /\ Len(SubSeq(rx_ring, m, n)) = IF m <= n THEN n - m + 1 ELSE 0
        /\ \A k \in 1..(n - m + 1) : SubSeq(rx_ring, m, n)[k] = rx_ring[m + k - 1]
    BY SMT, <2>3, Slice
  <2>5. n - m + 1 = Len(rx_ring) - Len(rx) /\ (m <= n \/ n - m + 1 = 0)
    BY SMT, <1>1, <1>3, <2>1
  <2>6. Len(rx_ring') = Len(rx_ring) - Len(rx)
    BY <2>2, <2>4, <2>5
  <2>7. \A k \in 1..Len(rx_ring') : m + k - 1 = Len(rx) + k
    BY SMT, <1>3, <2>1
  <2> QED
    BY <2>2, <2>4, <2>5, <2>6, <2>7
<1>6. /\ rx_log' \in Seq(RxEntries) /\ Len(rx_log') = Len(rx_log) + Len(rx)
      /\ \A k \in 1..Len(rx_log) : rx_log'[k] = rx_log[k]
      /\ \A k \in 1..Len(rx) : rx_log'[Len(rx_log) + k] = rx[k]
  BY SMT, <1>2, <1>3 DEF Take
<1>7. sent' = sent /\ pushed_rx' = pushed_rx
  BY DEF Take, pushes
<1>8. TxTaken' = TxTaken + 1 /\ RxTaken' = RxTaken + Len(rx)
  BY SMT, <1>1, <1>3, <1>4, <1>5, <1>7 DEF TxTaken, RxTaken
<1>9. \A k \in 1..Len(rx) : rx[k].rx = RxTaken + k /\ rx[k].tx = TxTaken + 1
  <2>1. tx_ring[1].index = TxTaken + 1
    BY SMT, <1>4 DEF Inv, Indexed
  <2>2. \A k \in 1..Len(rx) : k \in 1..Len(rx_ring)
    BY SMT, <1>1, <1>3
  <2>3. \A k \in 1..Len(rx) : rx_ring[k].index = RxTaken + k
    BY <2>2 DEF Inv, Indexed
  <2> QED
    BY <1>4, <2>1, <2>3 DEF OnBehalf
<1>10. Indexed'
  <2>1. \A k \in 1..Len(tx_ring') : /\ tx_ring'[k].index = (TxTaken + 1) + k
                                    /\ tx_ring'[k].desc = sent[(TxTaken + 1) + k]
    <3> SUFFICES ASSUME NEW k \in 1..Len(tx_ring')
                 PROVE  /\ tx_ring'[k].index = (TxTaken + 1) + k
                        /\ tx_ring'[k].desc = sent[(TxTaken + 1) + k]
      OBVIOUS
    <3>1. k + 1 \in 1..Len(tx_ring) /\ (TxTaken + 1) + k = TxTaken + (k + 1)
      BY SMT, <1>1, <1>4
    <3> QED
      BY <1>4, <3>1 DEF Inv, Indexed
  <2>2. \A k \in 1..Len(rx_ring') : rx_ring'[k].index = (RxTaken + Len(rx)) + k
    <3> SUFFICES ASSUME NEW k \in 1..Len(rx_ring')
                 PROVE  rx_ring'[k].index = (RxTaken + Len(rx)) + k
      OBVIOUS
    <3>1. Len(rx) + k \in 1..Len(rx_ring) /\ (RxTaken + Len(rx)) + k = RxTaken + (Len(rx) + k)
      BY SMT, <1>1, <1>3, <1>5
    <3> QED
      BY <1>5, <3>1 DEF Inv, Indexed
  <2> QED
    BY <1>7, <1>8, <2>1, <2>2 DEF Indexed
<1> QED
  BY <1>3, <1>4, <1>5, <1>6, <1>8, <1>9, <1>10

(* A number up to a sum is one of the first, or lies beyond them. *)
LEMMA Beyond ==
  ASSUME NEW m \in Nat, NEW n \in Nat, NEW k \in 1..(m + n)
  PROVE  k \in 1..m \/ \E j \in 1..n : k = m + j /\ j = k - m
<1>1. CASE k <= m
  BY SMT, <1>1
<1>2. CASE ~(k <= m)
  <2>1. k - m \in 1..n /\ k = m + (k - m)
    BY SMT, <1>2
  <2> QED
    BY <2>1
<1> QED
  BY <1>1, <1>2

(* The logs and the places after a step that completes the descriptor, or   *)
(* loses it.                                                                *)
LEMMA Placing ==
  ASSUME Inv, tx_ring # <<>>, NEW rx, OnBehalf(rx), Take(rx),
         \/ /\ vanished' = vanished
            /\ \E code \in Codes : tx_log' = Append(tx_log, [tx |-> TxTaken + 1, code |-> code])
         \/ vanished' = vanished \cup {<<"tx", TxTaken + 1>>} /\ tx_log' = tx_log
  PROVE  tx_log' \in Seq(TxEntries) /\ Logged' /\ Placed'
<1>1. /\ TxTaken \in Nat /\ RxTaken \in Nat /\ Len(rx_log) \in Nat /\ Len(tx_log) \in Nat
      /\ tx_log \in Seq(TxEntries)
  BY Counts DEF Inv, Typed
<1>2. /\ Len(rx_log') = Len(rx_log) + Len(rx) /\ Len(rx) \in Nat
      /\ TxTaken' = TxTaken + 1 /\ RxTaken' = RxTaken + Len(rx)
      /\ \A k \in 1..Len(rx_log) : rx_log'[k] = rx_log[k]
      /\ \A k \in 1..Len(rx) : /\ rx_log'[Len(rx_log) + k] = rx[k]
                               /\ rx[k].rx = RxTaken + k /\ rx[k].tx = TxTaken + 1
  BY Taking
<1>3. ASSUME NEW k \in 1..Len(rx_log')
      PROVE  \/ k \in 1..Len(rx_log) /\ rx_log'[k] = rx_log[k]
             \/ /\ k - Len(rx_log) \in 1..Len(rx) /\ rx_log'[k].tx = TxTaken + 1
                /\ rx_log'[k].rx = RxTaken + (k - Len(rx_log))
  <2>1. k \in 1..(Len(rx_log) + Len(rx))
    BY <1>2
  <2>2. k \in 1..Len(rx_log) \/ \E j \in 1..Len(rx) : k = Len(rx_log) + j /\ j = k - Len(rx_log)
    BY <1>1, <1>2, <2>1, Beyond
  <2>3. CASE \E j \in 1..Len(rx) : k = Len(rx_log) + j /\ j = k - Len(rx_log)
    <3>1. PICK j \in 1..Len(rx) : k = Len(rx_log) + j /\ j = k - Len(rx_log)
      BY <2>3
    <3> QED
      BY <1>2, <3>1
  <2> QED
    BY <1>2, <2>2, <2>3
<1>4. /\ \A k \in 1..Len(rx_log') : rx_log'[k].rx \in 1..RxTaken' /\ rx_log'[k].tx \in 1..TxTaken'
      /\ \A j, k \in 1..Len(rx_log') : j < k => rx_log'[j].rx < rx_log'[k].rx /\ rx_log'[j].tx <= rx_log'[k].tx
  <2>1. \A k \in 1..Len(rx_log) : /\ rx_log[k].rx \in 1..RxTaken /\ rx_log[k].tx \in 1..TxTaken
                                  /\ rx_log[k].rx \in Nat /\ rx_log[k].tx \in Nat
                                  /\ rx_log[k].rx <= RxTaken /\ rx_log[k].tx < TxTaken + 1
    <3>1. \A k \in 1..Len(rx_log) : rx_log[k].rx \in 1..RxTaken /\ rx_log[k].tx \in 1..TxTaken
      BY DEF Inv, Logged
    <3>2. \A a : /\ a \in 1..RxTaken => a \in Nat /\ a <= RxTaken
                 /\ a \in 1..TxTaken => a \in Nat /\ a < TxTaken + 1
      BY SMT, <1>1
    <3> QED
      BY <3>1, <3>2
  <2>2. \A k \in 1..Len(rx_log') : rx_log'[k].rx \in 1..RxTaken' /\ rx_log'[k].tx \in 1..TxTaken'
    <3> SUFFICES ASSUME NEW k \in 1..Len(rx_log')
                 PROVE  rx_log'[k].rx \in 1..(RxTaken + Len(rx)) /\ rx_log'[k].tx \in 1..(TxTaken + 1)
      BY <1>2
    <3>1. CASE k \in 1..Len(rx_log) /\ rx_log'[k] = rx_log[k]
      BY SMTT(20), <1>1, <1>2, <2>1, <3>1
    <3>2. CASE /\ k - Len(rx_log) \in 1..Len(rx) /\ rx_log'[k].tx = TxTaken + 1
               /\ rx_log'[k].rx = RxTaken + (k - Len(rx_log))
      BY SMT, <1>1, <1>2, <3>2
    <3> QED
      BY <1>3, <3>1, <3>2
  <2>3. ASSUME NEW j \in 1..Len(rx_log'), NEW k \in 1..Len(rx_log'), j < k
        PROVE  rx_log'[j].rx < rx_log'[k].rx /\ rx_log'[j].tx <= rx_log'[k].tx
    <3>1. CASE k \in 1..Len(rx_log) /\ rx_log'[k] = rx_log[k]
      <4>1. j \in 1..Len(rx_log) /\ rx_log'[j] = rx_log[j]
        BY SMT, <1>1, <1>2, <2>3, <3>1
      <4> QED
        BY <2>3, <3>1, <4>1 DEF Inv, Logged
    <3>2. CASE /\ k - Len(rx_log) \in 1..Len(rx) /\ rx_log'[k].tx = TxTaken + 1
               /\ rx_log'[k].rx = RxTaken + (k - Len(rx_log))
      <4>1. CASE j \in 1..Len(rx_log) /\ rx_log'[j] = rx_log[j]
        <5>1. /\ rx_log'[j].rx \in Nat /\ rx_log'[j].rx <= RxTaken
              /\ rx_log'[j].tx \in Nat /\ rx_log'[j].tx < TxTaken + 1 /\ TxTaken \in Nat /\ RxTaken \in Nat
          BY <1>1, <2>1, <4>1
        <5>2. PICK m \in 1..Len(rx) : m = k - Len(rx_log)
          BY <3>2
        <5>3. rx_log'[k].rx = RxTaken + m /\ rx_log'[k].tx = TxTaken + 1
          BY <3>2, <5>2
        <5> QED
          BY SMTT(20), <5>1, <5>3
      <4>2. CASE /\ j - Len(rx_log) \in 1..Len(rx) /\ rx_log'[j].tx = TxTaken + 1
                 /\ rx_log'[j].rx = RxTaken + (j - Len(rx_log))
        <5>1. Len(rx_log) \in Nat /\ RxTaken \in Nat /\ TxTaken \in Nat
          BY <1>1
        <5> QED
          BY SMT, <2>3, <3>2, <4>2, <5>1
      <4> QED
        BY <1>3, <4>1, <4>2
    <3> QED
      BY <1>3, <3>1, <3>2
  <2> QED
    BY <2>2, <2>3
<1>5. \A i \in 1..RxTaken' : RxDone(i)' <=> RxDone(i) \/ i > RxTaken
  <2> SUFFICES ASSUME NEW i \in 1..RxTaken'
               PROVE  RxDone(i)' <=> RxDone(i) \/ i > RxTaken
    OBVIOUS
  <2>1. ASSUME RxDone(i)' PROVE RxDone(i) \/ i > RxTaken
    <3>1. PICK k \in 1..Len(rx_log') : rx_log'[k].rx = i
      BY <2>1 DEF RxDone
    <3>2. CASE k \in 1..Len(rx_log) /\ rx_log'[k] = rx_log[k]
      BY <3>1, <3>2 DEF RxDone
    <3>3. CASE /\ k - Len(rx_log) \in 1..Len(rx)
               /\ rx_log'[k].rx = RxTaken + (k - Len(rx_log))
      BY SMT, <1>1, <1>2, <3>1, <3>3
    <3> QED
      BY <1>3, <3>2, <3>3
  <2>2. ASSUME RxDone(i) PROVE RxDone(i)'
    <3>1. PICK k \in 1..Len(rx_log) : rx_log[k].rx = i
      BY <2>2 DEF RxDone
    <3>2. k \in 1..Len(rx_log') /\ rx_log'[k].rx = i
      BY SMT, <1>1, <1>2, <3>1
    <3> QED
      BY <3>2 DEF RxDone
  <2>3. ASSUME i > RxTaken PROVE RxDone(i)'
    <3>1. PICK j \in 1..Len(rx) : i = RxTaken + j
      <4>1. i \in 1..RxTaken \/ \E j \in 1..Len(rx) : i = RxTaken + j /\ j = i - RxTaken
        BY <1>1, <1>2, Beyond
      <4>2. i \notin 1..RxTaken
        BY SMT, <1>1, <2>3
      <4> QED
        BY <4>1, <4>2
    <3>2. Len(rx_log) + j \in 1..Len(rx_log') /\ rx_log'[Len(rx_log) + j].rx = i
      BY SMT, <1>1, <1>2, <3>1
    <3> QED
      BY <3>2 DEF RxDone
  <2> QED
    BY <2>1, <2>2, <2>3
<1>6. discarded' = discarded
  BY DEF Take, pushes
<1>7. \A i \in 1..RxTaken' : RxPlaced(i)'
  <2> SUFFICES ASSUME NEW i \in 1..RxTaken' PROVE RxPlaced(i)'
    OBVIOUS
  <2>1. <<"rx", i>> # <<"tx", TxTaken + 1>>
    BY SMT
  <2>2. <<"rx", i>> \in vanished' <=> <<"rx", i>> \in vanished
    BY <2>1
  <2>3. CASE i \in 1..RxTaken
    <3>1. RxPlaced(i) /\ ~(i > RxTaken)
      BY SMT, <1>1, <2>3 DEF Inv, Placed
    <3> QED
      BY <1>5, <1>6, <2>2, <3>1 DEF RxPlaced
  <2>4. CASE i > RxTaken
    <3>1. i \notin 1..RxTaken
      BY SMT, <1>1, <2>4
    <3>2. <<"rx", i>> \notin discarded /\ <<"rx", i>> \notin vanished
      BY SMT, <3>1 DEF Inv, Placed
    <3> QED
      BY <1>5, <1>6, <2>2, <2>4, <3>2 DEF RxPlaced
  <2>5. i \in 1..RxTaken \/ i > RxTaken
    BY SMT, <1>1, <1>2
  <2> QED
    BY <2>3, <2>4, <2>5
<1>8. <<"tx", TxTaken + 1>> \notin vanished /\ <<"tx", TxTaken + 1>> \notin discarded /\ ~TxDone(TxTaken + 1)
  BY SMT, <1>1 DEF Inv, Placed, TxDone, Logged
<1>9. CASE vanished' = vanished /\ \E code \in Codes : tx_log' = Append(tx_log, [tx |-> TxTaken + 1, code |-> code])
  <2>1. PICK code \in Codes : tx_log' = Append(tx_log, [tx |-> TxTaken + 1, code |-> code])
    BY <1>9
  <2>2. PICK e \in TxEntries : e = [tx |-> TxTaken + 1, code |-> code] /\ e.tx = TxTaken + 1
    <3>1. PICK e : e = [tx |-> TxTaken + 1, code |-> code]
      OBVIOUS
    <3>2. TxTaken + 1 \in Nat
      BY SMT, <1>1
    <3>3. e \in TxEntries /\ e.tx = TxTaken + 1
      BY <3>1, <3>2 DEF TxEntries
    <3> QED
      BY <3>1, <3>3
  <2>3. /\ tx_log' \in Seq(TxEntries) /\ Len(tx_log') = Len(tx_log) + 1
        /\ tx_log'[Len(tx_log) + 1].tx = TxTaken + 1
        /\ \A k \in 1..Len(tx_log) : tx_log'[k] = tx_log[k]
    BY SMT, <1>1, <2>1, <2>2
  <2>4. \A k \in 1..Len(tx_log') : k \in 1..Len(tx_log) \/ k = Len(tx_log) + 1
    BY SMT, <1>1, <2>3
  <2>5. /\ \A k \in 1..Len(tx_log') : tx_log'[k].tx \in 1..TxTaken'
        /\ \A j, k \in 1..Len(tx_log') : j < k => tx_log'[j].tx < tx_log'[k].tx
    <3>1. \A k \in 1..Len(tx_log) : tx_log[k].tx \in 1..TxTaken /\ tx_log[k].tx < TxTaken + 1
      BY SMT, <1>1 DEF Inv, Logged
    <3>2. \A k \in 1..Len(tx_log') : tx_log'[k].tx \in 1..TxTaken'
      BY SMTT(20), <1>1, <1>2, <2>3, <2>4, <3>1
    <3>3. ASSUME NEW j \in 1..Len(tx_log'), NEW k \in 1..Len(tx_log'), j < k
          PROVE  tx_log'[j].tx < tx_log'[k].tx
      <4>1. j \in 1..Len(tx_log)
        BY SMT, <1>1, <2>3, <3>3
      <4>2. CASE k \in 1..Len(tx_log)
        BY <2>3, <3>3, <4>1, <4>2 DEF Inv, Logged
      <4>3. CASE k = Len(tx_log) + 1
        BY <2>3, <3>1, <4>1, <4>3
      <4> QED
        BY <2>4, <4>2, <4>3
    <3> QED
      BY <3>2, <3>3
  <2>6. \A i : TxDone(i)' <=> TxDone(i) \/ i = TxTaken + 1
    <3>1. Len(tx_log) + 1 \in 1..Len(tx_log') /\ \A k \in 1..Len(tx_log) : k \in 1..Len(tx_log')
      BY SMT, <1>1, <2>3
    <3> QED
      BY <2>3, <2>4, <3>1 DEF TxDone
  <2>7. \A i \in 1..TxTaken' : i \in 1..TxTaken \/ i = TxTaken + 1
    BY SMT, <1>1, <1>2
  <2>8. \A i \in 1..TxTaken' : /\ TxDone(i)' \/ <<"tx", i>> \in vanished' \/ <<"tx", i>> \in discarded'
                               /\ ~(TxDone(i)' /\ <<"tx", i>> \in vanished')
                               /\ ~(TxDone(i)' /\ <<"tx", i>> \in discarded')
                               /\ ~(<<"tx", i>> \in vanished' /\ <<"tx", i>> \in discarded')
    <3>1. TxTaken + 1 \notin 1..TxTaken
      BY SMT, <1>1
    <3> QED
      BY <1>6, <1>8, <1>9, <2>6, <2>7, <3>1 DEF Inv, Placed
  <2>9. /\ vanished' \subseteq {<<"tx", i>> : i \in 1..TxTaken'} \cup {<<"rx", i>> : i \in 1..RxTaken'}
        /\ discarded' \subseteq {<<"tx", i>> : i \in 1..TxTaken'} \cup {<<"rx", i>> : i \in 1..RxTaken'}
    <3>1. 1..TxTaken \subseteq 1..TxTaken' /\ 1..RxTaken \subseteq 1..RxTaken'
      BY SMT, <1>1, <1>2
    <3> QED
      BY <1>6, <1>9, <3>1 DEF Inv, Placed
  <2>10. Logged'
    BY <1>4, <2>5 DEF Logged
  <2>11. Placed'
    BY <1>7, <2>8, <2>9 DEF Placed
  <2> QED
    BY <2>3, <2>10, <2>11
<1>10. CASE vanished' = vanished \cup {<<"tx", TxTaken + 1>>} /\ tx_log' = tx_log
  <2>1. \A i : TxDone(i)' <=> TxDone(i)
    BY <1>10 DEF TxDone
  <2>2. \A i \in 1..TxTaken' : i \in 1..TxTaken \/ i = TxTaken + 1
    BY SMT, <1>1, <1>2
  <2>3. \A i \in 1..TxTaken' : /\ TxDone(i)' \/ <<"tx", i>> \in vanished' \/ <<"tx", i>> \in discarded'
                               /\ ~(TxDone(i)' /\ <<"tx", i>> \in vanished')
                               /\ ~(TxDone(i)' /\ <<"tx", i>> \in discarded')
                               /\ ~(<<"tx", i>> \in vanished' /\ <<"tx", i>> \in discarded')
    <3>1. TxTaken + 1 \notin 1..TxTaken /\ \A i : <<"tx", i>> = <<"tx", TxTaken + 1>> => i = TxTaken + 1
      BY SMT, <1>1
    <3> QED
      BY <1>6, <1>8, <1>10, <2>1, <2>2, <3>1 DEF Inv, Placed
  <2>4. /\ vanished' \subseteq {<<"tx", i>> : i \in 1..TxTaken'} \cup {<<"rx", i>> : i \in 1..RxTaken'}
        /\ discarded' \subseteq {<<"tx", i>> : i \in 1..TxTaken'} \cup {<<"rx", i>> : i \in 1..RxTaken'}
    <3>1. 1..TxTaken \subseteq 1..TxTaken' /\ 1..RxTaken \subseteq 1..RxTaken' /\ TxTaken + 1 \in 1..TxTaken'
      BY SMT, <1>1, <1>2
    <3> QED
      BY <1>6, <1>10, <3>1 DEF Inv, Placed
  <2>5. /\ \A k \in 1..Len(tx_log') : tx_log'[k].tx \in 1..TxTaken'
        /\ \A j, k \in 1..Len(tx_log') : j < k => tx_log'[j].tx < tx_log'[k].tx
    <3>1. 1..TxTaken \subseteq 1..TxTaken'
      BY SMT, <1>1, <1>2
    <3> QED
      BY <1>10, <3>1 DEF Inv, Logged
  <2>6. Logged'
    BY <1>4, <2>5 DEF Logged
  <2>7. Placed'
    BY <1>7, <2>3, <2>4 DEF Placed
  <2> QED
    BY <1>1, <1>10, <2>6, <2>7
<1> QED
  BY <1>9, <1>10

(* The end of a packet completed with the code given. *)
Ends(rx, code) ==
  code = "Success" =>
    /\ Len(rx) >= 1
    /\ \/ rx[Len(rx)].code # "Success"
       \/ rx[Len(rx)].seg.from + rx[Len(rx)].seg.size = tx_ring[1].desc.len

(* The segments after such a step. *)
LEMMA Covers ==
  ASSUME Inv, tx_ring # <<>>, NEW rx, OnBehalf(rx), Take(rx),
         \/ \E code \in Codes : /\ tx_log' = Append(tx_log, [tx |-> TxTaken + 1, code |-> code])
                                /\ Ends(rx, code)
         \/ tx_log' = tx_log
  PROVE  Covering'
<1>1. /\ TxTaken \in Nat /\ Len(rx_log) \in Nat /\ Len(tx_log) \in Nat /\ tx_log \in Seq(TxEntries)
  BY Counts DEF Inv, Typed
<1>2. /\ Len(rx_log') = Len(rx_log) + Len(rx) /\ Len(rx) \in Nat
      /\ \A k \in 1..Len(rx_log) : rx_log'[k] = rx_log[k]
      /\ \A k \in 1..Len(rx) : rx_log'[Len(rx_log) + k] = rx[k] /\ rx[k].tx = TxTaken + 1
  BY Taking
<1>3. \A k \in 1..Len(rx_log) : rx_log[k].tx \in 1..TxTaken /\ rx_log[k].tx # TxTaken + 1
  BY SMT, <1>1 DEF Inv, Logged
<1>4. \A k \in 1..Len(rx_log') : Follows(k)'
  <2> SUFFICES ASSUME NEW k \in 1..Len(rx_log')
               PROVE  IF k > 1 /\ rx_log'[k - 1].tx = rx_log'[k].tx
                      THEN rx_log'[k].seg.from = rx_log'[k - 1].seg.from + rx_log'[k - 1].seg.size
                      ELSE rx_log'[k].seg.from = rx_log'[k].seg.header
    BY DEF Follows, Segment
  <2>1. k \in 1..Len(rx_log) \/ \E j \in 1..Len(rx) : k = Len(rx_log) + j /\ j = k - Len(rx_log)
    BY ZenonT(30), <1>1, <1>2, Beyond
  <2>2. CASE k \in 1..Len(rx_log)
    <3>1. rx_log'[k] = rx_log[k] /\ (k > 1 => rx_log'[k - 1] = rx_log[k - 1])
      BY SMTT(20), <1>1, <1>2, <2>2
    <3>2. IF k > 1 /\ rx_log[k - 1].tx = rx_log[k].tx
          THEN rx_log[k].seg.from = rx_log[k - 1].seg.from + rx_log[k - 1].seg.size
          ELSE rx_log[k].seg.from = rx_log[k].seg.header
      BY <2>2 DEF Inv, Covering, Follows, Segment
    <3> QED
      BY <3>1, <3>2
  <2>3. ASSUME NEW j \in 1..Len(rx), k = Len(rx_log) + j
        PROVE  IF k > 1 /\ rx_log'[k - 1].tx = rx_log'[k].tx
               THEN rx_log'[k].seg.from = rx_log'[k - 1].seg.from + rx_log'[k - 1].seg.size
               ELSE rx_log'[k].seg.from = rx_log'[k].seg.header
    <3>1. rx_log'[k] = rx[j] /\ rx[j].tx = TxTaken + 1
      BY <1>2, <2>3
    <3>2. CASE j = 1
      <4>1. k > 1 => k - 1 \in 1..Len(rx_log)
        BY SMT, <1>1, <2>3, <3>2
      <4>2. ~(k > 1 /\ rx_log'[k - 1].tx = rx_log'[k].tx)
        BY <1>2, <1>3, <3>1, <4>1
      <4>3. rx[1].seg.from = rx[1].seg.header
        BY SMT, <1>2, <3>2 DEF OnBehalf
      <4> QED
        BY <3>1, <3>2, <4>2, <4>3
    <3>3. CASE j # 1
      <4>1. j \in 2..Len(rx) /\ j - 1 \in 1..Len(rx) /\ k - 1 = Len(rx_log) + (j - 1) /\ k > 1
        BY SMT, <1>1, <1>2, <2>3, <3>3
      <4>2. rx_log'[k - 1] = rx[j - 1] /\ rx[j - 1].tx = TxTaken + 1
        BY <1>2, <4>1
      <4>3. rx[j].seg.from = rx[j - 1].seg.from + rx[j - 1].seg.size
        BY <4>1 DEF OnBehalf
      <4> QED
        BY <3>1, <4>1, <4>2, <4>3
    <3> QED
      BY <3>2, <3>3
  <2> QED
    BY <2>1, <2>2, <2>3
<1>5. sent' = sent
  BY DEF Take, pushes
<1>6. ASSUME NEW i \in 1..TxTaken, Whole(rx_log, sent, i) PROVE Whole(rx_log', sent', i)
  <2>1. i # TxTaken + 1 /\ \A k \in 1..Len(rx_log) : k \in 1..Len(rx_log')
    BY SMT, <1>1, <1>2
  <2>2. CASE \E k \in 1..Len(rx_log) : rx_log[k].tx = i /\ rx_log[k].code # "Success"
    BY <1>2, <2>1, <2>2 DEF Whole
  <2>3. ASSUME NEW k \in 1..Len(rx_log), rx_log[k].tx = i, k < Len(rx_log) => rx_log[k + 1].tx # i,
               rx_log[k].seg.from + rx_log[k].seg.size = sent[i].len
        PROVE  Whole(rx_log', sent', i)
    <3>1. k < Len(rx_log') => rx_log'[k + 1].tx # i
      <4> SUFFICES ASSUME k < Len(rx_log') PROVE rx_log'[k + 1].tx # i
        OBVIOUS
      <4>1. CASE k < Len(rx_log)
        <5>1. k + 1 \in 1..Len(rx_log)
          BY SMT, <1>1, <4>1
        <5> QED
          BY <1>2, <2>3, <4>1, <5>1
      <4>2. CASE k = Len(rx_log)
        <5>1. 1 \in 1..Len(rx)
          BY SMT, <1>1, <1>2, <4>2
        <5> QED
          BY <1>2, <2>1, <4>2, <5>1
      <4> QED
        BY SMT, <1>1, <4>1, <4>2
    <3>2. k \in 1..Len(rx_log') /\ rx_log'[k] = rx_log[k]
      BY <1>2, <2>1
    <3> QED
      BY <1>5, <2>3, <3>1, <3>2 DEF Whole
  <2> QED
    BY <1>6, <2>2, <2>3 DEF Whole
<1>7. \A k \in 1..Len(tx_log) : /\ tx_log[k].tx \in 1..TxTaken
                                /\ tx_log[k].code = "Success" => Whole(rx_log', sent', tx_log[k].tx)
  BY <1>6 DEF Inv, Logged, Covering
<1>8. CASE tx_log' = tx_log
  BY <1>4, <1>7, <1>8 DEF Covering
<1>9. ASSUME NEW code \in Codes, tx_log' = Append(tx_log, [tx |-> TxTaken + 1, code |-> code]),
             Ends(rx, code)
      PROVE  Covering'
  <2>1. PICK e : e = [tx |-> TxTaken + 1, code |-> code]
    OBVIOUS
  <2>2. e \in TxEntries /\ e.tx = TxTaken + 1 /\ e.code = code
    <3>1. TxTaken + 1 \in Nat
      BY SMT, <1>1
    <3> QED
      BY <2>1, <3>1 DEF TxEntries
  <2>3. /\ Len(tx_log') = Len(tx_log) + 1 /\ tx_log'[Len(tx_log) + 1] = e
        /\ \A k \in 1..Len(tx_log) : tx_log'[k] = tx_log[k]
    BY SMT, <1>1, <1>9, <2>1, <2>2
  <2>4. \A k \in 1..Len(tx_log') : k \in 1..Len(tx_log) \/ k = Len(tx_log) + 1
    BY SMT, <1>1, <2>3
  <2>5. code = "Success" => Whole(rx_log', sent', TxTaken + 1)
    <3> SUFFICES ASSUME code = "Success" PROVE Whole(rx_log', sent', TxTaken + 1)
      OBVIOUS
    <3>1. PICK n \in 1..Len(rx) : n = Len(rx)
      BY SMT, <1>2, <1>9 DEF Ends
    <3>2. rx[n].code # "Success" \/ rx[n].seg.from + rx[n].seg.size = tx_ring[1].desc.len
      BY <1>9, <3>1 DEF Ends
    <3>3. PICK k \in 1..Len(rx_log') : k = Len(rx_log) + n /\ ~(k < Len(rx_log'))
      BY SMT, <1>1, <1>2, <3>1
    <3>4. rx_log'[k] = rx[n] /\ rx_log'[k].tx = TxTaken + 1
      BY <1>2, <3>3
    <3>5. tx_ring[1].desc = sent[TxTaken + 1]
      <4>1. 1 \in 1..Len(tx_ring)
        BY SMT DEF Inv, Typed
      <4> QED
        BY <4>1 DEF Inv, Indexed
    <3>6. CASE rx[n].code # "Success"
      BY <3>4, <3>6 DEF Whole
    <3>7. CASE rx[n].seg.from + rx[n].seg.size = tx_ring[1].desc.len
      BY <1>5, <3>3, <3>4, <3>5, <3>7 DEF Whole
    <3> QED
      BY <3>2, <3>6, <3>7
  <2>6. ASSUME NEW k \in 1..Len(tx_log'), tx_log'[k].code = "Success" PROVE Whole(rx_log', sent', tx_log'[k].tx)
    <3>1. CASE k \in 1..Len(tx_log)
      BY <1>7, <2>3, <2>6, <3>1
    <3>2. CASE k = Len(tx_log) + 1
      BY <2>2, <2>3, <2>5, <2>6, <3>2
    <3> QED
      BY <2>4, <3>1, <3>2
  <2> QED
    BY <1>4, <2>6 DEF Covering
<1> QED
  BY <1>8, <1>9

-----------------------------------------------------------------------------
(* A completion queue keeps within its size. *)
LEMMA Posting ==
  ASSUME NEW S, NEW cq \in Seq(S), NEW entries \in Seq(S), NEW size \in Nat, Len(cq) <= size
  PROVE  Posted(cq, entries, size) \in Seq(S) /\ Len(Posted(cq, entries, size)) <= size
<1>1. Len(cq) \in Nat /\ Len(entries) \in Nat
  BY SMT
<1>2. PICK m \in Nat : m = Smaller(Len(entries), size - Len(cq))
  BY SMT, <1>1 DEF Smaller
<1>3. m <= Len(entries) /\ m <= size - Len(cq)
  BY SMT, <1>1, <1>2 DEF Smaller
<1>4. \A i \in 1..m : entries[i] \in S
  BY SMT, <1>1, <1>3
<1>5. PICK t : t = SubSeq(entries, 1, m)
  OBVIOUS
<1>6. t \in Seq(S) /\ Len(t) = m
  <2>1. SubSeq(entries, 1, m) \in Seq(S) /\ Len(SubSeq(entries, 1, m)) = IF 1 <= m THEN m - 1 + 1 ELSE 0
    BY SMT, <1>4, Slice
  <2> QED
    BY SMT, <1>5, <2>1
<1>7. Posted(cq, entries, size) = cq \o t
  BY <1>2, <1>5 DEF Posted
<1>8. cq \o t \in Seq(S) /\ Len(cq \o t) = Len(cq) + m
  BY SMT, <1>6
<1> QED
  BY SMT, <1>1, <1>3, <1>7, <1>8

(* The dispatcher hears of all that is added, or of nothing. *)
LEMMA Events ==
  ASSUME NEW m \in Nat, NEW taken \in Nat, NEW n \in Nat, m <= taken, NEW told
  PROVE  m + (IF told THEN n ELSE 0) \in 0..(taken + n)
<1>1. CASE told
  BY SMT, <1>1
<1>2. CASE ~told
  BY SMT, <1>2
<1> QED
  BY <1>1, <1>2

(* The descriptor is completed. *)
LEMMA Finishing ==
  ASSUME Inv, tx_ring # <<>>, NEW t, t = Head(tx_ring), NEW code \in Codes, NEW rx, OnBehalf(rx),
         Ends(rx, code), NEW interrupt \in BOOLEAN, Finish(t, code, rx, interrupt)
  PROVE  Inv'
<1>1. t.index = TxTaken + 1
  <2>1. 1 \in 1..Len(tx_ring) /\ Head(tx_ring) = tx_ring[1]
    BY SMT DEF Inv, Typed
  <2> QED
    BY <2>1 DEF Inv, Indexed
<1>2. Take(rx) /\ vanished' = vanished /\ tx_log' = Append(tx_log, [tx |-> TxTaken + 1, code |-> code])
  BY <1>1 DEF Finish, Take
<1>3. tx_log' \in Seq(TxEntries) /\ Logged' /\ Placed' /\ Covering'
  BY <1>2, Placing, Covers
<1>4. /\ tx_ring' \in Seq(TxSlots) /\ rx_ring' \in Seq(RxSlots) /\ rx_log' \in Seq(RxEntries)
      /\ Len(tx_ring') = Len(tx_ring) - 1 /\ Len(rx_ring') = Len(rx_ring) - Len(rx) /\ Len(rx) \in Nat
      /\ TxTaken' = TxTaken + 1 /\ RxTaken' = RxTaken + Len(rx) /\ Indexed'
  BY <1>2, Taking
<1>5. /\ Len(sent) \in Nat /\ Len(tx_ring) \in Nat /\ pushed_rx \in Nat /\ Len(rx_ring) \in Nat
      /\ TxTaken \in Nat /\ RxTaken \in Nat
      /\ {TxRingSize, RxRingSize, TxCqSize, RxCqSize, MaxTx, MaxRx} \subseteq Nat
  BY Counts DEF Inv
<1>6. /\ tx_cq \in Seq(TxEntries) /\ Len(tx_cq) <= TxCqSize /\ rx_cq \in Seq(RxEntries) /\ Len(rx_cq) <= RxCqSize
      /\ Len(tx_ring) <= TxRingSize /\ Len(tx_ring) <= Len(sent)
      /\ Len(rx_ring) <= RxRingSize /\ Len(rx_ring) <= pushed_rx
      /\ tx_events \in 0..TxTaken /\ rx_events \in 0..RxTaken
  BY DEF Inv, Typed
<1>7. tx_cq' \in Seq(TxEntries) /\ Len(tx_cq') <= TxCqSize
  <2>1. PICK e : e = [tx |-> TxTaken + 1, code |-> code]
    OBVIOUS
  <2>2. TxTaken + 1 \in Nat
    BY SMT, <1>5
  <2>3. e \in TxEntries
    BY <2>1, <2>2 DEF TxEntries
  <2>4. <<e>> \in Seq(TxEntries)
    BY SMT, <2>3
  <2>5. tx_cq' = Posted(tx_cq, <<e>>, TxCqSize)
    BY <1>1, <2>1 DEF Finish
  <2> QED
    BY <1>5, <1>6, <2>4, <2>5, Posting
<1>8. rx_cq' \in Seq(RxEntries) /\ Len(rx_cq') <= RxCqSize
  <2>1. rx \in Seq(RxEntries) /\ rx_cq' = Posted(rx_cq, rx, RxCqSize)
    BY DEF Finish, OnBehalf
  <2> QED
    BY <1>5, <1>6, <2>1, Posting
<1>9. tx_events' \in 0..TxTaken'
  <2>1. tx_events \in Nat /\ tx_events <= TxTaken
    BY SMT, <1>5, <1>6
  <2>2. tx_events + (IF interrupt /\ enable_tx_interrupts THEN 1 ELSE 0) \in 0..(TxTaken + 1)
    BY <1>5, <2>1, Events
  <2> QED
    BY <1>4, <2>2 DEF Finish
<1>10. rx_events' \in 0..RxTaken'
  <2>1. rx_events \in Nat /\ rx_events <= RxTaken
    BY SMT, <1>5, <1>6
  <2>2. rx_events + (IF enable_rx_interrupts THEN Len(rx) ELSE 0) \in 0..(RxTaken + Len(rx))
    BY <1>4, <1>5, <2>1, Events
  <2> QED
    BY <1>4, <2>2 DEF Finish
<1>11. sent' = sent /\ pushed_rx' = pushed_rx /\ worked' \in BOOLEAN
  BY DEF Finish, pushes
<1>12. Len(rx) <= Len(rx_ring)
  BY DEF OnBehalf
<1>13. /\ Len(tx_ring') <= TxRingSize /\ Len(tx_ring') <= Len(sent')
       /\ Len(rx_ring') <= RxRingSize /\ Len(rx_ring') <= pushed_rx'
  <2>1. TxRingSize \in Nat /\ RxRingSize \in Nat
    BY <1>5
  <2>2. Len(tx_ring) - 1 <= TxRingSize /\ Len(tx_ring) - 1 <= Len(sent)
    BY SMT, <1>5, <1>6, <2>1
  <2>3. Len(rx_ring) - Len(rx) <= RxRingSize /\ Len(rx_ring) - Len(rx) <= pushed_rx
    <3>1. /\ Len(rx) \in Nat /\ Len(rx_ring) \in Nat /\ pushed_rx \in Nat
          /\ Len(rx_ring) <= RxRingSize /\ Len(rx_ring) <= pushed_rx
      BY <1>4, <1>5, <1>6
    <3> QED
      BY SMT, <2>1, <3>1
  <2> QED
    BY <1>4, <1>11, <2>2, <2>3
<1>14. sent' \in Seq(TxDescriptors) /\ Len(sent') <= MaxTx /\ pushed_rx' \in 0..MaxRx
  BY <1>11 DEF Inv, Typed
<1>15. Typed'
  BY <1>3, <1>4, <1>7, <1>8, <1>9, <1>10, <1>11, <1>13, <1>14 DEF Typed
<1> QED
  BY <1>3, <1>4, <1>15 DEF Inv

(* The descriptor is lost: the next receive descriptor cannot be popped. *)
LEMMA Losing ==
  ASSUME Inv, tx_ring # <<>>, NEW rx, OnBehalf(rx), Take(rx),
         vanished' = vanished \cup {<<"tx", Head(tx_ring).index>>}, tx_log' = tx_log,
         tx_cq' = tx_cq, tx_events' = tx_events, worked' = FALSE,
         rx_cq' = Posted(rx_cq, rx, RxCqSize),
         rx_events' = rx_events + (IF enable_rx_interrupts THEN Len(rx) ELSE 0)
  PROVE  Inv'
<1>1. Head(tx_ring).index = TxTaken + 1
  <2>1. 1 \in 1..Len(tx_ring) /\ Head(tx_ring) = tx_ring[1]
    BY SMT DEF Inv, Typed
  <2> QED
    BY <2>1 DEF Inv, Indexed
<1>2. tx_log' \in Seq(TxEntries) /\ Logged' /\ Placed' /\ Covering'
  BY <1>1, Placing, Covers
<1>3. /\ tx_ring' \in Seq(TxSlots) /\ rx_ring' \in Seq(RxSlots) /\ rx_log' \in Seq(RxEntries)
      /\ Len(tx_ring') = Len(tx_ring) - 1 /\ Len(rx_ring') = Len(rx_ring) - Len(rx) /\ Len(rx) \in Nat
      /\ TxTaken' = TxTaken + 1 /\ RxTaken' = RxTaken + Len(rx) /\ Indexed'
  BY Taking
<1>4. /\ Len(sent) \in Nat /\ Len(tx_ring) \in Nat /\ pushed_rx \in Nat /\ Len(rx_ring) \in Nat
      /\ TxTaken \in Nat /\ RxTaken \in Nat
      /\ {TxRingSize, RxRingSize, TxCqSize, RxCqSize, MaxTx, MaxRx} \subseteq Nat
  BY Counts DEF Inv
<1>5. /\ tx_cq \in Seq(TxEntries) /\ Len(tx_cq) <= TxCqSize /\ rx_cq \in Seq(RxEntries) /\ Len(rx_cq) <= RxCqSize
      /\ Len(tx_ring) <= TxRingSize /\ Len(tx_ring) <= Len(sent)
      /\ Len(rx_ring) <= RxRingSize /\ Len(rx_ring) <= pushed_rx
      /\ tx_events \in 0..TxTaken /\ rx_events \in 0..RxTaken
      /\ rx \in Seq(RxEntries) /\ Len(rx) <= Len(rx_ring)
  BY DEF Inv, Typed, OnBehalf
<1>6. rx_cq' \in Seq(RxEntries) /\ Len(rx_cq') <= RxCqSize
  BY <1>4, <1>5, Posting
<1>7. rx_events' \in 0..RxTaken'
  <2>1. rx_events \in Nat /\ rx_events <= RxTaken
    BY SMT, <1>4, <1>5
  <2>2. rx_events + (IF enable_rx_interrupts THEN Len(rx) ELSE 0) \in 0..(RxTaken + Len(rx))
    BY <1>3, <1>4, <2>1, Events
  <2> QED
    BY <1>3, <2>2
<1>8. sent' = sent /\ pushed_rx' = pushed_rx /\ worked' \in BOOLEAN
  BY DEF Take, pushes
<1>9. /\ Len(tx_ring') <= TxRingSize /\ Len(tx_ring') <= Len(sent')
      /\ Len(rx_ring') <= RxRingSize /\ Len(rx_ring') <= pushed_rx'
      /\ tx_events' \in 0..TxTaken'
  <2>1. TxRingSize \in Nat /\ RxRingSize \in Nat
    BY <1>4
  <2>2. Len(tx_ring) - 1 <= TxRingSize /\ Len(tx_ring) - 1 <= Len(sent)
    BY SMTT(20), <1>4, <1>5, <2>1
  <2>3. Len(rx_ring) - Len(rx) <= RxRingSize /\ Len(rx_ring) - Len(rx) <= pushed_rx
    <3>1. /\ Len(rx) \in Nat /\ Len(rx_ring) \in Nat /\ pushed_rx \in Nat
          /\ Len(rx_ring) <= RxRingSize /\ Len(rx_ring) <= pushed_rx
      BY <1>3, <1>4, <1>5
    <3> QED
      BY SMT, <2>1, <3>1
  <2>4. tx_events \in 0..(TxTaken + 1)
    BY SMT, <1>4, <1>5
  <2> QED
    BY <1>3, <1>8, <2>2, <2>3, <2>4
<1>10. sent' \in Seq(TxDescriptors) /\ Len(sent') <= MaxTx /\ pushed_rx' \in 0..MaxRx
  BY <1>8 DEF Inv, Typed
<1>11. Typed'
  BY <1>2, <1>3, <1>5, <1>6, <1>7, <1>8, <1>9, <1>10 DEF Typed
<1> QED
  BY <1>2, <1>3, <1>11 DEF Inv

(* The descriptor is lost, and with it the receive descriptor popped for    *)
(* it, which cannot be decoded.                                             *)
LEMMA Dropping ==
  ASSUME Inv, tx_ring # <<>>, rx_ring # <<>>, tx_ring' = Tail(tx_ring), rx_ring' = Tail(rx_ring),
         UNCHANGED <<tx_log, rx_log, tx_cq, tx_events, rx_events, sent, pushed_rx, discarded>>,
         rx_cq' \in Seq(RxEntries), Len(rx_cq') <= RxCqSize, worked' = FALSE,
         vanished' = vanished \cup {<<"tx", TxTaken + 1>>, <<"rx", RxTaken + 1>>}
  PROVE  Inv'
<1>1. /\ Len(sent) \in Nat /\ Len(tx_ring) \in Nat /\ pushed_rx \in Nat /\ Len(rx_ring) \in Nat
      /\ TxTaken \in Nat /\ RxTaken \in Nat
  BY Counts DEF Inv
<1>2. /\ tx_ring \in Seq(TxSlots) /\ rx_ring \in Seq(RxSlots)
      /\ Len(tx_ring) <= TxRingSize /\ Len(tx_ring) <= Len(sent)
      /\ Len(rx_ring) <= RxRingSize /\ Len(rx_ring) <= pushed_rx
      /\ TxRingSize \in Nat /\ RxRingSize \in Nat
  BY QueuePairAssumption DEF Inv, Typed
<1>3. /\ tx_ring' \in Seq(TxSlots) /\ Len(tx_ring') = Len(tx_ring) - 1
      /\ \A k \in 1..Len(tx_ring') : k + 1 \in 1..Len(tx_ring) /\ tx_ring'[k] = tx_ring[k + 1]
  BY SMT, <1>2
<1>4. /\ rx_ring' \in Seq(RxSlots) /\ Len(rx_ring') = Len(rx_ring) - 1
      /\ \A k \in 1..Len(rx_ring') : k + 1 \in 1..Len(rx_ring) /\ rx_ring'[k] = rx_ring[k + 1]
  BY SMT, <1>2
<1>5. TxTaken' = TxTaken + 1 /\ RxTaken' = RxTaken + 1
  <2>1. /\ Len(sent) - (Len(tx_ring) - 1) = (Len(sent) - Len(tx_ring)) + 1
        /\ pushed_rx - (Len(rx_ring) - 1) = (pushed_rx - Len(rx_ring)) + 1
    BY SMT, <1>1
  <2> QED
    BY <1>3, <1>4, <2>1 DEF TxTaken, RxTaken
<1>6. /\ 1..TxTaken \subseteq 1..TxTaken' /\ 1..RxTaken \subseteq 1..RxTaken'
      /\ 0..TxTaken \subseteq 0..TxTaken' /\ 0..RxTaken \subseteq 0..RxTaken'
      /\ TxTaken + 1 \in 1..TxTaken' /\ RxTaken + 1 \in 1..RxTaken'
      /\ TxTaken + 1 \notin 1..TxTaken /\ RxTaken + 1 \notin 1..RxTaken
      /\ \A i \in 1..TxTaken' : i \in 1..TxTaken \/ i = TxTaken + 1
      /\ \A i \in 1..RxTaken' : i \in 1..RxTaken \/ i = RxTaken + 1
  BY SMT, <1>1, <1>5
<1>7. Typed'
  <2>1. /\ Len(tx_ring') <= TxRingSize /\ Len(tx_ring') <= Len(sent)
        /\ Len(rx_ring') <= RxRingSize /\ Len(rx_ring') <= pushed_rx
    BY SMT, <1>1, <1>2, <1>3, <1>4
  <2>2. worked' \in BOOLEAN
    OBVIOUS
  <2>3. tx_events' \in 0..TxTaken' /\ rx_events' \in 0..RxTaken'
    BY <1>6 DEF Inv, Typed
  <2> QED
    BY <1>3, <1>4, <2>1, <2>2, <2>3 DEF Inv, Typed
<1>8. Indexed'
  <2>1. ASSUME NEW k \in 1..Len(tx_ring')
        PROVE  tx_ring'[k].index = TxTaken' + k /\ tx_ring'[k].desc = sent'[TxTaken' + k]
    <3>1. TxTaken + (k + 1) = (TxTaken + 1) + k
      BY SMT, <1>1
    <3> QED
      BY <1>3, <1>5, <3>1 DEF Inv, Indexed
  <2>2. ASSUME NEW k \in 1..Len(rx_ring') PROVE rx_ring'[k].index = RxTaken' + k
    <3>1. RxTaken + (k + 1) = (RxTaken + 1) + k
      BY SMT, <1>1
    <3> QED
      BY <1>4, <1>5, <3>1 DEF Inv, Indexed
  <2> QED
    BY <2>1, <2>2 DEF Indexed
<1>9. Logged'
  BY <1>6 DEF Inv, Logged
<1>10. Placed'
  <2>1. /\ \A i : (TxDone(i)' <=> TxDone(i)) /\ (RxDone(i)' <=> RxDone(i))
        /\ ~TxDone(TxTaken + 1) /\ ~RxDone(RxTaken + 1)
    BY <1>6 DEF TxDone, RxDone, Inv, Logged
  <2>2. /\ \A i : <<"tx", i>> \in vanished' <=> <<"tx", i>> \in vanished \/ i = TxTaken + 1
        /\ \A i : <<"rx", i>> \in vanished' <=> <<"rx", i>> \in vanished \/ i = RxTaken + 1
    BY SMT
  <2>3. /\ \A i : <<"tx", i>> \in vanished \cup discarded => i \in 1..TxTaken
        /\ \A i : <<"rx", i>> \in vanished \cup discarded => i \in 1..RxTaken
    BY SMT DEF Inv, Placed
  <2>4. /\ vanished' \subseteq {<<"tx", i>> : i \in 1..TxTaken'} \cup {<<"rx", i>> : i \in 1..RxTaken'}
        /\ discarded' \subseteq {<<"tx", i>> : i \in 1..TxTaken'} \cup {<<"rx", i>> : i \in 1..RxTaken'}
    BY <1>6 DEF Inv, Placed
  <2>5. ASSUME NEW i \in 1..TxTaken'
        PROVE  /\ TxDone(i)' \/ <<"tx", i>> \in vanished' \/ <<"tx", i>> \in discarded'
               /\ ~(TxDone(i)' /\ <<"tx", i>> \in vanished')
               /\ ~(TxDone(i)' /\ <<"tx", i>> \in discarded')
               /\ ~(<<"tx", i>> \in vanished' /\ <<"tx", i>> \in discarded')
    <3>1. CASE i \in 1..TxTaken
      BY <1>6, <2>1, <2>2, <3>1 DEF Inv, Placed
    <3>2. CASE i = TxTaken + 1
      BY <1>6, <2>1, <2>2, <2>3, <3>2
    <3> QED
      BY <1>6, <3>1, <3>2
  <2>6. ASSUME NEW i \in 1..RxTaken' PROVE RxPlaced(i)'
    <3>1. CASE i \in 1..RxTaken
      <4>1. RxPlaced(i)
        BY <3>1 DEF Inv, Placed
      <4> QED
        BY <1>6, <2>1, <2>2, <3>1, <4>1 DEF RxPlaced
    <3>2. CASE i = RxTaken + 1
      BY <1>6, <2>1, <2>2, <2>3, <3>2 DEF RxPlaced
    <3> QED
      BY <1>6, <3>1, <3>2
  <2> QED
    BY <2>4, <2>5, <2>6 DEF Placed
<1>11. Covering'
  BY DEF Inv, Covering, Follows, Segment
<1> QED
  BY <1>7, <1>8, <1>9, <1>10, <1>11 DEF Inv

(* The two ways process_once has to lose a descriptor. *)
LEMMA Abandoning ==
  ASSUME Inv, tx_ring # <<>>, NEW rx, OnBehalf(rx), NEW popped, Abandon(Head(tx_ring), rx, popped),
         popped = Len(rx) \/ (rx = <<>> /\ popped = 1 /\ rx_ring # <<>>)
  PROVE  Inv'
<1>1. /\ tx_ring' = Tail(tx_ring) /\ rx_ring' = SubSeq(rx_ring, popped + 1, Len(rx_ring))
      /\ rx_cq' = Posted(rx_cq, rx, RxCqSize) /\ rx_log' = rx_log \o rx
      /\ rx_events' = rx_events + (IF enable_rx_interrupts THEN Len(rx) ELSE 0)
      /\ worked' = FALSE /\ UNCHANGED <<tx_cq, tx_log, tx_events, pushes>>
      /\ vanished' = vanished \cup {<<"tx", Head(tx_ring).index>>}
                              \cup {<<"rx", rx_ring[j].index>> : j \in (Len(rx) + 1)..popped}
  BY DEF Abandon
<1>2. CASE popped = Len(rx)
  <2>1. Len(rx) \in Nat
    BY SMT DEF OnBehalf
  <2>2. (Len(rx) + 1)..popped = {}
    BY SMT, <1>2, <2>1
  <2>3. vanished' = vanished \cup {<<"tx", Head(tx_ring).index>>}
    BY <1>1, <2>2
  <2>4. Take(rx)
    BY <1>1, <1>2 DEF Take
  <2> QED
    BY <1>1, <2>3, <2>4, Losing
<1>3. CASE rx = <<>> /\ popped = 1 /\ rx_ring # <<>>
  <2>1. /\ tx_ring \in Seq(TxSlots) /\ rx_ring \in Seq(RxSlots) /\ rx_log \in Seq(RxEntries)
        /\ rx_cq \in Seq(RxEntries) /\ Len(rx_cq) <= RxCqSize /\ RxCqSize \in Nat
        /\ rx \in Seq(RxEntries)
    BY QueuePairAssumption DEF Inv, Typed, OnBehalf
  <2>2. /\ Len(rx) = 0 /\ Len(rx_ring) \in Nat /\ Len(rx_ring) >= 1 /\ rx_log \o rx = rx_log
        /\ 1 \in 1..Len(tx_ring) /\ 1 \in 1..Len(rx_ring) /\ Head(tx_ring) = tx_ring[1]
    BY SMT, <1>3, <2>1
  <2>3. rx_ring' = Tail(rx_ring)
    <3>1. rx_ring' = SubSeq(rx_ring, 2, Len(rx_ring))
      BY SMT, <1>1, <1>3
    <3> QED
      BY SMT, <1>3, <2>1, <2>2, <3>1
  <2>4. rx_events' = rx_events
    <3>1. rx_events' = rx_events + 0 /\ rx_events \in 0..RxTaken /\ RxTaken \in Nat
      BY <1>1, <2>2, Counts DEF Inv, Typed
    <3> QED
      BY SMT, <3>1
  <2>5. rx_cq' \in Seq(RxEntries) /\ Len(rx_cq') <= RxCqSize
    BY <1>1, <2>1, Posting
  <2>6. tx_ring[1].index = TxTaken + 1 /\ rx_ring[1].index = RxTaken + 1
    BY <2>2 DEF Inv, Indexed
  <2>7. (Len(rx) + 1)..popped = {1}
    BY SMT, <1>3, <2>2
  <2>8. vanished' = vanished \cup {<<"tx", TxTaken + 1>>, <<"rx", RxTaken + 1>>}
    <3>1. {<<"rx", rx_ring[j].index>> : j \in (Len(rx) + 1)..popped} = {<<"rx", RxTaken + 1>>}
      BY <2>6, <2>7
    <3>2. vanished' = vanished \cup {<<"tx", TxTaken + 1>>} \cup {<<"rx", RxTaken + 1>>}
      BY <1>1, <2>2, <2>6, <3>1
    <3> QED
      BY <3>2
  <2> QED
    BY <1>1, <1>3, <2>2, <2>3, <2>4, <2>5, <2>8, Dropping DEF pushes
<1> QED
  BY <1>2, <1>3

-----------------------------------------------------------------------------
(* What the loop over the segments reports is on behalf of its descriptor. *)
Segmenting(t, segs) ==
  /\ t = Head(tx_ring) /\ segs \in Seq(Segs) /\ Len(segs) >= 1 /\ Len(rx_ring) >= Len(segs)
  /\ segs[1].from = segs[1].header
  /\ \A k \in 2..Len(segs) : segs[k].from = segs[k - 1].from + segs[k - 1].size
  /\ segs[Len(segs)].from + segs[Len(segs)].size = t.desc.len

(* One receive completion. *)
LEMMA Receiving ==
  ASSUME Inv, tx_ring # <<>>, NEW t, NEW segs, Segmenting(t, segs), NEW k \in 1..Len(segs), NEW code \in Codes
  PROVE  LET r == Received(t, segs, k, code)
         IN  /\ r \in RxEntries /\ r.code = code
             /\ r.rx = rx_ring[k].index /\ r.tx = Head(tx_ring).index /\ r.seg = segs[k]
<1>1. PICK r : r = Received(t, segs, k, code)
  OBVIOUS
<1>2. r = [rx |-> rx_ring[k].index, code |-> code, tx |-> t.index, seg |-> segs[k]]
  BY <1>1 DEF Received
<1>3. tx_ring \in Seq(TxSlots) /\ rx_ring \in Seq(RxSlots)
  BY DEF Inv, Typed
<1>4. t \in TxSlots /\ t = Head(tx_ring)
  BY SMT, <1>3 DEF Segmenting
<1>5. segs[k] \in Segs /\ k \in 1..Len(rx_ring)
  BY SMT, <1>3 DEF Segmenting
<1>6. rx_ring[k] \in RxSlots
  BY SMT, <1>3, <1>5
<1>7. rx_ring[k].index \in Nat /\ t.index \in Nat
  BY <1>4, <1>6 DEF TxSlots, RxSlots
<1>8. r \in RxEntries
  BY <1>2, <1>5, <1>7 DEF RxEntries
<1> QED
  BY SMT, <1>1, <1>2, <1>4, <1>8

(* The first n of them, whatever their codes. *)
LEMMA Reporting ==
  ASSUME Inv, tx_ring # <<>>, NEW t, NEW segs, Segmenting(t, segs), NEW rx \in Seq(RxEntries), Len(rx) <= Len(segs),
         \A j \in 1..Len(rx) : \E code \in Codes : rx[j] = Received(t, segs, j, code)
  PROVE  OnBehalf(rx)
<1>1. Len(segs) \in Nat /\ Len(rx) \in Nat /\ Len(rx_ring) \in Nat /\ Len(rx_ring) >= Len(segs)
  <2>1. segs \in Seq(Segs) /\ rx_ring \in Seq(RxSlots) /\ Len(rx_ring) >= Len(segs)
    BY DEF Segmenting, Inv, Typed
  <2> QED
    BY SMT, <2>1
<1>2. \A j \in 1..Len(rx) : j \in 1..Len(segs)
  BY SMT, <1>1
<1>3. \A j \in 1..Len(rx) : rx[j].rx = rx_ring[j].index /\ rx[j].tx = Head(tx_ring).index /\ rx[j].seg = segs[j]
  BY SMT, <1>2, Receiving
<1>4. Len(rx) >= 1 => rx[1].seg.from = rx[1].seg.header
  BY SMT, <1>1, <1>3 DEF Segmenting
<1>5. ASSUME NEW j \in 2..Len(rx) PROVE rx[j].seg.from = rx[j - 1].seg.from + rx[j - 1].seg.size
  <2>1. j \in 1..Len(rx) /\ j - 1 \in 1..Len(rx) /\ j \in 2..Len(segs)
    BY SMT, <1>1
  <2> QED
    BY <1>3, <2>1 DEF Segmenting
<1> QED
  BY SMT, <1>1, <1>3, <1>4, <1>5 DEF OnBehalf

(* The successes before the segment that ends the loop. *)
LEMMA Succeeding ==
  ASSUME Inv, tx_ring # <<>>, NEW t, NEW segs, Segmenting(t, segs), NEW n \in 0..Len(segs)
  PROVE  LET rx == Successes(t, segs, n)
         IN  /\ rx \in Seq(RxEntries) /\ Len(rx) = n /\ OnBehalf(rx)
             /\ \A j \in 1..n : rx[j] = Received(t, segs, j, "Success")
<1>1. PICK rx : rx = Successes(t, segs, n)
  OBVIOUS
<1>2. Len(segs) \in Nat /\ "Success" \in Codes
  BY SMT DEF Segmenting, Codes
<1>3. ASSUME NEW j \in 1..n PROVE Received(t, segs, j, "Success") \in RxEntries
  <2>1. j \in 1..Len(segs)
    BY SMT, <1>2
  <2> QED
    BY <1>2, <2>1, Receiving
<1>4. rx \in [1..n -> RxEntries] /\ \A j \in 1..n : rx[j] = Received(t, segs, j, "Success")
  BY <1>1, <1>3 DEF Successes
<1>5. rx \in Seq(RxEntries) /\ Len(rx) = n
  BY SMT, <1>2, <1>4
<1>6. OnBehalf(rx)
  BY SMT, <1>2, <1>4, <1>5, Reporting
<1> QED
  BY <1>1, <1>4, <1>5, <1>6

(* The successes and the segment that ends the loop. *)
LEMMA Ending ==
  ASSUME Inv, tx_ring # <<>>, NEW t, NEW segs, Segmenting(t, segs), NEW k \in 1..Len(segs), NEW code \in Codes
  PROVE  LET rx == Append(Successes(t, segs, k - 1), Received(t, segs, k, code))
         IN  OnBehalf(rx) /\ Len(rx) = k /\ rx[k].code = code
<1>1. PICK before : before = Successes(t, segs, k - 1)
  OBVIOUS
<1>2. Len(segs) \in Nat
  BY SMT DEF Segmenting
<1>3. k - 1 \in 0..Len(segs)
  BY SMT, <1>2
<1>4. /\ before \in Seq(RxEntries) /\ Len(before) = k - 1
      /\ \A j \in 1..(k - 1) : before[j] = Received(t, segs, j, "Success")
  BY <1>1, <1>3, Succeeding
<1>5. PICK r : r = Received(t, segs, k, code)
  OBVIOUS
<1>6. r \in RxEntries /\ r.code = code
  BY SMT, <1>5, Receiving
<1>7. PICK rx : rx = Append(before, r)
  OBVIOUS
<1>8. /\ rx \in Seq(RxEntries) /\ Len(rx) = k /\ rx[k] = r
      /\ \A j \in 1..(k - 1) : rx[j] = before[j]
  BY SMT, <1>4, <1>6, <1>7
<1>9. "Success" \in Codes /\ \A j \in 1..k : j \in 1..(k - 1) \/ j = k
  BY SMT DEF Codes
<1>10. \A j \in 1..k : \E c \in Codes : rx[j] = Received(t, segs, j, c)
  BY <1>4, <1>5, <1>8, <1>9
<1>11. OnBehalf(rx)
  BY SMT, <1>2, <1>8, <1>10, Reporting
<1> QED
  BY <1>1, <1>5, <1>6, <1>7, <1>8, <1>11

(* The loop over the segments. *)
LEMMA Looping ==
  ASSUME Inv, tx_ring # <<>>, NEW t, NEW segs, Segmenting(t, segs), process_segments(t, segs)
  PROVE  Inv'
<1>1. /\ t = Head(tx_ring) /\ Len(segs) \in Nat /\ Len(segs) >= 1 /\ DOMAIN segs = 1..Len(segs)
      /\ tx_ring[1] = t
  <2>1. t = Head(tx_ring) /\ segs \in Seq(Segs) /\ Len(segs) >= 1 /\ tx_ring \in Seq(TxSlots)
    BY DEF Segmenting, Inv, Typed
  <2>2. tx_ring[1] = Head(tx_ring)
    BY SMT, <2>1
  <2>3. Len(segs) \in Nat /\ DOMAIN segs = 1..Len(segs)
    BY SMT, <2>1
  <2> QED
    BY <2>1, <2>2, <2>3
<1>2. {"Success", "Fault", "BufferTooSmall", "ChecksumError"} \subseteq Codes
  BY DEF Codes, Drops
<1>3. ASSUME Finish(t, "Success", Successes(t, segs, Len(segs)), TRUE) PROVE Inv'
  <2>1. PICK rx : rx = Successes(t, segs, Len(segs))
    OBVIOUS
  <2>2. Len(segs) \in 0..Len(segs) /\ Len(segs) \in 1..Len(segs)
    BY SMT, <1>1
  <2>3. OnBehalf(rx) /\ Len(rx) = Len(segs) /\ rx[Len(segs)] = Received(t, segs, Len(segs), "Success")
    BY <2>1, <2>2, Succeeding
  <2>4. rx[Len(segs)].seg = segs[Len(segs)]
    BY SMT, <1>2, <2>2, <2>3, Receiving
  <2>5. Ends(rx, "Success")
    BY <1>1, <2>3, <2>4 DEF Ends, Segmenting
  <2>6. PICK yes \in BOOLEAN : yes = TRUE
    BY Zenon
  <2>7. Finish(t, "Success", rx, yes)
    BY <1>3, <2>1, <2>6
  <2> QED
    BY <1>1, <1>2, <2>3, <2>5, <2>7, Finishing
<1>4. ASSUME NEW k \in 1..Len(segs), NEW code \in Codes, NEW end \in Codes, end = "Success" => code # "Success",
             Finish(t, end, Append(Successes(t, segs, k - 1), Received(t, segs, k, code)), FALSE)
      PROVE  Inv'
  <2>1. PICK rx : rx = Append(Successes(t, segs, k - 1), Received(t, segs, k, code))
    OBVIOUS
  <2>2. OnBehalf(rx) /\ Len(rx) = k /\ rx[k].code = code
    BY SMT, <2>1, Ending
  <2>3. Ends(rx, end)
    BY SMT, <1>4, <2>2 DEF Ends
  <2>4. PICK no \in BOOLEAN : no = FALSE
    BY Zenon
  <2>5. Finish(t, end, rx, no)
    BY <1>4, <2>1, <2>4
  <2> QED
    BY <1>1, <2>2, <2>3, <2>5, Finishing
<1>5. ASSUME NEW k \in 1..Len(segs), NEW before, before = Successes(t, segs, k - 1),
             \/ Abandon(t, before, k - 1)
             \/ Abandon(t, before, k) /\ k = 1
      PROVE  Inv'
  <2>1. k - 1 \in 0..Len(segs)
    BY SMT, <1>1
  <2>2. OnBehalf(before) /\ Len(before) = k - 1
    BY <1>5, <2>1, Succeeding
  <2>3. CASE Abandon(t, before, k - 1)
    BY <1>1, <2>2, <2>3, Abandoning
  <2>4. CASE Abandon(t, before, k) /\ k = 1
    <3>1. before = <<>>
      BY SMT, <2>2, <2>4 DEF OnBehalf
    <3>2. rx_ring # <<>>
      BY SMT, <1>1 DEF Segmenting
    <3> QED
      BY <1>1, <2>2, <2>4, <3>1, <3>2, Abandoning
  <2> QED
    BY <1>5, <2>3, <2>4
<1>6. CASE Finish(t, "Success", Successes(t, segs, Len(segs)), TRUE)
  BY <1>3, <1>6
<1>7. ASSUME NEW k \in DOMAIN segs,
             LET before == Successes(t, segs, k - 1)
                 ended(code) == Append(before, Received(t, segs, k, code))
             IN  \/ Finish(t, "Success", ended("BufferTooSmall"), FALSE)
                 \/ Finish(t, "Fault", ended("Fault"), FALSE)
                 \/ Finish(t, "Success", ended("ChecksumError"), FALSE)
                 \/ Abandon(t, before, k - 1)
                 \/ /\ Abandon(t, before, k) /\ "rx" \notin decodes
                    /\ \A j \in 1..(k - 1) : "rx" \in decodes
      PROVE  Inv'
  <2>1. k \in 1..Len(segs)
    BY <1>1
  <2>5. CASE Abandon(t, Successes(t, segs, k - 1), k - 1)
    BY <1>5, <2>1, <2>5
  <2>6. CASE /\ Abandon(t, Successes(t, segs, k - 1), k) /\ "rx" \notin decodes
             /\ \A j \in 1..(k - 1) : "rx" \in decodes
    <3>1. 1 \notin 1..(k - 1)
      BY <2>6
    <3>2. k = 1
      BY SMT, <1>1, <2>1, <3>1
    <3> QED
      BY <1>5, <2>1, <2>6, <3>2
  <2>2. CASE Finish(t, "Success", Append(Successes(t, segs, k - 1), Received(t, segs, k, "BufferTooSmall")), FALSE)
    BY <1>2, <1>4, <2>1, <2>2
  <2>3. CASE Finish(t, "Fault", Append(Successes(t, segs, k - 1), Received(t, segs, k, "Fault")), FALSE)
    BY <1>2, <1>4, <2>1, <2>3
  <2>4. CASE Finish(t, "Success", Append(Successes(t, segs, k - 1), Received(t, segs, k, "ChecksumError")), FALSE)
    BY <1>2, <1>4, <2>1, <2>4
  <2> QED
    BY <1>7, <2>2, <2>3, <2>4, <2>5, <2>6
<1> QED
  BY <1>6, <1>7, Zenon DEF process_segments

(* What process_once does with a transmit descriptor. *)
LEMMA Processing ==
  ASSUME Inv, tx_ring # <<>>, NEW t, t = Head(tx_ring), Process(t)
  PROVE  Inv'
<1>1. /\ t \in TxSlots /\ t.desc \in TxDescriptors
  <2>1. tx_ring \in Seq(TxSlots)
    BY DEF Inv, Typed
  <2>2. t \in TxSlots
    BY SMT, <2>1
  <2> QED
    BY <2>2 DEF TxSlots
<1>2. ASSUME NEW code \in Codes \ {"Success"}, Refuse(t, code) PROVE Inv'
  <2>1. PICK yes \in BOOLEAN : yes = TRUE
    BY Zenon
  <2>2. PICK rx : rx = <<>>
    OBVIOUS
  <2>3. Finish(t, code, rx, yes)
    BY <1>2, <2>1, <2>2 DEF Refuse
  <2>4. rx \in Seq(RxEntries) /\ Len(rx) = 0
    BY SMT, <2>2
  <2>5. OnBehalf(rx) /\ Ends(rx, code)
    BY SMT, <2>4 DEF OnBehalf, Ends, Inv, Typed
  <2> QED
    BY <1>2, <2>3, <2>5, Finishing
<1>3. {"NoDescriptor", "Fault", "ChecksumError", "MtuExceeded", "InvalidMss", "TooManySegments"} \subseteq Codes \ {"Success"}
  BY DEF Codes, Drops
<1>4. PICK segs : segs = build_segments(t.desc)
  OBVIOUS
<1>5. ASSUME Segmented(t.desc) => ValidMss(t.desc), Len(rx_ring) >= Len(segs), process_segments(t, segs)
      PROVE  Inv'
  <2>1. Segmenting(t, segs)
    BY <1>1, <1>4, <1>5, Segmentation DEF Segmenting
  <2> QED
    BY <1>5, <2>1, Looping
<1>6. \/ \E code \in {"NoDescriptor", "Fault", "ChecksumError", "MtuExceeded", "InvalidMss", "TooManySegments"} : Refuse(t, code)
      \/ (Segmented(t.desc) => ValidMss(t.desc)) /\ Len(rx_ring) >= Len(segs) /\ process_segments(t, segs)
  BY <1>4, Zenon DEF Process
<1> QED
  BY <1>2, <1>3, <1>5, <1>6

-----------------------------------------------------------------------------
(* A step that leaves rings, logs and places as they are. *)
LEMMA Standing ==
  ASSUME Inv, UNCHANGED <<tx_ring, rx_ring, tx_log, rx_log, tx_events, rx_events, vanished,
                          sent, pushed_rx, discarded>>,
         worked' \in BOOLEAN, tx_cq' \in Seq(TxEntries), Len(tx_cq') <= TxCqSize,
         rx_cq' \in Seq(RxEntries), Len(rx_cq') <= RxCqSize
  PROVE  Inv'
<1>1. TxTaken' = TxTaken /\ RxTaken' = RxTaken
  BY DEF TxTaken, RxTaken
<1>2. Typed'
  BY <1>1 DEF Inv, Typed
<1>3. Indexed' /\ Logged'
  BY <1>1 DEF Inv, Indexed, Logged
<1>4. Placed'
  BY <1>1 DEF Inv, Placed, TxDone, RxDone, RxPlaced
<1>5. Covering'
  BY DEF Inv, Covering, Follows, Segment
<1> QED
  BY <1>2, <1>3, <1>4, <1>5 DEF Inv

(* The driver pushes a transmit descriptor. *)
LEMMA PushingTx ==
  ASSUME Inv, NEW d \in TxDescriptors, push_tx(d)
  PROVE  Inv'
<1>1. /\ Len(sent) \in Nat /\ Len(tx_ring) \in Nat /\ TxTaken \in Nat /\ MaxTx \in Nat /\ TxRingSize \in Nat
  BY Counts DEF Inv
<1>2. sent \in Seq(TxDescriptors) /\ tx_ring \in Seq(TxSlots) /\ Len(tx_ring) <= Len(sent)
  BY DEF Inv, Typed
<1>3. /\ Len(sent) < MaxTx /\ Len(tx_ring) < TxRingSize /\ sent' = Append(sent, d)
      /\ tx_ring' = Append(tx_ring, [index |-> Len(sent'), desc |-> d])
      /\ UNCHANGED <<rx_ring, tx_cq, rx_cq, tx_log, rx_log, tx_events, rx_events, vanished, worked,
                     pushed_rx, discarded>>
  BY DEF push_tx, cqs, logs
<1>4. /\ sent' \in Seq(TxDescriptors) /\ Len(sent') = Len(sent) + 1 /\ sent'[Len(sent) + 1] = d
      /\ \A i \in 1..Len(sent) : sent'[i] = sent[i]
  BY SMT, <1>2, <1>3
<1>5. PICK slot \in TxSlots : slot = [index |-> Len(sent'), desc |-> d] /\ slot.index = Len(sent) + 1 /\ slot.desc = d
  <2>1. PICK slot : slot = [index |-> Len(sent) + 1, desc |-> d]
    OBVIOUS
  <2>2. Len(sent) + 1 \in Nat
    BY SMT, <1>1
  <2>3. slot \in TxSlots
    BY <2>1, <2>2 DEF TxSlots
  <2> QED
    BY <1>4, <2>1, <2>3
<1>6. /\ tx_ring' \in Seq(TxSlots) /\ Len(tx_ring') = Len(tx_ring) + 1 /\ tx_ring'[Len(tx_ring) + 1] = slot
      /\ \A k \in 1..Len(tx_ring) : tx_ring'[k] = tx_ring[k]
  BY SMT, <1>2, <1>3, <1>5
<1>7. TxTaken' = TxTaken /\ RxTaken' = RxTaken
  BY SMT, <1>1, <1>3, <1>4, <1>6 DEF TxTaken, RxTaken
<1>8. Typed'
  <2>1. Len(tx_ring') <= TxRingSize /\ Len(tx_ring') <= Len(sent') /\ Len(sent') <= MaxTx
    BY SMT, <1>1, <1>2, <1>3, <1>4, <1>6
  <2> QED
    BY <1>3, <1>4, <1>6, <1>7, <2>1 DEF Inv, Typed
<1>9. Indexed'
  <2>1. ASSUME NEW k \in 1..Len(tx_ring')
        PROVE  tx_ring'[k].index = TxTaken + k /\ tx_ring'[k].desc = sent'[TxTaken + k]
    <3>1. k \in 1..Len(tx_ring) \/ k = Len(tx_ring) + 1
      BY SMT, <1>1, <1>6
    <3>2. CASE k \in 1..Len(tx_ring)
      <4>1. TxTaken + k \in 1..Len(sent)
        BY SMT, <1>1, <1>2, <3>2 DEF TxTaken
      <4> QED
        BY <1>4, <1>6, <3>2, <4>1 DEF Inv, Indexed
    <3>3. CASE k = Len(tx_ring) + 1
      <4>1. TxTaken + k = Len(sent) + 1
        BY SMT, <1>1, <3>3 DEF TxTaken
      <4> QED
        BY <1>4, <1>5, <1>6, <3>3, <4>1
    <3> QED
      BY <3>1, <3>2, <3>3
  <2> QED
    BY <1>3, <1>7, <2>1 DEF Inv, Indexed
<1>10. Logged'
  BY <1>3, <1>7 DEF Inv, Logged
<1>11. Placed'
  BY <1>3, <1>7 DEF Inv, Placed, TxDone, RxDone, RxPlaced
<1>12. Covering'
  <2>1. ASSUME NEW k \in 1..Len(tx_log), tx_log[k].code = "Success"
        PROVE  Whole(rx_log, sent', tx_log[k].tx)
    <3>1. Whole(rx_log, sent, tx_log[k].tx) /\ tx_log[k].tx \in 1..TxTaken
      BY <2>1 DEF Inv, Covering, Logged
    <3>2. sent'[tx_log[k].tx] = sent[tx_log[k].tx]
      BY SMT, <1>1, <1>4, <3>1 DEF TxTaken
    <3> QED
      BY <3>1, <3>2 DEF Whole
  <2> QED
    BY <1>3, <2>1 DEF Inv, Covering, Follows, Segment
<1> QED
  BY <1>8, <1>9, <1>10, <1>11, <1>12 DEF Inv

(* The driver pushes a receive descriptor. *)
LEMMA PushingRx ==
  ASSUME Inv, NEW d \in RxDescriptors, push_rx(d)
  PROVE  Inv'
<1>1. pushed_rx \in Nat /\ Len(rx_ring) \in Nat /\ RxTaken \in Nat /\ MaxRx \in Nat /\ RxRingSize \in Nat
  BY Counts DEF Inv
<1>2. rx_ring \in Seq(RxSlots) /\ Len(rx_ring) <= pushed_rx
  BY DEF Inv, Typed
<1>3. /\ pushed_rx < MaxRx /\ Len(rx_ring) < RxRingSize /\ pushed_rx' = pushed_rx + 1
      /\ rx_ring' = Append(rx_ring, [index |-> pushed_rx + 1, desc |-> d])
      /\ UNCHANGED <<tx_ring, tx_cq, rx_cq, tx_log, rx_log, tx_events, rx_events, vanished, worked,
                     sent, discarded>>
  BY DEF push_rx, cqs, logs
<1>4. PICK slot \in RxSlots : slot = [index |-> pushed_rx + 1, desc |-> d] /\ slot.index = pushed_rx + 1
  <2>1. PICK slot : slot = [index |-> pushed_rx + 1, desc |-> d]
    OBVIOUS
  <2>2. pushed_rx + 1 \in Nat
    BY SMT, <1>1
  <2>3. slot \in RxSlots
    BY <2>1, <2>2 DEF RxSlots
  <2> QED
    BY <2>1, <2>3
<1>5. /\ rx_ring' \in Seq(RxSlots) /\ Len(rx_ring') = Len(rx_ring) + 1 /\ rx_ring'[Len(rx_ring) + 1] = slot
      /\ \A k \in 1..Len(rx_ring) : rx_ring'[k] = rx_ring[k]
  BY SMT, <1>2, <1>3, <1>4
<1>6. TxTaken' = TxTaken /\ RxTaken' = RxTaken
  BY SMT, <1>1, <1>3, <1>5 DEF TxTaken, RxTaken
<1>7. Typed'
  <2>1. Len(rx_ring') <= RxRingSize /\ Len(rx_ring') <= pushed_rx' /\ pushed_rx' \in 0..MaxRx
    BY SMT, <1>1, <1>2, <1>3, <1>5
  <2> QED
    BY <1>3, <1>5, <1>6, <2>1 DEF Inv, Typed
<1>8. Indexed'
  <2>1. ASSUME NEW k \in 1..Len(rx_ring') PROVE rx_ring'[k].index = RxTaken + k
    <3>1. k \in 1..Len(rx_ring) \/ k = Len(rx_ring) + 1
      BY SMT, <1>1, <1>5
    <3>2. CASE k \in 1..Len(rx_ring)
      BY <1>5, <3>2 DEF Inv, Indexed
    <3>3. CASE k = Len(rx_ring) + 1
      <4>1. RxTaken + k = pushed_rx + 1
        BY SMT, <1>1, <3>3 DEF RxTaken
      <4> QED
        BY <1>4, <1>5, <3>3, <4>1
    <3> QED
      BY <3>1, <3>2, <3>3
  <2> QED
    BY <1>3, <1>6, <2>1 DEF Inv, Indexed
<1>9. Logged' /\ Placed'
  BY <1>3, <1>6 DEF Inv, Logged, Placed, TxDone, RxDone, RxPlaced
<1>10. Covering'
  BY <1>3 DEF Inv, Covering, Follows, Segment
<1> QED
  BY <1>7, <1>8, <1>9, <1>10 DEF Inv

(* A reset: what is on the rings is discarded. *)
LEMMA Resetting ==
  ASSUME Inv, reset
  PROVE  Inv'
<1>1. /\ tx_ring' = <<>> /\ rx_ring' = <<>> /\ tx_cq' = <<>> /\ rx_cq' = <<>>
      /\ discarded' = discarded \cup OnRings(tx_ring, rx_ring)
      /\ UNCHANGED <<tx_log, rx_log, tx_events, rx_events, vanished, worked, sent, pushed_rx>>
  BY DEF reset, logs
<1>2. /\ Len(sent) \in Nat /\ Len(tx_ring) \in Nat /\ pushed_rx \in Nat /\ Len(rx_ring) \in Nat
      /\ TxTaken \in Nat /\ RxTaken \in Nat
      /\ {TxRingSize, RxRingSize, TxCqSize, RxCqSize, MaxTx, MaxRx} \subseteq Nat
  BY Counts DEF Inv
<1>3. /\ tx_ring \in Seq(TxSlots) /\ rx_ring \in Seq(RxSlots)
      /\ Len(tx_ring) <= Len(sent) /\ Len(rx_ring) <= pushed_rx
  BY DEF Inv, Typed
<1>4. TxTaken' = Len(sent) /\ RxTaken' = pushed_rx /\ TxTaken <= Len(sent) /\ RxTaken <= pushed_rx
  BY SMT, <1>1, <1>2, <1>3 DEF TxTaken, RxTaken
<1>5. /\ \A i : <<"tx", i>> \in OnRings(tx_ring, rx_ring) <=> i \in (TxTaken + 1)..Len(sent)
      /\ \A i : <<"rx", i>> \in OnRings(tx_ring, rx_ring) <=> i \in (RxTaken + 1)..pushed_rx
      /\ OnRings(tx_ring, rx_ring) \subseteq {<<"tx", i>> : i \in 1..Len(sent)} \cup {<<"rx", i>> : i \in 1..pushed_rx}
  <2>1. OnRings(tx_ring, rx_ring) = {<<"tx", tx_ring[k].index>> : k \in 1..Len(tx_ring)}
                                    \cup {<<"rx", rx_ring[k].index>> : k \in 1..Len(rx_ring)}
    BY SMT, <1>3 DEF OnRings, Range
  <2>2. /\ \A k \in 1..Len(tx_ring) : tx_ring[k].index = TxTaken + k
        /\ \A k \in 1..Len(rx_ring) : rx_ring[k].index = RxTaken + k
    BY DEF Inv, Indexed
  <2>3. /\ \A i \in (TxTaken + 1)..Len(sent) : i - TxTaken \in 1..Len(tx_ring) /\ i = TxTaken + (i - TxTaken)
        /\ \A k \in 1..Len(tx_ring) : TxTaken + k \in (TxTaken + 1)..Len(sent) /\ TxTaken + k \in 1..Len(sent)
    BY SMT, <1>2 DEF TxTaken
  <2>4. /\ \A i \in (RxTaken + 1)..pushed_rx : i - RxTaken \in 1..Len(rx_ring) /\ i = RxTaken + (i - RxTaken)
        /\ \A k \in 1..Len(rx_ring) : RxTaken + k \in (RxTaken + 1)..pushed_rx /\ RxTaken + k \in 1..pushed_rx
    BY SMT, <1>2 DEF RxTaken
  <2>5. \A i : <<"tx", i>> \in OnRings(tx_ring, rx_ring) <=> i \in (TxTaken + 1)..Len(sent)
    <3>1. ASSUME NEW i, <<"tx", i>> \in OnRings(tx_ring, rx_ring) PROVE i \in (TxTaken + 1)..Len(sent)
      <4>1. PICK k \in 1..Len(tx_ring) : i = tx_ring[k].index
        BY SMT, <2>1, <3>1
      <4> QED
        BY <2>2, <2>3, <4>1
    <3>2. ASSUME NEW i \in (TxTaken + 1)..Len(sent) PROVE <<"tx", i>> \in OnRings(tx_ring, rx_ring)
      <4>1. i - TxTaken \in 1..Len(tx_ring) /\ tx_ring[i - TxTaken].index = i
        BY <2>2, <2>3
      <4> QED
        BY <2>1, <4>1
    <3> QED
      BY <3>1, <3>2
  <2>6. \A i : <<"rx", i>> \in OnRings(tx_ring, rx_ring) <=> i \in (RxTaken + 1)..pushed_rx
    <3>1. ASSUME NEW i, <<"rx", i>> \in OnRings(tx_ring, rx_ring) PROVE i \in (RxTaken + 1)..pushed_rx
      <4>1. PICK k \in 1..Len(rx_ring) : i = rx_ring[k].index
        BY SMT, <2>1, <3>1
      <4> QED
        BY <2>2, <2>4, <4>1
    <3>2. ASSUME NEW i \in (RxTaken + 1)..pushed_rx PROVE <<"rx", i>> \in OnRings(tx_ring, rx_ring)
      <4>1. i - RxTaken \in 1..Len(rx_ring) /\ rx_ring[i - RxTaken].index = i
        BY <2>2, <2>4
      <4> QED
        BY <2>1, <4>1
    <3> QED
      BY <3>1, <3>2
  <2>7. OnRings(tx_ring, rx_ring) \subseteq {<<"tx", i>> : i \in 1..Len(sent)} \cup {<<"rx", i>> : i \in 1..pushed_rx}
    BY SMT, <2>1, <2>2, <2>3, <2>4
  <2> QED
    BY <2>5, <2>6, <2>7
<1>6. Typed'
  <2>1. /\ tx_ring' \in Seq(TxSlots) /\ rx_ring' \in Seq(RxSlots) /\ tx_cq' \in Seq(TxEntries) /\ rx_cq' \in Seq(RxEntries)
        /\ Len(tx_ring') = 0 /\ Len(rx_ring') = 0 /\ Len(tx_cq') = 0 /\ Len(rx_cq') = 0
    BY SMT, <1>1
  <2>2. tx_events' \in 0..TxTaken' /\ rx_events' \in 0..RxTaken'
    <3>1. tx_events \in 0..TxTaken /\ rx_events \in 0..RxTaken
      BY DEF Inv, Typed
    <3>2. tx_events' = tx_events /\ rx_events' = rx_events
      BY <1>1
    <3>3. TxTaken \in Nat /\ RxTaken \in Nat /\ Len(sent) \in Nat /\ pushed_rx \in Nat
      BY <1>2
    <3> QED
      BY SMT, <1>4, <3>1, <3>2, <3>3
  <2> QED
    BY SMT, <1>1, <1>2, <2>1, <2>2 DEF Inv, Typed
<1>7. Indexed'
  <2>1. Len(tx_ring') = 0 /\ Len(rx_ring') = 0
    BY <1>1
  <2> QED
    BY SMT, <2>1 DEF Indexed
<1>8. 1..TxTaken \subseteq 1..TxTaken' /\ 1..RxTaken \subseteq 1..RxTaken'
  BY SMT, <1>2, <1>4
<1>9. Logged'
  BY <1>1, <1>8 DEF Inv, Logged
<1>10. Placed'
  <2>1. \A i : (TxDone(i)' <=> TxDone(i)) /\ (RxDone(i)' <=> RxDone(i))
    BY <1>1 DEF TxDone, RxDone
  <2>2. /\ vanished' \subseteq {<<"tx", i>> : i \in 1..TxTaken'} \cup {<<"rx", i>> : i \in 1..RxTaken'}
        /\ discarded' \subseteq {<<"tx", i>> : i \in 1..TxTaken'} \cup {<<"rx", i>> : i \in 1..RxTaken'}
    BY <1>1, <1>4, <1>5, <1>8 DEF Inv, Placed
  <2>3. ASSUME NEW i \in 1..TxTaken'
        PROVE  /\ TxDone(i) \/ <<"tx", i>> \in vanished \/ <<"tx", i>> \in discarded'
               /\ ~(TxDone(i) /\ <<"tx", i>> \in vanished)
               /\ ~(TxDone(i) /\ <<"tx", i>> \in discarded')
               /\ ~(<<"tx", i>> \in vanished /\ <<"tx", i>> \in discarded')
    <3>1. i \in 1..TxTaken \/ i \in (TxTaken + 1)..Len(sent)
      BY SMT, <1>2, <1>4
    <3>2. CASE i \in 1..TxTaken
      <4>1. <<"tx", i>> \in discarded' <=> <<"tx", i>> \in discarded
        BY SMT, <1>1, <1>2, <1>5, <3>2
      <4> QED
        BY <3>2, <4>1 DEF Inv, Placed
    <3>3. CASE i \in (TxTaken + 1)..Len(sent)
      <4>1. i \notin 1..TxTaken /\ <<"tx", i>> \in discarded'
        BY SMT, <1>1, <1>2, <1>5, <3>3
      <4>2. <<"tx", i>> \notin vanished /\ ~TxDone(i)
        BY SMT, <4>1 DEF Inv, Placed, TxDone, Logged
      <4> QED
        BY <4>1, <4>2
    <3> QED
      BY <3>1, <3>2, <3>3
  <2>4. ASSUME NEW i \in 1..RxTaken' PROVE RxPlaced(i)'
    <3>1. i \in 1..RxTaken \/ i \in (RxTaken + 1)..pushed_rx
      BY SMT, <1>2, <1>4
    <3>2. CASE i \in 1..RxTaken
      <4>1. <<"rx", i>> \in discarded' <=> <<"rx", i>> \in discarded
        BY SMT, <1>1, <1>2, <1>5, <3>2
      <4>2. RxPlaced(i)
        BY <3>2 DEF Inv, Placed
      <4> QED
        BY <1>1, <2>1, <4>1, <4>2 DEF RxPlaced
    <3>3. CASE i \in (RxTaken + 1)..pushed_rx
      <4>1. i \notin 1..RxTaken /\ <<"rx", i>> \in discarded'
        BY SMT, <1>1, <1>2, <1>5, <3>3
      <4>2. <<"rx", i>> \notin vanished /\ ~RxDone(i)
        BY SMT, <4>1 DEF Inv, Placed, RxDone, Logged
      <4> QED
        BY <1>1, <2>1, <4>1, <4>2 DEF RxPlaced
    <3> QED
      BY <3>1, <3>2, <3>3
  <2> QED
    BY <1>1, <2>1, <2>2, <2>3, <2>4 DEF Placed
<1>11. Covering'
  BY <1>1 DEF Inv, Covering, Follows, Segment
<1> QED
  BY <1>6, <1>7, <1>9, <1>10, <1>11 DEF Inv

(* Every step of the queue pair and of its driver keeps the invariant. *)
LEMMA Step == Inv /\ [Next]_vars => Inv'
<1> SUFFICES ASSUME Inv, [Next]_vars PROVE Inv'
  OBVIOUS
<1>1. /\ tx_cq \in Seq(TxEntries) /\ Len(tx_cq) <= TxCqSize /\ rx_cq \in Seq(RxEntries)
      /\ Len(rx_cq) <= RxCqSize /\ worked \in BOOLEAN /\ TxCqSize \in Nat /\ RxCqSize \in Nat
  BY QueuePairAssumption DEF Inv, Typed
<1>2. ASSUME NEW d \in TxDescriptors, push_tx(d) PROVE Inv'
  BY <1>2, PushingTx
<1>3. ASSUME NEW d \in RxDescriptors, push_rx(d) PROVE Inv'
  BY <1>3, PushingRx
<1>4. CASE poll_tx
  <2>1. tx_cq' \in Seq(TxEntries) /\ Len(tx_cq') <= TxCqSize
    <3>1. tx_cq # <<>> /\ tx_cq' = Tail(tx_cq)
      BY <1>4 DEF poll_tx
    <3>2. tx_cq' \in Seq(TxEntries) /\ Len(tx_cq') = Len(tx_cq) - 1 /\ Len(tx_cq) \in Nat
      BY SMT, <1>1, <3>1
    <3> QED
      BY SMT, <1>1, <3>2
  <2> QED
    BY <1>1, <1>4, <2>1, Standing DEF poll_tx, rings, logs, pushes
<1>5. CASE poll_rx
  <2>1. rx_cq' \in Seq(RxEntries) /\ Len(rx_cq') <= RxCqSize
    <3>1. rx_cq # <<>> /\ rx_cq' = Tail(rx_cq)
      BY <1>5 DEF poll_rx
    <3>2. rx_cq' \in Seq(RxEntries) /\ Len(rx_cq') = Len(rx_cq) - 1 /\ Len(rx_cq) \in Nat
      BY SMT, <1>1, <3>1
    <3> QED
      BY SMT, <1>1, <3>2
  <2> QED
    BY <1>1, <1>5, <2>1, Standing DEF poll_rx, rings, logs, pushes
<1>6. CASE process_once
  <2>1. CASE tx_ring # <<>> /\ Process(Head(tx_ring))
    BY <2>1, Processing
  <2>3. CASE tx_ring # <<>> /\ Abandon(Head(tx_ring), <<>>, 0)
    <3>1. <<>> \in Seq(RxEntries) /\ Len(<<>>) = 0
      BY SMT
    <3>2. OnBehalf(<<>>)
      BY SMT, <3>1 DEF OnBehalf, Inv, Typed
    <3> QED
      BY <2>3, <3>1, <3>2, Abandoning
  <2>2. CASE worked' = FALSE /\ UNCHANGED <<rings, cqs, logs, pushes, statVars>>
    <3>1. worked' \in BOOLEAN
      BY <2>2
    <3> QED
      BY <1>1, <2>2, <3>1, Standing DEF rings, cqs, logs, pushes
  <2> QED
    BY <1>6, <2>1, <2>2, <2>3 DEF process_once
<1>7. CASE reset_stats
  BY <1>1, <1>7, Standing DEF reset_stats, rings, cqs, logs, pushes
<1>8. CASE reset
  BY <1>8, Resetting
<1>9. CASE UNCHANGED vars
  BY <1>1, <1>9, Standing DEF vars, rings, cqs, logs, pushes
<1> QED
  BY <1>2, <1>3, <1>4, <1>5, <1>6, <1>7, <1>8, <1>9 DEF Next

(* The invariant holds from the start on. *)
LEMMA Invariance == Spec => []Inv
<1>1. Init => Inv
  <2> SUFFICES ASSUME Init PROVE Inv
    OBVIOUS
  <2>1. /\ tx_ring = <<>> /\ rx_ring = <<>> /\ tx_cq = <<>> /\ rx_cq = <<>> /\ tx_log = <<>> /\ rx_log = <<>>
        /\ tx_events = 0 /\ rx_events = 0 /\ sent = <<>> /\ pushed_rx = 0 /\ vanished = {} /\ discarded = {}
        /\ worked \in BOOLEAN
    BY DEF Init
  <2>2. /\ Len(tx_ring) = 0 /\ Len(rx_ring) = 0 /\ Len(tx_cq) = 0 /\ Len(rx_cq) = 0
        /\ Len(tx_log) = 0 /\ Len(rx_log) = 0 /\ Len(sent) = 0 /\ pushed_rx = 0
    BY <2>1
  <2>3. TxTaken = 0 /\ RxTaken = 0
    BY SMT, <2>2 DEF TxTaken, RxTaken
  <2>4. Typed
    <3>1. {TxRingSize, RxRingSize, TxCqSize, RxCqSize, MaxTx, MaxRx} \subseteq Nat
      BY QueuePairAssumption
    <3> QED
      BY SMT, <2>1, <2>2, <2>3, <3>1 DEF Typed
  <2>5. Indexed /\ Logged /\ Covering
    BY SMT, <2>2 DEF Indexed, Logged, Covering
  <2>6. Placed
    BY SMT, <2>1, <2>3 DEF Placed
  <2> QED
    BY <2>4, <2>5, <2>6 DEF Inv
<1> QED
  BY <1>1, Step, PTL DEF Spec

(* When a descriptor is lost. *)
Lost ==
  /\ decodes \subseteq {"tx", "rx"}
  /\ vanished # {} => Faults \/ decodes # {"tx", "rx"}
  /\ "tx" \notin decodes => tx_log = <<>> /\ rx_log = <<>>
  /\ \A i : <<"rx", i>> \in vanished => decodes = {"tx"}

(* A step loses a descriptor only as Lost says. *)
LEMMA LossStep == Inv /\ Lost /\ [Next]_vars => Lost'
<1> SUFFICES ASSUME Inv, Lost, [Next]_vars PROVE Lost'
  OBVIOUS
<1>1. ASSUME UNCHANGED <<tx_log, rx_log, vanished, decodes>> PROVE Lost'
  BY <1>1 DEF Lost
<1>2. ASSUME "tx" \in decodes, UNCHANGED <<vanished, decodes>> PROVE Lost'
  BY <1>2 DEF Lost
<1>3. ASSUME NEW t, NEW rx, NEW popped, Abandon(t, rx, popped),
             Faults \/ decodes # {"tx", "rx"},
             "tx" \in decodes \/ (rx_log' = rx_log /\ tx_log' = tx_log),
             decodes = {"tx"} \/ (Len(rx) + 1)..popped = {}
      PROVE  Lost'
  <2>1. /\ decodes' = decodes
        /\ vanished' = vanished \cup {<<"tx", t.index>>}
                                \cup {<<"rx", rx_ring[j].index>> : j \in (Len(rx) + 1)..popped}
    BY <1>3 DEF Abandon
  <2>2. ASSUME NEW i, <<"rx", i>> \in vanished' PROVE decodes = {"tx"}
    <3>1. <<"rx", i>> # <<"tx", t.index>>
      BY SMT
    <3>2. CASE (Len(rx) + 1)..popped = {}
      BY <2>1, <2>2, <3>1, <3>2 DEF Lost
    <3> QED
      BY <1>3, <3>2
  <2> QED
    BY <1>3, <2>1, <2>2 DEF Lost
<1>4. CASE process_once
  <2>1. CASE tx_ring # <<>> /\ "tx" \notin decodes /\ Abandon(Head(tx_ring), <<>>, 0)
    <3>1. (Len(<<>>) + 1)..0 = {}
      BY SMT
    <3>2. rx_log' = rx_log
      <4>1. rx_log = <<>> /\ rx_log' = rx_log \o <<>>
        BY <2>1 DEF Abandon, Lost
      <4> QED
        BY SMT, <4>1
    <3>3. decodes # {"tx", "rx"} /\ tx_log' = tx_log
      BY <2>1 DEF Abandon
    <3> QED
      BY <1>3, <2>1, <3>1, <3>2, <3>3
  <2>2. ASSUME NEW t, t = Head(tx_ring), tx_ring # <<>>, "tx" \in decodes, Process(t) PROVE Lost'
    <3>1. ASSUME NEW code, NEW rx, NEW interrupt, Finish(t, code, rx, interrupt) PROVE Lost'
      BY <1>2, <2>2, <3>1 DEF Finish
    <3>2. ASSUME NEW segs, Segmenting(t, segs), process_segments(t, segs) PROVE Lost'
      <4>1. Len(segs) \in Nat /\ DOMAIN segs = 1..Len(segs)
        BY SMT, <3>2 DEF Segmenting
      <4>2. ASSUME NEW k \in 1..Len(segs), Faults, Abandon(t, Successes(t, segs, k - 1), k - 1)
            PROVE  Lost'
        <5>1. k - 1 \in 0..Len(segs)
          BY SMT, <4>1
        <5>2. Len(Successes(t, segs, k - 1)) = k - 1
          BY <2>2, <3>2, <5>1, Succeeding
        <5>3. (Len(Successes(t, segs, k - 1)) + 1)..(k - 1) = {}
          BY SMT, <5>1, <5>2
        <5> QED
          BY <1>3, <2>2, <4>2, <5>3
      <4>3. ASSUME NEW k, "rx" \notin decodes, Abandon(t, Successes(t, segs, k - 1), k) PROVE Lost'
        <5>1. decodes = {"tx"} /\ decodes # {"tx", "rx"}
          BY <2>2, <4>3 DEF Lost
        <5> QED
          BY <1>3, <2>2, <4>3, <5>1
      <4> QED
        BY <3>1, <3>2, <4>1, <4>2, <4>3, Zenon DEF process_segments
    <3>3. PICK segs : segs = build_segments(t.desc)
      OBVIOUS
    <3>4. \/ \E code : Refuse(t, code)
          \/ (Segmented(t.desc) => ValidMss(t.desc)) /\ Len(rx_ring) >= Len(segs) /\ process_segments(t, segs)
      BY <2>2, <3>3, Zenon DEF Process
    <3>5. ASSUME NEW code, Refuse(t, code) PROVE Lost'
      BY <3>1, <3>5 DEF Refuse
    <3>6. CASE (Segmented(t.desc) => ValidMss(t.desc)) /\ Len(rx_ring) >= Len(segs) /\ process_segments(t, segs)
      <4>1. tx_ring \in Seq(TxSlots)
        BY DEF Inv, Typed
      <4>2. t \in TxSlots
        BY SMT, <2>2, <4>1
      <4>3. t.desc \in TxDescriptors
        BY <4>2 DEF TxSlots
      <4>4. Segmenting(t, segs)
        BY <2>2, <3>3, <3>6, <4>3, Segmentation DEF Segmenting
      <4> QED
        BY <3>2, <3>6, <4>4
    <3> QED
      BY <3>4, <3>5, <3>6
  <2>3. CASE worked' = FALSE /\ UNCHANGED <<rings, cqs, logs, pushes, statVars, decodes>>
    BY <1>1, <2>3 DEF logs
  <2> QED
    BY <1>4, <2>1, <2>2, <2>3 DEF process_once
<1> QED
  BY <1>1, <1>4 DEF Next, push_tx, push_rx, poll_tx, poll_rx, reset_stats, reset, logs, vars

(* Lost holds from the start on. *)
LEMMA Losses == Spec => []Lost
<1>1. Init => Lost
  BY DEF Init, Lost
<1> QED
  BY <1>1, LossStep, Invariance, PTL DEF Spec

(* Rings and completion queues keep within their sizes, and the dispatcher  *)
(* is called at most once for each descriptor.                              *)
THEOREM SizesTheorem == Spec => []TypeOK
<1>1. Inv => TypeOK
  <2> SUFFICES ASSUME Inv PROVE TypeOK
    OBVIOUS
  <2>1. /\ Len(sent) \in Nat /\ Len(tx_ring) \in Nat /\ pushed_rx \in Nat /\ Len(rx_ring) \in Nat
        /\ MaxTx \in Nat /\ MaxRx \in Nat
    BY Counts DEF Inv
  <2>2. tx_events \in 0..MaxTx /\ rx_events \in 0..MaxRx
    <3>1. Len(sent) <= MaxTx /\ pushed_rx <= MaxRx /\ tx_events \in 0..TxTaken /\ rx_events \in 0..RxTaken
      BY SMT, <2>1 DEF Inv, Typed
    <3> QED
      BY SMT, <2>1, <3>1 DEF TxTaken, RxTaken
  <2> QED
    BY <2>2 DEF Inv, Typed, TypeOK
<1> QED
  BY <1>1, Invariance, PTL

(* Every descriptor the driver pushed is on its ring, completed once and in *)
(* order, discarded by a reset, or lost in a process_once that returned     *)
(* false: for any packets, faults, refusals, descriptor sizes and           *)
(* interleaving with the driver.  None is lost without a fault from rings   *)
(* whose descriptors decode.                                                *)
THEOREM AccountTheorem == Spec => []DescriptorsAccountedFor
<1>1. Inv /\ Lost => DescriptorsAccountedFor
  <2> SUFFICES ASSUME Inv, Lost PROVE DescriptorsAccountedFor
    OBVIOUS
  <2> DEFINE completed == {<<"tx", c.tx>> : c \in Range(tx_log)} \cup {<<"rx", c.rx>> : c \in Range(rx_log)}
             places == <<OnRings(tx_ring, rx_ring), completed, vanished, discarded>>
             all == {<<"tx", i>> : i \in DOMAIN sent} \cup {<<"rx", i>> : i \in 1..pushed_rx}
  <2>1. /\ Len(sent) \in Nat /\ Len(tx_ring) \in Nat /\ pushed_rx \in Nat /\ Len(rx_ring) \in Nat
        /\ TxTaken \in Nat /\ RxTaken \in Nat
    BY Counts DEF Inv
  <2>2. /\ DOMAIN sent = 1..Len(sent) /\ DOMAIN tx_log = 1..Len(tx_log) /\ DOMAIN rx_log = 1..Len(rx_log)
        /\ DOMAIN tx_ring = 1..Len(tx_ring) /\ DOMAIN rx_ring = 1..Len(rx_ring)
    BY SMT DEF Inv, Typed
  <2>3. OnRings(tx_ring, rx_ring) = {<<"tx", i>> : i \in (TxTaken + 1)..Len(sent)}
                                    \cup {<<"rx", i>> : i \in (RxTaken + 1)..pushed_rx}
    <3>1. OnRings(tx_ring, rx_ring) = {<<"tx", tx_ring[k].index>> : k \in 1..Len(tx_ring)}
                                      \cup {<<"rx", rx_ring[k].index>> : k \in 1..Len(rx_ring)}
      BY <2>2 DEF OnRings, Range
    <3>2. /\ \A k \in 1..Len(tx_ring) : tx_ring[k].index = TxTaken + k
          /\ \A k \in 1..Len(rx_ring) : rx_ring[k].index = RxTaken + k
      BY DEF Inv, Indexed
    <3>3. /\ \A i \in (TxTaken + 1)..Len(sent) : i - TxTaken \in 1..Len(tx_ring) /\ i = TxTaken + (i - TxTaken)
          /\ \A k \in 1..Len(tx_ring) : TxTaken + k \in (TxTaken + 1)..Len(sent)
      BY SMT, <2>1 DEF TxTaken
    <3>4. /\ \A i \in (RxTaken + 1)..pushed_rx : i - RxTaken \in 1..Len(rx_ring) /\ i = RxTaken + (i - RxTaken)
          /\ \A k \in 1..Len(rx_ring) : RxTaken + k \in (RxTaken + 1)..pushed_rx
      BY SMT, <2>1 DEF RxTaken
    <3>5. {<<"tx", tx_ring[k].index>> : k \in 1..Len(tx_ring)} = {<<"tx", i>> : i \in (TxTaken + 1)..Len(sent)}
      <4>1. \A k \in 1..Len(tx_ring) : tx_ring[k].index \in (TxTaken + 1)..Len(sent)
        BY <3>2, <3>3
      <4>2. \A i \in (TxTaken + 1)..Len(sent) : \E k \in 1..Len(tx_ring) : i = tx_ring[k].index
        BY SMT, <3>2, <3>3
      <4> QED
        BY <4>1, <4>2
    <3>6. {<<"rx", rx_ring[k].index>> : k \in 1..Len(rx_ring)} = {<<"rx", i>> : i \in (RxTaken + 1)..pushed_rx}
      <4>1. \A k \in 1..Len(rx_ring) : rx_ring[k].index \in (RxTaken + 1)..pushed_rx
        BY <3>2, <3>4
      <4>2. \A i \in (RxTaken + 1)..pushed_rx : \E k \in 1..Len(rx_ring) : i = rx_ring[k].index
        BY SMT, <3>2, <3>4
      <4> QED
        BY <4>1, <4>2
    <3> QED
      BY <3>1, <3>5, <3>6
  <2>4. completed = {<<"tx", i>> : i \in {j \in 1..TxTaken : TxDone(j)}}
                    \cup {<<"rx", i>> : i \in {j \in 1..RxTaken : RxDone(j)}}
    <3>1. completed = {<<"tx", tx_log[k].tx>> : k \in 1..Len(tx_log)} \cup {<<"rx", rx_log[k].rx>> : k \in 1..Len(rx_log)}
      BY <2>2 DEF Range
    <3> DEFINE T == {j \in 1..TxTaken : TxDone(j)}
               R == {j \in 1..RxTaken : RxDone(j)}
    <3>2. /\ \A k \in 1..Len(tx_log) : tx_log[k].tx \in T
          /\ \A i \in T : \E k \in 1..Len(tx_log) : i = tx_log[k].tx
      BY DEF Inv, Logged, TxDone
    <3>3. /\ \A k \in 1..Len(rx_log) : rx_log[k].rx \in R
          /\ \A i \in R : \E k \in 1..Len(rx_log) : i = rx_log[k].rx
      BY DEF Inv, Logged, RxDone
    <3> HIDE DEF T, R
    <3>4. {<<"tx", tx_log[k].tx>> : k \in 1..Len(tx_log)} = {<<"tx", i>> : i \in T}
      BY <3>2
    <3>5. {<<"rx", rx_log[k].rx>> : k \in 1..Len(rx_log)} = {<<"rx", i>> : i \in R}
      BY <3>3
    <3> QED
      BY <3>1, <3>4, <3>5 DEF T, R
  <2> HIDE DEF completed
  <2>5. /\ vanished \subseteq {<<"tx", i>> : i \in 1..TxTaken} \cup {<<"rx", i>> : i \in 1..RxTaken}
        /\ discarded \subseteq {<<"tx", i>> : i \in 1..TxTaken} \cup {<<"rx", i>> : i \in 1..RxTaken}
        /\ \A i \in 1..TxTaken : /\ TxDone(i) \/ <<"tx", i>> \in vanished \/ <<"tx", i>> \in discarded
                                 /\ ~(TxDone(i) /\ <<"tx", i>> \in vanished)
                                 /\ ~(TxDone(i) /\ <<"tx", i>> \in discarded)
                                 /\ ~(<<"tx", i>> \in vanished /\ <<"tx", i>> \in discarded)
        /\ \A i \in 1..RxTaken : /\ RxDone(i) \/ <<"rx", i>> \in vanished \/ <<"rx", i>> \in discarded
                                 /\ ~(RxDone(i) /\ <<"rx", i>> \in vanished)
                                 /\ ~(RxDone(i) /\ <<"rx", i>> \in discarded)
                                 /\ ~(<<"rx", i>> \in vanished /\ <<"rx", i>> \in discarded)
    BY DEF Inv, Placed, RxPlaced
  <2>6. /\ \A i : i \in 1..Len(sent) <=> i \in 1..TxTaken \/ i \in (TxTaken + 1)..Len(sent)
        /\ \A i : i \in 1..pushed_rx <=> i \in 1..RxTaken \/ i \in (RxTaken + 1)..pushed_rx
        /\ \A i : ~(i \in 1..TxTaken /\ i \in (TxTaken + 1)..Len(sent))
        /\ \A i : ~(i \in 1..RxTaken /\ i \in (RxTaken + 1)..pushed_rx)
    BY SMT, <2>1 DEF TxTaken, RxTaken
  <2>7. OnRings(tx_ring, rx_ring) \cup completed \cup vanished \cup discarded = all
    <3> DEFINE union == OnRings(tx_ring, rx_ring) \cup completed \cup vanished \cup discarded
    <3>1. union \subseteq all
      BY SMTT(20), <2>2, <2>3, <2>4, <2>5, <2>6
    <3>2. ASSUME NEW i \in 1..Len(sent) PROVE <<"tx", i>> \in union
      BY <2>3, <2>4, <2>5, <2>6
    <3>3. ASSUME NEW i \in 1..pushed_rx PROVE <<"rx", i>> \in union
      BY <2>3, <2>4, <2>5, <2>6
    <3> QED
      BY SMT, <2>2, <3>1, <3>2, <3>3
  <2>8. /\ OnRings(tx_ring, rx_ring) \cap completed = {}
        /\ OnRings(tx_ring, rx_ring) \cap vanished = {}
        /\ OnRings(tx_ring, rx_ring) \cap discarded = {}
    BY SMT, <2>3, <2>4, <2>5, <2>6
  <2>9. completed \cap vanished = {} /\ completed \cap discarded = {} /\ vanished \cap discarded = {}
    BY SMT, <2>4, <2>5
  <2>10. /\ DOMAIN places = {1, 2, 3, 4}
         /\ places[1] = OnRings(tx_ring, rx_ring) /\ places[2] = completed
         /\ places[3] = vanished /\ places[4] = discarded
    BY SMT
  <2> HIDE DEF places, all
  <2>11. UNION Range(places) = all
    <3>1. Range(places) = {OnRings(tx_ring, rx_ring), completed, vanished, discarded}
      BY SMT, <2>10 DEF Range
    <3> QED
      BY <2>7, <3>1
  <2>12. \A i, j \in DOMAIN places : i # j => places[i] \cap places[j] = {}
    BY SMT, <2>8, <2>9, <2>10
  <2>13. /\ \A i, j \in DOMAIN tx_log : i < j => tx_log[i].tx < tx_log[j].tx
         /\ \A i, j \in DOMAIN rx_log : i < j => rx_log[i].rx < rx_log[j].rx
    BY <2>2 DEF Inv, Logged
  <2>14. "tx" \notin decodes => completed = {}
    <3> SUFFICES ASSUME "tx" \notin decodes PROVE completed = {}
      OBVIOUS
    <3>1. DOMAIN tx_log = {} /\ DOMAIN rx_log = {}
      BY SMT DEF Lost
    <3> QED
      BY <3>1 DEF completed, Range
  <2>15. /\ vanished # {} => Faults \/ decodes # {"tx", "rx"}
         /\ \A i \in 1..pushed_rx : <<"rx", i>> \in vanished => decodes = {"tx"}
    BY DEF Lost
  <2> QED
    BY <2>11, <2>12, <2>13, <2>14, <2>15 DEF DescriptorsAccountedFor, places, all, completed
<1> QED
  BY <1>1, Invariance, Losses, PTL

(* The segments handed to receive buffers are the packet: contiguous, in    *)
(* order and, when nothing failed, whole, for any length, header and MSS.   *)
THEOREM SegmentsTheorem == Spec => []SegmentsCoverPacket
<1>1. Inv => SegmentsCoverPacket
  <2> SUFFICES ASSUME Inv PROVE SegmentsCoverPacket
    OBVIOUS
  <2>1. DOMAIN tx_log = 1..Len(tx_log) /\ DOMAIN rx_log = 1..Len(rx_log)
    BY SMT DEF Inv, Typed
  <2>2. \A j, k \in DOMAIN rx_log : j < k => rx_log[j].tx <= rx_log[k].tx
    BY <2>1 DEF Inv, Logged
  <2>3. \A k \in DOMAIN rx_log : Follows(k)
    BY <2>1 DEF Inv, Covering
  <2>4. ASSUME NEW c \in Range(tx_log), c.code = "Success",
               \A r \in Range(rx_log) : r.tx = c.tx => r.code = "Success"
        PROVE  \E k \in DOMAIN rx_log :
                 /\ rx_log[k].tx = c.tx /\ (k < Len(rx_log) => rx_log[k + 1].tx # c.tx)
                 /\ Segment(k).from + Segment(k).size = sent[c.tx].len
    <3>1. PICK n \in 1..Len(tx_log) : c = tx_log[n]
      BY <2>1 DEF Range
    <3>2. Whole(rx_log, sent, c.tx)
      BY <2>4, <3>1 DEF Inv, Covering
    <3>3. \A k \in 1..Len(rx_log) : rx_log[k] \in Range(rx_log)
      BY <2>1 DEF Range
    <3> QED
      BY <2>1, <2>4, <3>2, <3>3 DEF Whole, Segment
  <2> QED
    BY <2>2, <2>3, <2>4 DEF SegmentsCoverPacket, Follows
<1> QED
  BY <1>1, Invariance, PTL
=============================================================================
