---------------------------- MODULE NicQueuePair ----------------------------
(***************************************************************************)
(* An Ethernet queue pair (src/src/queue_pair.cpp): a transmit and a       *)
(* receive ring, a completion queue for each (src/src/completion_queue.cpp)*)
(* and process_once, which takes one transmit descriptor, segments its     *)
(* packet and loops the segments back into receive buffers.                *)
(*                                                                         *)
(* The rings are the queues DescriptorRing implements.  A packet is its    *)
(* length, a segment the header it repeats and the payload range it        *)
(* carries; what is decided by bytes or by memory (checksums, transfers)   *)
(* is a choice.                                                            *)
(***************************************************************************)
EXTENDS Integers, Sequences, FiniteSets, Functions

CONSTANTS TxDescriptors,   \* [len, checked, tso, mss, header, vlan]
          RxDescriptors,   \* [buffer, checked, strip, present]
          TxRingSize, RxRingSize, TxCqSize, RxCqSize,
          max_mtu, kMinMss, kMaxMss, kMaxTsoSegments,
          VlanBytes,       \* 4: the size of a VLAN tag
          Faults,          \* transfers to and from host memory may fail
          enable_tx_interrupts, enable_rx_interrupts,
          MaxTx, MaxRx     \* bounds on the descriptors ever pushed

ASSUME QueuePairAssumption ==
  /\ TxDescriptors \subseteq [len : Nat, checked : BOOLEAN, tso : BOOLEAN, mss : Nat,
                              header : Nat, vlan : BOOLEAN]
  /\ RxDescriptors \subseteq [buffer : Nat, checked : BOOLEAN, strip : BOOLEAN, present : BOOLEAN]
  /\ {TxRingSize, RxRingSize, TxCqSize, RxCqSize, MaxTx, MaxRx, VlanBytes} \subseteq Nat
  /\ {Faults, enable_tx_interrupts, enable_rx_interrupts} \subseteq BOOLEAN

VARIABLES tx_ring, rx_ring,    \* descriptors, each with its descriptor_index
          tx_cq, rx_cq,        \* completions waiting to be polled
          tx_events, rx_events,\* calls of the dispatcher's on_completion
          decodes,             \* the rings whose descriptor_size holds a descriptor
          worked,              \* what the last process_once returned
          stats,               \* packets sent and received, drops by reason
          uncounted,           \* ghost: lengths of the logs when stats was reset
          sent,                \* ghost: the transmit descriptors ever pushed
          pushed_rx,           \* ghost: number of receive descriptors pushed
          tx_log, rx_log,      \* ghost: completions made, also the dropped ones
          vanished,            \* ghost: descriptors taken, never completed
          discarded            \* ghost: descriptors a reset took off the rings

rings == <<tx_ring, rx_ring>>
cqs == <<tx_cq, rx_cq>>
logs == <<tx_events, rx_events, tx_log, rx_log, vanished>>
pushes == <<sent, pushed_rx, discarded>>
statVars == <<stats, uncounted>>
vars == <<rings, cqs, logs, worked, pushes, statVars, decodes>>

Drops == {"NoDescriptor", "ChecksumError", "MtuExceeded", "InvalidMss", "TooManySegments",
          "BufferTooSmall"}

QueuePairStats == [tx_packets |-> 0, rx_packets |-> 0, drops |-> [c \in Drops |-> 0]]

Init ==
  /\ tx_ring = <<>> /\ rx_ring = <<>> /\ tx_cq = <<>> /\ rx_cq = <<>>
  /\ tx_events = 0 /\ rx_events = 0 /\ tx_log = <<>> /\ rx_log = <<>>
  /\ worked = FALSE /\ stats = QueuePairStats /\ uncounted = <<0, 0>>
  /\ sent = <<>> /\ pushed_rx = 0 /\ vanished = {} /\ discarded = {}
  /\ decodes \in SUBSET {"tx", "rx"}

-----------------------------------------------------------------------------
(* The driver. *)

push_tx(d) ==
  /\ Len(sent) < MaxTx /\ Len(tx_ring) < TxRingSize
  /\ sent' = Append(sent, d)
  /\ tx_ring' = Append(tx_ring, [index |-> Len(sent'), desc |-> d])
  /\ UNCHANGED <<rx_ring, cqs, logs, worked, pushed_rx, discarded, statVars, decodes>>

push_rx(d) ==
  /\ pushed_rx < MaxRx /\ Len(rx_ring) < RxRingSize
  /\ pushed_rx' = pushed_rx + 1
  /\ rx_ring' = Append(rx_ring, [index |-> pushed_rx + 1, desc |-> d])
  /\ UNCHANGED <<tx_ring, cqs, logs, worked, sent, discarded, statVars, decodes>>

poll_tx == tx_cq # <<>> /\ tx_cq' = Tail(tx_cq)
           /\ UNCHANGED <<rings, rx_cq, logs, worked, pushes, statVars, decodes>>

poll_rx == rx_cq # <<>> /\ rx_cq' = Tail(rx_cq)
           /\ UNCHANGED <<rings, tx_cq, logs, worked, pushes, statVars, decodes>>

-----------------------------------------------------------------------------
(* Segmentation. *)

Smaller(m, n) == IF m < n THEN m ELSE n

Segmented(d) == d.tso /\ d.mss > 0 /\ d.len > d.mss

ValidMss(d) == d.mss \in kMinMss..kMaxMss /\ d.header <= d.len

(* Mutant of Chunk: the header is not skipped in the payload. *)
ChunkFromZero(d, i) ==
  LET from == (i - 1) * d.mss
  IN  [header |-> d.header, from |-> from, size |-> Smaller(d.mss, d.len - from)]

(* A segment repeats the header and carries the next mss bytes of payload. *)
Chunk(d, i) ==
  LET from == d.header + (i - 1) * d.mss
  IN  [header |-> d.header, from |-> from, size |-> Smaller(d.mss, d.len - from)]

build_segments(d) ==
  IF ~Segmented(d) \/ d.header >= d.len
  THEN <<[header |-> 0, from |-> 0, size |-> d.len]>>
  ELSE [i \in 1..((d.len - d.header + d.mss - 1) \div d.mss) |-> Chunk(d, i)]

(* What reaches the receive buffer: with the tag the transmit side inserts, *)
(* without the one the receive side strips.                                *)
WireSize(seg, tx, rx) ==
  LET full == seg.header + seg.size + (IF tx.vlan THEN VlanBytes ELSE 0)
  IN  IF rx.strip /\ (tx.vlan \/ rx.present) /\ full >= VlanBytes THEN full - VlanBytes ELSE full

-----------------------------------------------------------------------------
(* Completions. *)

(* Mutant of Posted: the capacity is not checked. *)
PostedUnbounded(cq, entries, size) == cq \o entries

(* post_completion of each entry in turn: a full queue drops the rest. *)
Posted(cq, entries, size) ==
  cq \o SubSeq(entries, 1, Smaller(Len(entries), size - Len(cq)))

(* Mutant of Counted: a segmented packet is counted once. *)
CountedOnce(reason, received, transmitted) ==
  [tx_packets |-> stats.tx_packets + Smaller(transmitted, 1),
   rx_packets |-> stats.rx_packets + received,
   drops |-> [c \in Drops |-> stats.drops[c] + IF c = reason THEN 1 ELSE 0]]

(* What process_once adds to the statistics; a fault has no count. *)
Counted(reason, received, transmitted) ==
  [tx_packets |-> stats.tx_packets + transmitted,
   rx_packets |-> stats.rx_packets + received,
   drops |-> [c \in Drops |-> stats.drops[c] + IF c = reason THEN 1 ELSE 0]]

(* The transmit descriptor t ends with the code given; rx are the receive  *)
(* completions made on its behalf.  interrupt: fire_tx_interrupt is called. *)
Finish(t, code, rx, interrupt) ==
  LET entry == [tx |-> t.index, code |-> code]
  IN  /\ tx_ring' = Tail(tx_ring)
      /\ tx_cq' = Posted(tx_cq, <<entry>>, TxCqSize)
      /\ tx_log' = Append(tx_log, entry)
      /\ tx_events' = tx_events + (IF interrupt /\ enable_tx_interrupts THEN 1 ELSE 0)
      /\ rx_ring' = SubSeq(rx_ring, Len(rx) + 1, Len(rx_ring))
      /\ rx_cq' = Posted(rx_cq, rx, RxCqSize)
      /\ rx_log' = rx_log \o rx
      /\ rx_events' = rx_events + (IF enable_rx_interrupts THEN Len(rx) ELSE 0)
      /\ worked' = TRUE
      /\ UNCHANGED <<vanished, pushes, uncounted, decodes>>

(* The transmit descriptor t ends without a completion: before are the     *)
(* receive completions made, popped counts the receive descriptors taken.  *)
Abandon(t, before, popped) ==
  /\ tx_ring' = Tail(tx_ring)
  /\ rx_ring' = SubSeq(rx_ring, popped + 1, Len(rx_ring))
  /\ rx_cq' = Posted(rx_cq, before, RxCqSize)
  /\ rx_log' = rx_log \o before
  /\ rx_events' = rx_events + (IF enable_rx_interrupts THEN Len(before) ELSE 0)
  /\ worked' = FALSE
  /\ vanished' = vanished \cup {<<"tx", t.index>>}
                          \cup {<<"rx", rx_ring[j].index>> : j \in (Len(before) + 1)..popped}
  /\ stats' = Counted("Fault", Len(before), 0)
  /\ UNCHANGED <<tx_cq, tx_log, tx_events, pushes, uncounted, decodes>>

(* Mutant of Refuse: the interrupt is forgotten. *)
RefuseSilently(t, code) == Finish(t, code, <<>>, FALSE) /\ stats' = Counted(code, 0, 0)

(* The packet is refused before a receive descriptor is touched. *)
Refuse(t, code) == Finish(t, code, <<>>, TRUE) /\ stats' = Counted(code, 0, 0)

(* Mutant of Received: every segment reports the first descriptor. *)
ReceivedFirst(t, segs, k, code) ==
  [rx |-> rx_ring[1].index, code |-> code, tx |-> t.index, seg |-> segs[k]]

(* The receive completion of the k-th segment. *)
Received(t, segs, k, code) ==
  [rx |-> rx_ring[k].index, code |-> code, tx |-> t.index, seg |-> segs[k]]

Fits(t, segs, k) == WireSize(segs[k], t.desc, rx_ring[k].desc) <= rx_ring[k].desc.buffer

Successes(t, segs, n) == [j \in 1..n |-> Received(t, segs, j, "Success")]

(* The loop over the segments: the first k-1 arrive, the k-th ends it. *)
process_segments(t, segs) ==
  \/ /\ "rx" \in decodes /\ \A k \in DOMAIN segs : Fits(t, segs, k)
     /\ Finish(t, "Success", Successes(t, segs, Len(segs)), TRUE)
     /\ stats' = Counted("Success", Len(segs), Len(segs))
  \/ \E k \in DOMAIN segs :
       LET before == Successes(t, segs, k - 1)
           ended(code) == Append(before, Received(t, segs, k, code))
       IN  /\ \A j \in 1..(k - 1) : "rx" \in decodes /\ Fits(t, segs, j)
           /\ \/ Faults /\ Abandon(t, before, k - 1)            \* the pop fails
              \/ "rx" \notin decodes /\ Abandon(t, before, k)   \* popped, not decoded
              \/ /\ "rx" \in decodes /\ ~Fits(t, segs, k)
                 /\ Finish(t, "Success", ended("BufferTooSmall"), FALSE)
                 /\ stats' = Counted("BufferTooSmall", k - 1, 0)
              \/ /\ "rx" \in decodes /\ Fits(t, segs, k) /\ Faults
                 /\ Finish(t, "Fault", ended("Fault"), FALSE)
                 /\ stats' = Counted("Fault", k - 1, 0)
              \/ /\ "rx" \in decodes /\ Fits(t, segs, k) /\ rx_ring[k].desc.checked
                 /\ Finish(t, "Success", ended("ChecksumError"), FALSE)
                 /\ stats' = Counted("ChecksumError", k - 1, 0)

(* The checks a descriptor passes, in order, before its segments are sent. *)
Process(t) ==
  LET d == t.desc
      segs == build_segments(d)
  IN  \/ rx_ring = <<>> /\ Refuse(t, "NoDescriptor")
      \/ /\ rx_ring # <<>>
         /\ \/ Faults /\ Refuse(t, "Fault")
            \/ d.checked /\ Refuse(t, "ChecksumError")
            \/ d.len > max_mtu /\ Refuse(t, "MtuExceeded")
            \/ /\ d.len <= max_mtu
               /\ \/ Segmented(d) /\ ~ValidMss(d) /\ Refuse(t, "InvalidMss")
                  \/ /\ Segmented(d) => ValidMss(d)
                     /\ \/ Len(segs) > kMaxTsoSegments /\ Refuse(t, "TooManySegments")
                        \/ /\ Len(segs) <= kMaxTsoSegments
                           /\ \/ Len(rx_ring) < Len(segs) /\ Refuse(t, "NoDescriptor")
                              \/ Len(rx_ring) >= Len(segs) /\ process_segments(t, segs)

process_once ==
  \/ /\ tx_ring = <<>> \/ Faults      \* empty, or the pop fails
     /\ worked' = FALSE
     /\ UNCHANGED <<rings, cqs, logs, pushes, statVars, decodes>>
  \/ tx_ring # <<>> /\ "tx" \notin decodes /\ Abandon(Head(tx_ring), <<>>, 0)
  \/ tx_ring # <<>> /\ "tx" \in decodes /\ Process(Head(tx_ring))

OnRings(tx, rx) == {<<"tx", r.index>> : r \in Range(tx)} \cup {<<"rx", r.index>> : r \in Range(rx)}

StatsReset == stats' = QueuePairStats /\ uncounted' = <<Len(tx_log), Len(rx_log)>>

reset_stats == StatsReset /\ UNCHANGED <<rings, cqs, logs, worked, pushes, decodes>>

reset ==
  /\ tx_ring' = <<>> /\ rx_ring' = <<>> /\ tx_cq' = <<>> /\ rx_cq' = <<>>
  /\ discarded' = discarded \cup OnRings(tx_ring, rx_ring)
  /\ StatsReset
  /\ UNCHANGED <<logs, worked, sent, pushed_rx, decodes>>

Next ==
  \/ \E d \in TxDescriptors : push_tx(d)
  \/ \E d \in RxDescriptors : push_rx(d)
  \/ poll_tx
  \/ poll_rx
  \/ process_once
  \/ reset_stats
  \/ reset

Spec == Init /\ [][Next]_vars

-----------------------------------------------------------------------------
(* The rings and queues hold at most what they were sized for. *)
TypeOK ==
  /\ Len(tx_ring) <= TxRingSize /\ Len(rx_ring) <= RxRingSize
  /\ Len(tx_cq) <= TxCqSize /\ Len(rx_cq) <= RxCqSize
  /\ worked \in BOOLEAN
  /\ tx_events \in 0..MaxTx /\ rx_events \in 0..MaxRx

(* Every descriptor a driver pushed is in exactly one place: still on its   *)
(* ring, discarded by a reset, completed, once and in ring order, or taken  *)
(* by a process_once that returned false without completing it.  The last   *)
(* needs a pop of a receive descriptor that fails, or a ring configured     *)
(* with descriptors too short to decode: a transmit ring of them completes  *)
(* nothing, and only from a receive ring of them is a descriptor lost.      *)
DescriptorsAccountedFor ==
  LET completed == {<<"tx", c.tx>> : c \in Range(tx_log)} \cup {<<"rx", c.rx>> : c \in Range(rx_log)}
      places == <<OnRings(tx_ring, rx_ring), completed, vanished, discarded>>
  IN  /\ UNION Range(places) = {<<"tx", i>> : i \in DOMAIN sent} \cup {<<"rx", i>> : i \in 1..pushed_rx}
      /\ \A i, j \in DOMAIN places : i # j => places[i] \cap places[j] = {}
      /\ \A i, j \in DOMAIN tx_log : i < j => tx_log[i].tx < tx_log[j].tx
      /\ \A i, j \in DOMAIN rx_log : i < j => rx_log[i].rx < rx_log[j].rx
      /\ vanished # {} => Faults \/ decodes # {"tx", "rx"}
      /\ "tx" \notin decodes => completed = {}
      /\ \A i \in 1..pushed_rx : <<"rx", i>> \in vanished => decodes = {"tx"}

Segment(k) == rx_log[k].seg

(* The segments given to receive buffers on behalf of a transmit descriptor *)
(* are the packet from its first payload byte on, in order, without gap or  *)
(* overlap; all of it, when the descriptor and all its receive completions  *)
(* succeeded.                                                               *)
SegmentsCoverPacket ==
  /\ \A j, k \in DOMAIN rx_log : j < k => rx_log[j].tx <= rx_log[k].tx
  /\ \A k \in DOMAIN rx_log :
       IF k > 1 /\ rx_log[k - 1].tx = rx_log[k].tx
       THEN Segment(k).from = Segment(k - 1).from + Segment(k - 1).size
       ELSE Segment(k).from = Segment(k).header
  /\ \A c \in Range(tx_log) :
       (c.code = "Success" /\ \A r \in Range(rx_log) : r.tx = c.tx => r.code = "Success") =>
         \E k \in DOMAIN rx_log :
           /\ rx_log[k].tx = c.tx /\ (k < Len(rx_log) => rx_log[k + 1].tx # c.tx)
           /\ Segment(k).from + Segment(k).size = sent[c.tx].len

(* The receive side of the transmit descriptor failed. *)
Failed(i) == \E k \in DOMAIN rx_log : rx_log[k].tx = i /\ rx_log[k].code # "Success"

(* The completions made since the statistics were reset. *)
TxSince == (uncounted[1] + 1)..Len(tx_log)

RxSince == (uncounted[2] + 1)..Len(rx_log)

TxCount(code) == Cardinality({k \in TxSince : tx_log[k].code = code})

RxCount(code) == Cardinality({k \in RxSince : rx_log[k].code = code})

SentWhole(i) ==
  ~Failed(i) /\ \E j \in TxSince : tx_log[j].tx = i /\ tx_log[j].code = "Success"

(* Completions are told of, dropped ones included.  The interrupt           *)
(* dispatcher hears of every receive completion, of the transmit completion *)
(* of every packet that did not fail at a receive buffer, and of no         *)
(* completion twice.  The statistics, since they were reset, count every    *)
(* received segment, every segment of a packet sent whole, and every        *)
(* refusal under its reason; of the failures only memory faults go          *)
(* uncounted.                                                               *)
CompletionsAreReported ==
  /\ enable_tx_interrupts =>
       tx_events \in Cardinality({k \in DOMAIN tx_log : ~Failed(tx_log[k].tx)})..Len(tx_log)
  /\ enable_rx_interrupts => rx_events = Len(rx_log)
  /\ stats.rx_packets = RxCount("Success")
  /\ stats.tx_packets = Cardinality({k \in RxSince : SentWhole(rx_log[k].tx)})
  /\ \A reason \in Drops : stats.drops[reason] = TxCount(reason) + RxCount(reason)
=============================================================================
