------------------------------ MODULE HostRing ------------------------------
(***************************************************************************)
(* A descriptor ring in host memory: DescriptorRing's push and pop go      *)
(* through DmaEngine, next to the scatter, gather and burst transfers of   *)
(* packet data, while faults are injected and lifted.  Whether an          *)
(* operation of the ring fails is decided by the memory behind its slot.   *)
(***************************************************************************)
EXTENDS DescriptorRing, DmaEngine

CONSTANTS base_address,    \* of the ring; a slot is one cell
          Transfers,       \* the transfers of packet data: lists and bursts
          Payloads,        \* what a device's buffer holds before a write
          FaultPoints      \* addresses a test injects faults at

VARIABLES scattered,       \* ghost: the last write of packet data, if it succeeded
          gathered         \* what a transfer that succeeded has just read

dmaVars == <<memory, faulty, scattered, gathered>>
Undisturbed == gathered' = Nothing /\ UNCHANGED <<memory, faulty, scattered>>
hostVars == <<ringVars, dmaVars>>

slot_address(slot) == (base_address + slot) % AddressModulus

(* Slot i is the cell of memory m behind it, if there is one. *)
SlotHeld(m, i) ==
  LET address == slot_address(i)
  IN  (address \in DOMAIN Translator /\ Translator[address] \in Cells) =>
        m[Translator[address]] = slots[i]

HostInit ==
  /\ RingInit
  /\ memory \in {m \in [Cells -> Descriptors] : \A i \in Slots : SlotHeld(m, i)}
  /\ faulty = {}
  /\ scattered = Nothing /\ gathered = Nothing

(* push_descriptor of a ring in host memory. *)
HostPush(d) ==
  LET address == slot_address(producer_index)
  IN  /\ gathered' = Nothing /\ UNCHANGED <<faulty, scattered>>
      /\ \/ is_full /\ Refuse("ring_full") /\ UNCHANGED memory
         \/ ~is_full /\ ~Ok(address, 1) /\ Refuse("dma_error") /\ UNCHANGED memory
         \/ /\ ~is_full /\ Ok(address, 1)
            /\ memory' = Written(memory, address, d)
            /\ Store(d)

(* pop_descriptor: what it reads is what SlotsAreMemory says it is. *)
HostPop ==
  /\ Undisturbed
  /\ \/ is_empty /\ Refuse("ring_empty")
     \/ ~is_empty /\ ~Ok(slot_address(consumer_index), 1) /\ Refuse("dma_error")
     \/ ~is_empty /\ Ok(slot_address(consumer_index), 1) /\ Fetch

-----------------------------------------------------------------------------
(* Transfers of packet data. *)

PiecesOf(t) == IF t.burst THEN Beats(t.address, t.length, t.beat_bytes, t.stride_bytes)
                          ELSE Pieces(t.entries)

(* A burst moves the whole buffer it is given. *)
Given(t, buffer) == t.burst => t.length = Len(buffer)

Refused(t, buffer) == IF t.burst THEN BurstRefused(t.length, t.beat_bytes, t.stride_bytes)
                                 ELSE SglRefused(t.entries, buffer)

Complete(t) == Done(PiecesOf(t)) = DOMAIN PiecesOf(t)

(* transfer_sgl with direction Write, and write_burst. *)
Scatter(t, buffer) ==
  /\ ~Refused(t, buffer)
  /\ memory' = Scattered(PiecesOf(t), buffer)
  /\ scattered' = IF Complete(t) THEN [by |-> t, buffer |-> buffer] ELSE Nothing
  /\ gathered' = Nothing
  /\ UNCHANGED <<ringVars, faulty>>

(* transfer_sgl with direction Read, and read_burst. *)
Gather(t, buffer) ==
  /\ ~Refused(t, buffer)
  /\ gathered' = IF Complete(t) THEN [by |-> t, buffer |-> Gathered(PiecesOf(t), buffer)] ELSE Nothing
  /\ UNCHANGED <<ringVars, memory, faulty, scattered>>

(* A transfer that is refused returns an error and changes nothing. *)
TransferRefused(t, buffer) == Refused(t, buffer) /\ UNCHANGED hostVars

inject(a) ==
  /\ faulty' = IF a \in faulty THEN faulty \ {a} ELSE faulty \cup {a}
  /\ gathered' = Nothing
  /\ UNCHANGED <<ringVars, memory, scattered>>

HostNext ==
  \/ \E d \in Descriptors : HostPush(d)
  \/ HostPop
  \/ ring_reset /\ Undisturbed
  \/ \E b \in BOOLEAN : set_masked(b) /\ Undisturbed
  \/ DoorbellReset /\ Undisturbed
  \/ \E t \in Transfers, buffer \in Payloads :
       /\ Given(t, buffer)
       /\ Scatter(t, buffer) \/ Gather(t, buffer) \/ TransferRefused(t, buffer)
  \/ \E a \in FaultPoints : inject(a)

HostSpec == HostInit /\ [][HostNext]_hostVars

-----------------------------------------------------------------------------
(* What a driver sees to when it lays out its memory: no two slots share a  *)
(* cell, and a transfer that is carried out reaches no cell of the ring and *)
(* no cell twice.                                                           *)
ReachedBy(p) == IF p.address \in DOMAIN Translator THEN CellsOf(p) ELSE {}

RingCells == {Translator[a] : a \in {slot_address(i) : i \in Slots} \cap DOMAIN Translator}

LaidOut(pieces) ==
  /\ pieces \in Seq([address : Nat, from : Nat, length : Nat])
  /\ \A k \in DOMAIN pieces : ReachedBy(pieces[k]) \cap RingCells = {}
  /\ \A j, k \in DOMAIN pieces : j # k => ReachedBy(pieces[j]) \cap ReachedBy(pieces[k]) = {}

ASSUME LayoutAssumption ==
  /\ base_address \in Nat /\ RingSize <= AddressModulus
  /\ \A i, j \in Slots :
       (i # j /\ {slot_address(i), slot_address(j)} \subseteq DOMAIN Translator) =>
         Translator[slot_address(i)] # Translator[slot_address(j)]
  /\ \A t \in Transfers, buffer \in Payloads :
       (Given(t, buffer) /\ ~Refused(t, buffer)) => LaidOut(PiecesOf(t))

-----------------------------------------------------------------------------
(* The slots the ring counts on are the host memory behind them: no transfer *)
(* of packet data reaches them, however addresses are translated, strided,   *)
(* wrapped or cut off, and a push that failed left no trace.                 *)
SlotsAreMemory == \A i \in Slots : SlotHeld(memory, i)

(* A read over a list or a burst that succeeds returns what the last write  *)
(* of packet data put there, if it succeeded over the same list or burst.   *)
GatherReturnsScattered ==
  (gathered # Nothing /\ scattered # Nothing /\ gathered.by = scattered.by) =>
    \A k \in DOMAIN PiecesOf(gathered.by) :
      \A i \in Part(PiecesOf(gathered.by)[k]) \cap DOMAIN gathered.buffer :
        gathered.buffer[i] = scattered.buffer[i]
=============================================================================
