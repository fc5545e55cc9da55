--------------------------- MODULE DescriptorRing ---------------------------
(***************************************************************************)
(* The descriptor ring (src/src/descriptor_ring.cpp) with the doorbell its *)
(* producer rings (src/src/doorbell.cpp).  The driver pushes, the device   *)
(* pops; the slots are either inside the model or in host memory, where a  *)
(* transfer can fail.                                                      *)
(***************************************************************************)
EXTENDS Integers, Sequences

CONSTANTS RingSize,      \* config_.ring_size
          Descriptors,   \* the descriptors a driver may push
          HostBacked,    \* config_.host_backed: the slots live in host memory
          Nothing,       \* no payload, nothing popped yet
          MaxQuiet       \* bound on the ghost counter quiet

ASSUME RingSizeAssumption == RingSize \in Nat
ASSUME HostBackedAssumption == HostBacked \in BOOLEAN
ASSUME MaxQuietAssumption == MaxQuiet \in Nat
ASSUME NothingAssumption == Nothing \notin Nat

VARIABLES slots,            \* storage_, or the host memory behind the ring
          producer_index, consumer_index, count,
          popped,           \* the descriptor the last successful pop returned
          result,           \* the DmaResult of the last operation
          doorbell_masked,  \* Doorbell::masked_
          last_payload,     \* Doorbell::last_payload_
          quiet             \* ghost: changes of producer_index not rung since

slotVars == <<slots, producer_index, consumer_index, count>>
doorbellVars == <<doorbell_masked, last_payload, quiet>>
ringVars == <<slotVars, popped, result, doorbellVars>>

Slots == 0..(RingSize - 1)

RingInit ==
  /\ slots \in [Slots -> Descriptors]     \* host memory may hold anything
  /\ producer_index = 0 /\ consumer_index = 0 /\ count = 0
  /\ popped = Nothing /\ result = "None"
  /\ doorbell_masked = FALSE /\ last_payload = Nothing /\ quiet = 0

is_full == count = RingSize

is_empty == count = 0

(* Doorbell::ring: a masked doorbell ignores the ring. *)
Ring(payload) ==
  /\ UNCHANGED doorbell_masked
  /\ IF doorbell_masked
     THEN /\ UNCHANGED last_payload
          /\ quiet' = quiet + 1
     ELSE /\ last_payload' = payload
          /\ quiet' = 0

(* An early return with an error: nothing but the result changes. *)
Refuse(why) ==
  /\ result' = why
  /\ UNCHANGED <<slotVars, popped, doorbellVars>>

(* Mutant of Store: the doorbell rings before the producer advances. *)
StoreRingsEarly(d) ==
  /\ doorbell_masked => quiet < MaxQuiet
  /\ slots' = [slots EXCEPT ![producer_index] = d]
  /\ producer_index' = (producer_index + 1) % RingSize
  /\ count' = count + 1
  /\ Ring(producer_index)
  /\ result' = "None"
  /\ UNCHANGED <<consumer_index, popped>>

(* The slot is written, the producer advances, the doorbell rings. *)
Store(d) ==
  /\ doorbell_masked => quiet < MaxQuiet
  /\ slots' = [slots EXCEPT ![producer_index] = d]
  /\ producer_index' = (producer_index + 1) % RingSize
  /\ count' = count + 1
  /\ Ring(producer_index')
  /\ result' = "None"
  /\ UNCHANGED <<consumer_index, popped>>

push_descriptor(d) ==
  \/ is_full /\ Refuse("ring_full")
  \/ ~is_full /\ HostBacked /\ Refuse("dma_error")
  \/ ~is_full /\ Store(d)

(* Mutant of Fetch: the consumer does not advance. *)
FetchStays ==
  /\ popped' = slots[consumer_index]
  /\ count' = count - 1
  /\ result' = "None"
  /\ UNCHANGED <<slots, producer_index, consumer_index, doorbellVars>>

(* The slot is read and the consumer advances; nobody is told. *)
Fetch ==
  /\ popped' = slots[consumer_index]
  /\ consumer_index' = (consumer_index + 1) % RingSize
  /\ count' = count - 1
  /\ result' = "None"
  /\ UNCHANGED <<slots, producer_index, doorbellVars>>

pop_descriptor ==
  \/ is_empty /\ Refuse("ring_empty")
  \/ ~is_empty /\ HostBacked /\ Refuse("dma_error")
  \/ ~is_empty /\ Fetch

(* DescriptorRing::reset leaves the slots and the doorbell as they are: the *)
(* doorbell keeps announcing an index of the ring's previous life.          *)
ring_reset ==
  /\ quiet < MaxQuiet
  /\ producer_index' = 0 /\ consumer_index' = 0 /\ count' = 0
  /\ quiet' = quiet + 1
  /\ UNCHANGED <<slots, popped, result, doorbell_masked, last_payload>>

set_masked(b) ==
  /\ doorbell_masked' = b
  /\ UNCHANGED <<slotVars, popped, result, last_payload, quiet>>

(* Doorbell::reset *)
DoorbellReset ==
  /\ last_payload' = Nothing
  /\ UNCHANGED <<slotVars, popped, result, doorbell_masked, quiet>>

RingNext ==
  \/ \E d \in Descriptors : push_descriptor(d)
  \/ pop_descriptor
  \/ ring_reset
  \/ \E b \in BOOLEAN : set_masked(b)
  \/ DoorbellReset

RingSpec == RingInit /\ [][RingNext]_ringVars
-----------------------------------------------------------------------------
(* The variables have their types: both indices name a slot (0 in a ring of *)
(* size 0, which is full and empty at once and refuses every operation).    *)
RingTypeOK ==
  /\ slots \in [Slots -> Descriptors]
  /\ producer_index \in Slots \cup {0}
  /\ consumer_index \in Slots \cup {0}
  /\ count \in 0..RingSize
  /\ popped \in Descriptors \cup {Nothing}
  /\ result \in {"None", "ring_full", "ring_empty", "dma_error"}
  /\ doorbell_masked \in BOOLEAN
  /\ last_payload \in Slots \cup {Nothing}
  /\ quiet \in Nat

(* The two indices and the count, which push, pop and reset update apart,   *)
(* always agree: the producer is count slots ahead of the consumer.         *)
IndicesAgree == RingSize > 0 => producer_index = (consumer_index + count) % RingSize

(* A doorbell that announced something announces the producer's index,      *)
(* unless a masked push or a reset of the ring moved it silently since.     *)
DoorbellCurrent == (last_payload # Nothing /\ quiet = 0) => last_payload = producer_index

RingInv == RingTypeOK /\ IndicesAgree /\ DoorbellCurrent

(* The items in the ring, oldest first: the refinement mapping. *)
Contents == [i \in 1..count |-> slots[(consumer_index + i - 1) % RingSize]]

Fifo == INSTANCE BoundedFifo WITH
          Capacity <- RingSize, Items <- Descriptors, None <- Nothing,
          queue <- Contents, out <- popped

(* The ring implements the bounded first-in first-out queue, through every  *)
(* wrap of its indices: nothing is lost, duplicated, reordered or           *)
(* overwritten, and a failed operation changes nothing.                     *)
ImplementsFifo == Fifo!Spec
=============================================================================
