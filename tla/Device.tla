------------------------------- MODULE Device -------------------------------
(***************************************************************************)
(* A device with a queue manager (src/src/device.cpp): its configuration   *)
(* space (src/src/config_space.cpp), its register file                     *)
(* (src/src/register.cpp), its queues, and the register window the driver  *)
(* resets it through (src/driver/src/mmio_adapter.cpp).                    *)
(*                                                                         *)
(* A byte of the configuration space is what was last put there: nothing,  *)
(* what initialize writes, or what the host wrote.  A register is the set  *)
(* of its bits that are one.                                               *)
(***************************************************************************)
EXTENDS QueueManager

CONSTANTS kConfigSpaceSize,
          ConfigOffsets,      \* the offsets the host writes in a run
          Registers,          \* the registers the host writes in a run
          Bits                \* the bits of a register

ASSUME DeviceAssumption ==
  /\ kConfigSpaceSize \in Nat /\ ConfigOffsets \subseteq Nat
  /\ Registers \subseteq {"CTRL", "STATUS", "ICR", "ICS", "IMS", "IMC", "RCTL", "TCTL"}

VARIABLES state_, config_space, registers,
          last, ever          \* ghosts: the value last written to a register, and
                              \* all the bits ever written to one, since the reset

deviceVars == <<state_, config_space, registers, last, ever>>
allVars == <<vars, deviceVars>>

(* The constructor: nothing is set up before the first reset. *)
DeviceInit ==
  /\ Init
  /\ state_ = "Uninitialized"
  /\ config_space = [b \in 0..(kConfigSpaceSize - 1) |-> "zero"]
  /\ registers = <<>> /\ last = <<>> /\ ever = <<>>
-----------------------------------------------------------------------------
(* The register file. *)

MakeDefaultNicRegisters ==
  [CTRL |-> "RW", STATUS |-> "RO", ICR |-> "RC", ICS |-> "WO", IMS |-> "RW1S", IMC |-> "WO",
   RCTL |-> "RW", TCTL |-> "RW"]

Access(r) == MakeDefaultNicRegisters[r]

With(access) == {r \in DOMAIN MakeDefaultNicRegisters : Access(r) = access}

(* The masks of the registers a write can change hold every bit. *)
Mask(r) == IF Access(r) \in {"RO", "RC"} THEN {} ELSE Bits

(* Mutant of apply_write: setting bits replaces the register. *)
apply_writeReplaces(r, old, value) == (old \ Mask(r)) \cup (value \cap Mask(r))

apply_write(r, old, value) ==
  CASE Access(r) \in {"RW", "WO"} -> (old \ Mask(r)) \cup (value \cap Mask(r))
    [] Access(r) = "RW1C"         -> old \ (value \cap Mask(r))
    [] Access(r) = "RW1S"         -> old \cup (value \cap Mask(r))
    [] OTHER                      -> old

(* Every register is zero out of reset. *)
initialize_register_file ==
  /\ registers' = [r \in DOMAIN MakeDefaultNicRegisters |-> {}]
  /\ last' = [r \in With("RW") |-> {}] /\ ever' = [r \in With("RW1S") |-> {}]

(* write32: a register that is not mapped, or read-only, ignores it. *)
write_register(r, value) ==
  /\ IF r \in DOMAIN registers /\ Access(r) # "RO"
     THEN /\ registers' = [registers EXCEPT ![r] = apply_write(r, @, value)]
          /\ last' = [p \in DOMAIN last |-> IF p = r THEN value ELSE last[p]]
          /\ ever' = [p \in DOMAIN ever |-> IF p = r THEN ever[p] \cup value ELSE ever[p]]
     ELSE UNCHANGED <<registers, last, ever>>
  /\ UNCHANGED <<vars, state_, config_space>>

AllOnes == "0xFFFFFFFF"

(* read32: reading changes nothing, not even a read-to-clear register. *)
read_register(r) ==
  IF r \notin DOMAIN registers THEN AllOnes
  ELSE IF Access(r) = "WO" THEN {} ELSE registers[r]
-----------------------------------------------------------------------------
(* The configuration space. *)

kDeviceId == 2
kRevisionId == 8
kCacheLineSize == 12
kHeaderType == 14

(* Mutant of is_read_only: the high byte of the device identifier. *)
is_read_onlyShort(b) ==
  b <= kDeviceId \/ (b >= kRevisionId /\ b < kCacheLineSize) \/ b = kHeaderType

is_read_only(b) ==
  b <= kDeviceId + 1 \/ (b >= kRevisionId /\ b < kCacheLineSize) \/ b = kHeaderType

initialize_config_space == config_space' = [b \in DOMAIN config_space |-> "device"]

(* write8, write16 and write32: bytes of a value that does not fit, or      *)
(* whose first byte is read-only, are ignored.                              *)
write_config(offset, width) ==
  /\ IF offset + width - 1 < kConfigSpaceSize /\ ~is_read_only(offset)
     THEN config_space' = [b \in DOMAIN config_space |->
            IF b \in offset..(offset + width - 1) THEN "host" ELSE config_space[b]]
     ELSE UNCHANGED config_space
  /\ UNCHANGED <<vars, state_, registers, last, ever>>
-----------------------------------------------------------------------------
(* Device::reset.  The interrupt dispatcher keeps its state. *)
device_reset ==
  /\ initialize_config_space
  /\ initialize_register_file
  /\ reset
  /\ state_' = "Ready"

(* The adapter's window reads as zero but for its status and MTU. *)
mmio_read32(r) ==
  IF r = "DeviceStatus" THEN {"LinkUp", "Ready"} ELSE IF r = "Mtu" THEN {"1500"} ELSE {}

(* Only the reset bit of the control word does anything. *)
mmio_write32(r, value) ==
  IF r = "DeviceControl" /\ "Reset" \in value THEN device_reset ELSE UNCHANGED allVars

set_device_control(bits) ==
  mmio_write32("DeviceControl", mmio_read32("DeviceControl") \cup bits)

clear_device_control(bits) ==
  mmio_write32("DeviceControl", mmio_read32("DeviceControl") \ bits)

ControlBits == {"Reset", "Enable", "InterruptEnable"}

Queue(A) == A /\ UNCHANGED deviceVars

DeviceNext ==
  \/ \E q \in Queues : Queue(submit(q))
  \/ Queue(process_once)
  \/ \E r \in Registers, value \in SUBSET Bits : write_register(r, value)
  \/ \E offset \in ConfigOffsets, width \in {1, 2, 4} : write_config(offset, width)
  \/ \E bits \in SUBSET ControlBits : set_device_control(bits) \/ clear_device_control(bits)
  \/ device_reset

(* The device loop keeps calling process_once. *)
DeviceSpec == DeviceInit /\ [][DeviceNext]_allVars /\ WF_allVars(Queue(process_once))
-----------------------------------------------------------------------------
(* Before the first reset every register reads as all ones.  After it the   *)
(* host reads from a register it controls what it wrote last, from the      *)
(* interrupt mask every bit it wrote since the reset, and zero from the     *)
(* rest, whatever it wrote to them in whatever order.                       *)
RegistersReadBack ==
  \A r \in DOMAIN MakeDefaultNicRegisters :
    read_register(r) =
      CASE state_ = "Uninitialized" -> AllOnes
        [] state_ = "Ready" /\ r \in DOMAIN last -> last[r]
        [] state_ = "Ready" /\ r \in DOMAIN ever -> ever[r]
        [] OTHER -> {}

(* The identifiers, revision and class code, and header type. *)
ReadOnlyBytes == 0..3 \cup 8..11 \cup {14}

(* Of the bytes is_read_only's comments call RO ("Vendor ID (0x00-0x01),    *)
(* Device ID (0x02-0x03)", "Revision ID (0x08) and Class Code (0x09-0x0B)", *)
(* "Header Type (0x0E)") one holds what the host wrote only where a wider   *)
(* write began at a writable byte before it and ran into it: the            *)
(* identifiers, which have none before them, are never changed; the others  *)
(* are not so safe.                                                         *)
ReadOnlyBySpill ==
  \A b \in ReadOnlyBytes \cap DOMAIN config_space :
    config_space[b] = "host" => b > 0 /\ config_space[b - 1] = "host"
=============================================================================
