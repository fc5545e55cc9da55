---------------------------- MODULE DeviceProofs ----------------------------
(***************************************************************************)
(* The weighted round-robin scheduler shares the device by weight, for any *)
(* number of queues and any weights, and the device around it reads back   *)
(* what the host wrote, for registers of any number of bits.  The interrupt*)
(* dispatcher, for every set of queues and vectors and every threshold,    *)
(* loses no completion it accepted and reports none twice, its timers      *)
(* never fire for nothing, and a batch that is due is never left waiting.  *)
(* The descriptor ring, for every size, is a bounded first-in first-out    *)
(* queue, also in a host memory it shares with packet data.                *)
(***************************************************************************)
EXTENDS Device, InterruptDispatcher, HostRing, WellFoundedInduction, TLAPS

(* Leaves are for Zenon; the ones with arithmetic, sequences or records in   *)
(* them name SMT.                                                           *)
USE Zenon

(* The scheduler's index arithmetic without the modulus. *)
LEMMA SuccIs ==
  ASSUME NEW i \in Queues
  PROVE  /\ Succ(i) = IF i = N - 1 THEN 0 ELSE i + 1
         /\ Succ(i) \in Queues
<1>1. CASE i = N - 1
  BY SMT, <1>1, NAssumption DEF Succ, Queues
<1>2. CASE i < N - 1
  BY SMT, <1>2, NAssumption DEF Succ, Queues
<1> QED
  BY SMT, <1>1, <1>2, NAssumption DEF Queues

(* At the start, and after a reset, nobody has waited. *)
LEMMA InitInv == Init => TypeOK /\ ShareInv
<1> SUFFICES ASSUME Init PROVE TypeOK /\ ShareInv
  OBVIOUS
<1>1. 0 \in Queues /\ Weight[0] \in Nat \ {0}
  BY SMT, NAssumption, WeightAssumption DEF Queues
<1>2. TypeOK
  BY SMT, <1>1, BacklogAssumption DEF Init, TypeOK
<1>3. ShareInv
  BY SMT, <1>1, WeightAssumption DEF Init, ShareInv
<1> QED
  BY <1>2, <1>3

(* A pass over queues that report no work keeps every backlog in bounds. *)
LEMMA BacklogBounded ==
  ASSUME TypeOK, NEW lost, lost \subseteq {r \in Queues : backlog[r] > 0},
         backlog' = [r \in Queues |-> IF r \in lost THEN backlog[r] - 1 ELSE backlog[r]]
  PROVE  backlog' \in [Queues -> 0..MaxBacklog]
BY SMT, BacklogAssumption DEF TypeOK

(* A service of q by the scheduler preserves types and shares. *)
LEMMA ServeInv ==
  ASSUME TypeOK, ShareInv, NEW q \in Queues, Serve(q)
  PROVE  TypeOK' /\ ShareInv'
<1> DEFINE credit == Credit(q)
<1>1. PICK lost \in SUBSET Queues :
        /\ backlog[q] > 0
        /\ Passed(Before(q), lost)
        /\ backlog' = [r \in Queues |-> IF r \in lost \cup {q} THEN backlog[r] - 1 ELSE backlog[r]]
        /\ scheduler_index' = IF credit > 1 THEN q ELSE Succ(q)
        /\ scheduler_credit' = IF credit > 1 THEN credit - 1 ELSE Weight[Succ(q)]
        /\ waited' = [p \in Queues |->
             IF p = q \/ p \in Before(q) THEN [r \in Queues |-> 0]
             ELSE [waited[p] EXCEPT ![q] = @ + 1]]
  BY DEF Serve, Reached
<1>2. credit \in 1..Weight[q] /\ Weight[q] \in Nat /\ scheduler_index \in Queues
  BY SMT, WeightAssumption DEF TypeOK, Credit
<1> HIDE DEF credit
<1>3. Succ(q) = (IF q = N - 1 THEN 0 ELSE q + 1) /\ Succ(q) \in Queues
  BY SuccIs
<1>4. backlog' \in [Queues -> 0..MaxBacklog]
  BY <1>1, BacklogBounded DEF Passed, Before
<1>5. waited' \in [Queues -> [Queues -> Nat]]
  BY SMT, <1>1 DEF TypeOK
<1>6. TypeOK'
  BY SMT, <1>1, <1>2, <1>3, <1>4, <1>5, WeightAssumption DEF TypeOK
<1>7. ASSUME NEW p \in Queues, NEW r \in Queues
      PROVE  /\ p # r => waited'[p][r] <= Weight[r]
             /\ Distance(r)' < Distance(p)' =>
                  waited'[p][r] <= IF r = scheduler_index' THEN Weight[r] - scheduler_credit' ELSE 0
  <2>1. /\ p \in Int /\ q \in Int /\ r \in Int /\ scheduler_index \in Int
        /\ p \in 0..(N-1) /\ q \in 0..(N-1) /\ r \in 0..(N-1) /\ scheduler_index \in 0..(N-1)
    BY SMT, <1>2, NAssumption DEF Queues
  <2>2. Weight[r] \in Nat /\ Weight[r] > 0 /\ waited[p][r] \in Nat /\ waited[p][q] \in Nat
    BY SMT, WeightAssumption DEF TypeOK
  <2>3. CASE p = q \/ p \in Before(q)
    <3>1. waited'[p][r] = 0
      BY <1>1, <2>3
    <3>2. r = scheduler_index' => scheduler_credit' <= Weight[r]
      BY SMT, <1>6 DEF TypeOK
    <3>3. scheduler_credit' \in Int
      BY SMT, <1>6, WeightAssumption DEF TypeOK
    <3> QED
      BY SMT, <3>1, <3>2, <3>3, <2>2
  <2>4. CASE p # q /\ p \notin Before(q)
    <3>1. waited'[p][r] = IF r = q THEN waited[p][q] + 1 ELSE waited[p][r]
      BY <1>1, <2>4 DEF TypeOK
    <3>2. Distance(q) < Distance(p)
      BY SMT, <2>1, <2>4, NAssumption DEF Before, Distance
    <3>3. waited[p][q] <= Weight[q] - credit
      BY SMT, <3>2, <1>2, <2>1, <2>2 DEF ShareInv, credit, Credit, TypeOK
    <3>4. p # r => waited'[p][r] <= Weight[r]
      BY SMT, <3>1, <3>3, <1>2, <2>2 DEF ShareInv
    <3>5. CASE credit > 1
      <4>1. scheduler_index' = q /\ scheduler_credit' = credit - 1
        BY <1>1, <3>5
      <4>2. r = q => waited'[p][r] <= Weight[r] - scheduler_credit'
        BY SMT, <4>1, <3>1, <3>3, <1>2, <2>2
      <4>3. Distance(r)' < Distance(p)' /\ r # q => Distance(r) < Distance(p) /\ r # scheduler_index
        BY SMT, <4>1, <3>2, <2>1, NAssumption DEF Distance
      <4> QED
        BY <4>1, <4>2, <4>3, <3>1, <3>4 DEF ShareInv
    <3>6. CASE ~(credit > 1)
      <4>1. scheduler_index' = Succ(q) /\ scheduler_credit' = Weight[Succ(q)]
        BY <1>1, <3>6
      <4>2. Distance(r)' < Distance(p)' => Distance(r) < Distance(p) /\ r # scheduler_index /\ r # q
        BY SMT, <4>1, <1>3, <3>2, <2>1, NAssumption DEF Distance
      <4> QED
        BY SMT, <4>1, <4>2, <3>1, <3>4, <2>2 DEF ShareInv
    <3> QED
      BY <3>5, <3>6
  <2> QED
    BY <2>3, <2>4
<1>8. ShareInv'
  BY <1>7 DEF ShareInv
<1> QED
  BY <1>6, <1>8

(* Every step preserves types and shares. *)
LEMMA NextInv == TypeOK /\ ShareInv /\ [Next]_vars => TypeOK' /\ ShareInv'
<1> SUFFICES ASSUME TypeOK, ShareInv, [Next]_vars PROVE TypeOK' /\ ShareInv'
  OBVIOUS
<1>1. ASSUME NEW q \in Queues, submit(q) PROVE TypeOK' /\ ShareInv'
  <2>1. TypeOK'
    BY SMT, <1>1, BacklogAssumption DEF submit, TypeOK
  <2>2. ShareInv'
    BY <1>1 DEF submit, ShareInv, Distance
  <2> QED
    BY <2>1, <2>2
<1>2. ASSUME NEW q \in Queues, Serve(q) PROVE TypeOK' /\ ShareInv'
  BY <1>2, ServeInv
<1>3. CASE Idle
  <2>1. PICK lost \in SUBSET Queues :
          /\ Passed(Queues, lost)
          /\ backlog' = [r \in Queues |-> IF r \in lost THEN backlog[r] - 1 ELSE backlog[r]]
    BY <1>3 DEF Idle
  <2>2. /\ scheduler_credit' = Weight[scheduler_index]
        /\ waited' = [q \in Queues |-> [r \in Queues |-> 0]]
        /\ scheduler_index' = scheduler_index
    BY <1>3 DEF Idle
  <2>3. backlog' \in [Queues -> 0..MaxBacklog]
    BY <2>1, BacklogBounded DEF Passed
  <2>4. TypeOK'
    BY SMT, <2>2, <2>3, WeightAssumption DEF TypeOK
  <2>5. ShareInv'
    BY SMT, <2>2, WeightAssumption DEF ShareInv, TypeOK
  <2> QED
    BY <2>4, <2>5
<1>4. CASE reset
  <2>1. Init'
    BY <1>4 DEF reset, Init
  <2> QED
    BY <2>1, InitInv, PTL
<1>5. CASE UNCHANGED vars
  BY <1>5 DEF vars, TypeOK, ShareInv, Distance
<1> QED
  BY <1>1, <1>2, <1>3, <1>4, <1>5 DEF Next, process_once

(* The scheduler's state stays well formed: its credit is positive and at   *)
(* most the weight of the queue it points at, and ShareInv holds.           *)
THEOREM SchedulerInvariant == Spec => [](TypeOK /\ ShareInv)
BY InitInv, NextInv, PTL DEF Spec

(* QueueManager::process_once shares the device by weight: between two      *)
(* turns of a queue, every other queue is served at most its weight.        *)
THEOREM SharesByWeight == Spec => []WeightedShare
<1>1. ShareInv => WeightedShare
  BY DEF ShareInv, WeightedShare
<1> QED
  BY <1>1, SchedulerInvariant, PTL

-----------------------------------------------------------------------------
(* The device only uses the scheduler: its steps are steps of the scheduler *)
(* or leave it alone, so the shares are the device's too.                   *)
THEOREM DeviceSharesByWeight == DeviceSpec => []WeightedShare
<1>1. DeviceInit => Init
  BY DEF DeviceInit
<1>2. [DeviceNext]_allVars => [Next]_vars
  BY DEF DeviceNext, allVars, Next, Queue, write_register, write_config, set_device_control,
         clear_device_control, mmio_write32, device_reset
<1>3. DeviceSpec => Spec
  BY <1>1, <1>2, PTL DEF DeviceSpec, Spec
<1> QED
  BY <1>3, SharesByWeight, PTL

(* The registers of the default map, by access mode. *)
LEMMA Modes ==
  /\ DOMAIN MakeDefaultNicRegisters = {"CTRL", "STATUS", "ICR", "ICS", "IMS", "IMC", "RCTL", "TCTL"}
  /\ With("RW") = {"CTRL", "RCTL", "TCTL"} /\ With("RW1S") = {"IMS"}
  /\ \A r \in DOMAIN MakeDefaultNicRegisters :
       Access(r) = IF r = "STATUS" THEN "RO" ELSE IF r = "ICR" THEN "RC"
                   ELSE IF r \in {"ICS", "IMC"} THEN "WO" ELSE IF r = "IMS" THEN "RW1S" ELSE "RW"
<1>1. DOMAIN MakeDefaultNicRegisters = {"CTRL", "STATUS", "ICR", "ICS", "IMS", "IMC", "RCTL", "TCTL"}
  BY DEF MakeDefaultNicRegisters
<1>2. \A r \in DOMAIN MakeDefaultNicRegisters :
       Access(r) = IF r = "STATUS" THEN "RO" ELSE IF r = "ICR" THEN "RC"
                   ELSE IF r \in {"ICS", "IMC"} THEN "WO" ELSE IF r = "IMS" THEN "RW1S" ELSE "RW"
  BY SMT, <1>1 DEF MakeDefaultNicRegisters, Access
<1> QED
  BY <1>1, <1>2 DEF With

(* A register is the value the host wrote last, or all it ever wrote, or    *)
(* zero, depending on its access mode.                                      *)
RegInv ==
  \/ state_ = "Uninitialized" /\ DOMAIN registers = {}
  \/ /\ state_ = "Ready"
     /\ registers \in [DOMAIN MakeDefaultNicRegisters -> SUBSET Bits]
     /\ last \in [With("RW") -> SUBSET Bits] /\ ever \in [With("RW1S") -> SUBSET Bits]
     /\ \A r \in With("RW") : registers[r] = last[r]
     /\ \A r \in With("RW1S") : registers[r] = ever[r]
     /\ \A r \in With("RO") \cup With("RC") : registers[r] = {}

Bytes == {"zero", "device", "host"}

(* The configuration space is bytes, and a read-only one the host changed   *)
(* lies behind another.                                                     *)
ConfigInv ==
  config_space \in [0..(kConfigSpaceSize - 1) -> Bytes] /\ ReadOnlyBySpill

(* A write of a register leaves it what its access mode promises. *)
LEMMA RegisterStep ==
  ASSUME RegInv, NEW r \in Registers, NEW value \in SUBSET Bits, write_register(r, value)
  PROVE  RegInv'
<1>1. CASE state_ = "Uninitialized"
  BY <1>1 DEF write_register, RegInv
<1>2. CASE state_ = "Ready" /\ Access(r) = "RO"
  BY <1>2 DEF write_register, RegInv
<1>3. CASE state_ = "Ready" /\ Access(r) # "RO"
  <2>1. r \in DOMAIN MakeDefaultNicRegisters
    BY Modes, DeviceAssumption
  <2>2. PICK new : new = apply_write(r, registers[r], value)
    OBVIOUS
  <2>3. /\ state_' = "Ready"
        /\ registers' = [registers EXCEPT ![r] = new]
        /\ last' = [p \in DOMAIN last |-> IF p = r THEN value ELSE last[p]]
        /\ ever' = [p \in DOMAIN ever |-> IF p = r THEN ever[p] \cup value ELSE ever[p]]
    BY <1>3, <2>1, <2>2 DEF write_register, RegInv
  <2>4. /\ registers \in [DOMAIN MakeDefaultNicRegisters -> SUBSET Bits]
        /\ last \in [With("RW") -> SUBSET Bits] /\ ever \in [With("RW1S") -> SUBSET Bits]
        /\ \A p \in With("RW") : registers[p] = last[p]
        /\ \A p \in With("RW1S") : registers[p] = ever[p]
        /\ \A p \in With("RO") \cup With("RC") : registers[p] = {}
    BY <1>3 DEF RegInv
  <2>5. /\ Access(r) \in {"RW", "WO"} => new = value
        /\ Access(r) = "RW1S" => new = registers[r] \cup value
        /\ Access(r) = "RC" => new = registers[r]
        /\ new \in SUBSET Bits
    <3>1. registers[r] \subseteq Bits
      BY <2>1, <2>4
    <3>2. Access(r) \in {"RW", "WO", "RW1S", "RC"}
      BY <1>3, <2>1, Modes
    <3> QED
      BY <2>2, <3>1, <3>2 DEF apply_write, Mask
  <2>6. \A access : r \in With(access) <=> Access(r) = access
    BY <2>1 DEF With
  <2>7. /\ registers' \in [DOMAIN MakeDefaultNicRegisters -> SUBSET Bits]
        /\ last' \in [With("RW") -> SUBSET Bits] /\ ever' \in [With("RW1S") -> SUBSET Bits]
    BY <2>3, <2>4, <2>5
  <2>8. \A p \in With("RW") : registers'[p] = last'[p]
    BY <2>1, <2>3, <2>4, <2>5, <2>6 DEF With
  <2>9. \A p \in With("RW1S") : registers'[p] = ever'[p]
    BY <2>1, <2>3, <2>4, <2>5, <2>6 DEF With
  <2>10. \A p \in With("RO") \cup With("RC") : registers'[p] = {}
    BY <1>3, <2>1, <2>3, <2>4, <2>5, <2>6 DEF With
  <2> QED
    BY <2>3, <2>7, <2>8, <2>9, <2>10 DEF RegInv
<1> QED
  BY <1>1, <1>2, <1>3 DEF RegInv

(* Out of reset every register is zero and nothing was written. *)
LEMMA ResetStep ==
  ASSUME ConfigInv, device_reset
  PROVE  RegInv' /\ ConfigInv'
<1>1. RegInv'
  <2>1. /\ state_' = "Ready"
        /\ registers' = [r \in DOMAIN MakeDefaultNicRegisters |-> {}]
        /\ last' = [r \in With("RW") |-> {}] /\ ever' = [r \in With("RW1S") |-> {}]
    BY DEF device_reset, initialize_register_file
  <2> QED
    BY <2>1 DEF RegInv, With
<1>2. ConfigInv'
  BY DEF device_reset, initialize_config_space, ConfigInv, ReadOnlyBySpill, Bytes
<1> QED
  BY <1>1, <1>2

(* A write of the configuration space that changes a read-only byte began   *)
(* before it.                                                               *)
LEMMA ConfigStep ==
  ASSUME ConfigInv, NEW offset \in ConfigOffsets, NEW width \in {1, 2, 4}, write_config(offset, width)
  PROVE  ConfigInv'
<1>1. CASE UNCHANGED config_space
  BY <1>1 DEF ConfigInv, ReadOnlyBySpill
<1>2. CASE /\ ~is_read_only(offset)
           /\ config_space' = [b \in DOMAIN config_space |->
                IF b \in offset..(offset + width - 1) THEN "host" ELSE config_space[b]]
  <2>1. config_space' \in [0..(kConfigSpaceSize - 1) -> Bytes]
    BY <1>2 DEF ConfigInv, Bytes
  <2>2. offset \in Nat /\ kConfigSpaceSize \in Nat /\ width \in Nat
    BY SMT, DeviceAssumption
  <2>3. ASSUME NEW b \in ReadOnlyBytes \cap DOMAIN config_space', config_space'[b] = "host"
        PROVE  b > 0 /\ config_space'[b - 1] = "host"
    <3>1. b # offset /\ b \in Nat
      BY SMT, <1>2, <2>2 DEF ReadOnlyBytes, is_read_only, kDeviceId, kRevisionId, kCacheLineSize, kHeaderType
    <3>2. CASE b \in offset..(offset + width - 1)
      BY SMT, <1>2, <2>2, <3>1, <3>2 DEF ConfigInv
    <3>3. CASE b \notin offset..(offset + width - 1)
      <4>1. b > 0 /\ config_space[b - 1] = "host"
        BY <1>2, <2>3, <3>3 DEF ConfigInv, ReadOnlyBySpill
      <4> QED
        BY SMT, <1>2, <2>2, <3>1, <4>1 DEF ConfigInv
    <3> QED
      BY <3>2, <3>3
  <2> QED
    BY <2>1, <2>3 DEF ConfigInv, ReadOnlyBySpill
<1> QED
  BY <1>1, <1>2 DEF write_config

(* Every step of the device preserves both. *)
LEMMA DeviceStep == ASSUME RegInv, ConfigInv, [DeviceNext]_allVars PROVE RegInv' /\ ConfigInv'
<1>1. CASE UNCHANGED deviceVars
  BY <1>1 DEF deviceVars, RegInv, ConfigInv, ReadOnlyBySpill
<1>2. ASSUME NEW r \in Registers, NEW value \in SUBSET Bits, write_register(r, value)
      PROVE  RegInv' /\ ConfigInv'
  BY <1>2, RegisterStep DEF write_register, ConfigInv, ReadOnlyBySpill
<1>3. ASSUME NEW offset \in ConfigOffsets, NEW width \in {1, 2, 4}, write_config(offset, width)
      PROVE  RegInv' /\ ConfigInv'
  BY <1>3, ConfigStep DEF write_config, RegInv
<1>4. CASE device_reset
  BY <1>4, ResetStep
<1> QED
  BY <1>1, <1>2, <1>3, <1>4 DEF DeviceNext, allVars, Queue, set_device_control,
     clear_device_control, mmio_write32

(* Both hold in every reachable state of the device. *)
LEMMA DeviceInvariance == DeviceSpec => [](RegInv /\ ConfigInv)
<1>1. DeviceInit => RegInv /\ ConfigInv
  BY SMT DEF DeviceInit, RegInv, ConfigInv, ReadOnlyBySpill, Bytes
<1>2. RegInv /\ ConfigInv /\ [DeviceNext]_allVars => (RegInv /\ ConfigInv)'
  BY DeviceStep
<1> QED
  BY <1>1, <1>2, PTL DEF DeviceSpec

(* The host reads back what it wrote as each register's access mode says,   *)
(* for any width of register and any order of writes and resets.            *)
THEOREM ReadBackTheorem == DeviceSpec => []RegistersReadBack
<1>1. RegInv => RegistersReadBack
  <2> SUFFICES ASSUME RegInv, NEW r \in DOMAIN MakeDefaultNicRegisters
               PROVE  read_register(r) =
                        CASE state_ = "Uninitialized" -> AllOnes
                          [] state_ = "Ready" /\ r \in DOMAIN last -> last[r]
                          [] state_ = "Ready" /\ r \in DOMAIN ever -> ever[r]
                          [] OTHER -> {}
    BY DEF RegistersReadBack
  <2>1. CASE state_ = "Uninitialized"
    BY <2>1 DEF RegInv, read_register
  <2>2. CASE state_ = "Ready"
    <3>1. /\ r \in DOMAIN registers /\ DOMAIN last = With("RW") /\ DOMAIN ever = With("RW1S")
          /\ r \in With("RW") => registers[r] = last[r]
          /\ r \in With("RW1S") => registers[r] = ever[r]
          /\ r \in With("RO") \cup With("RC") => registers[r] = {}
      BY <2>2 DEF RegInv
    <3>2. \A access : r \in With(access) <=> Access(r) = access
      BY DEF With
    <3>3. Access(r) \in {"RO", "RC", "WO", "RW", "RW1S"}
      BY Modes
    <3> QED
      BY SMT, <2>2, <3>1, <3>2, <3>3 DEF read_register
  <2> QED
    BY <2>1, <2>2 DEF RegInv
<1> QED
  BY <1>1, DeviceInvariance, PTL

(* For a configuration space of any size, a read-only byte is only ever     *)
(* changed by a write that began at a writable one before it; vendor and    *)
(* device identifier, which have none before them, never change.            *)
THEOREM SpillTheorem == DeviceSpec => []ReadOnlyBySpill
<1>1. ConfigInv => ReadOnlyBySpill
  BY DEF ConfigInv
<1> QED
  BY <1>1, DeviceInvariance, PTL

-----------------------------------------------------------------------------
(* The interrupt dispatcher. *)

Counts == [Vectors -> Nat]
States == [Vectors -> AdaptiveStates \cup {None}]

(* The counters and their ghosts, the part of the invariant try_fire keeps. *)
CounterInv ==
  /\ pending_counts \in Counts
  /\ adaptive_state \in States
  /\ owed \in [Vectors -> Int]
  /\ Conservation

(* The flags and configuration no counter depends on. *)
TableInv ==
  /\ enabled \in [Vectors -> BOOLEAN] /\ masked \in [Vectors -> BOOLEAN]
  /\ mapping \in [CompletionQueues -> Vectors \cup {Unbacked}]
  /\ per_queue_coalesce \in [CompletionQueues -> PacketThresholds \cup {None}]
  /\ adaptive \in AdaptiveConfigs

TimerInv == pending_time_us \in [Vectors -> Nat \cup {None}] /\ TimedOnlyIfPending

DispatcherInv == TableInv /\ CounterInv /\ TimerInv

(* The start of a sample period is an adaptive state. *)
LEMMA SampleStartType == \A t \in Nat : SampleStart(t) \in AdaptiveStates
BY DEF SampleStart, AdaptiveStates

(* The moderation step yields an adaptive state again: the average it takes *)
(* divides by a positive count, and a threshold of 0 is never decremented.  *)
LEMMA UpdateType ==
  ASSUME adaptive \in AdaptiveConfigs, NEW st \in AdaptiveStates \cup {None}, NEW batch \in Nat
  PROVE  update_adaptive_threshold(st, batch) \in AdaptiveStates \cup {None}
<1> DEFINE old == IF st = None THEN SampleStart(1) ELSE st
           n == old.interrupt_count + 1
           total == old.total_batch_size + batch
<1>1. old \in AdaptiveStates
  BY SampleStartType
<1>2. n \in Nat /\ n > 0 /\ total \in Nat /\ old.current_threshold \in Nat
  BY SMT, <1>1 DEF AdaptiveStates
<1>3. \A avg : Adjust(old.current_threshold, avg) \in Nat
  BY SMT, <1>2, AdaptiveAssumption DEF Adjust
<1>4. [interrupt_count |-> n, total_batch_size |-> total,
       current_threshold |-> old.current_threshold] \in AdaptiveStates
  BY <1>2 DEF AdaptiveStates
<1>5. SampleStart(Adjust(old.current_threshold, total \div n)) \in AdaptiveStates
  BY <1>3, SampleStartType
<1> QED
  BY <1>4, <1>5 DEF update_adaptive_threshold

(* try_fire keeps the counters in their types and the debts equal to the    *)
(* counts, and clears the count of every vector it may deliver to.          *)
LEMMA TryFireKeeps ==
  ASSUME adaptive \in AdaptiveConfigs,
         NEW S, NEW counts \in Counts, NEW states \in States,
         NEW debts \in [Vectors -> Int],
         \A v \in Vectors : debts[v] = counts[v],
         try_fire(S, counts, states, debts)
  PROVE  /\ CounterInv'
         /\ \A v \in Vectors : pending_counts'[v] =
              IF v \in S /\ Deliverable(v) THEN 0 ELSE counts[v]
<1>1. pending_counts' \in Counts
  BY DEF try_fire, Counts
<1>2. \A v \in Vectors : pending_counts'[v] =
              IF v \in S /\ Deliverable(v) THEN 0 ELSE counts[v]
  BY DEF try_fire
<1>3. \A v \in Vectors : owed'[v] = IF v \in S /\ Deliverable(v) THEN 0 ELSE debts[v]
  BY SMT DEF try_fire, Counts
<1>4. owed' \in [Vectors -> Int]
  BY SMT, <1>3 DEF try_fire
<1>5. adaptive_state' \in States
  <2>1. \A v \in Vectors : (IF counts[v] = 0 THEN 1 ELSE counts[v]) \in Nat
    BY DEF Counts
  <2>2. \A v \in Vectors : adaptive_state'[v] \in AdaptiveStates \cup {None}
    BY <2>1, UpdateType DEF try_fire, States
  <2> QED
    BY <2>2 DEF try_fire, States
<1> QED
  BY <1>1, <1>2, <1>3, <1>4, <1>5 DEF CounterInv, Conservation

(* DispatcherInit establishes the inductive invariant. *)
LEMMA DispatcherInitInv == DispatcherInit => DispatcherInv
<1> SUFFICES ASSUME DispatcherInit PROVE DispatcherInv
  OBVIOUS
<1>1. TableInv
  BY DEF DispatcherInit, TableInv
<1>2. CounterInv
  BY SMT DEF DispatcherInit, CounterInv, Counts, States, Conservation
<1>3. TimerInv
  BY DEF DispatcherInit, TimerInv, TimedOnlyIfPending
<1> QED
  BY <1>1, <1>2, <1>3 DEF DispatcherInv

(* A suppressed completion changes no counter and no timer. *)
LEMMA SuppressedKeeps ==
  ASSUME DispatcherInv, NEW v, Suppressed(v)
  PROVE  CounterInv' /\ TimerInv'
BY DEF DispatcherInv, CounterInv, TimerInv, Suppressed, Conservation, TimedOnlyIfPending

(* An accepted completion is counted, and counted as owed; its timer        *)
(* restarts, unless the batch is fired.                                     *)
LEMMA AcceptedKeeps ==
  ASSUME DispatcherInv, NEW q \in CompletionQueues, NEW v \in Vectors, Accepted(q, v)
  PROVE  /\ CounterInv' /\ TimerInv'
         /\ \A w \in Vectors : pending_counts'[w] > pending_counts[w] =>
              w = v /\ pending_counts'[w] < Threshold(q, v)
<1> DEFINE counts == [pending_counts EXCEPT ![v] = @ + 1]
           debts  == [owed EXCEPT ![v] = @ + 1]
           states == IF adaptive.enabled /\ adaptive_state[v] = None
                     THEN [adaptive_state EXCEPT ![v] = SampleStart(get_coalesce_config(q))]
                     ELSE adaptive_state
           fire   == counts[v] >= Threshold(q, v)
           S      == IF fire THEN {v} ELSE {}
<1>1. get_coalesce_config(q) \in Nat
  BY ThresholdAssumption DEF DispatcherInv, TableInv, get_coalesce_config
<1>2. counts \in Counts /\ debts \in [Vectors -> Int]
  BY SMT DEF DispatcherInv, CounterInv, Counts
<1>3. states \in States
  BY <1>1, SampleStartType DEF DispatcherInv, CounterInv, States
<1>4. \A w \in Vectors : debts[w] = counts[w]
  BY DEF DispatcherInv, CounterInv, Counts, Conservation
<1>5. /\ Deliverable(v)
      /\ try_fire(S, counts, states, debts)
      /\ pending_time_us' = [pending_time_us EXCEPT ![v] = IF fire THEN None ELSE 0]
  BY DEF Accepted, Due
<1>6. /\ CounterInv'
      /\ \A w \in Vectors : pending_counts'[w] = IF w \in S /\ Deliverable(w) THEN 0 ELSE counts[w]
  <2>1. adaptive \in AdaptiveConfigs
    BY DEF DispatcherInv, TableInv, CounterInv
  <2> HIDE DEF counts, debts, states, S
  <2> QED
    BY <1>2, <1>3, <1>4, <1>5, <2>1, TryFireKeeps
<1>7. TimerInv'
  BY SMT, <1>2, <1>5, <1>6 DEF DispatcherInv, TimerInv, TimedOnlyIfPending, CounterInv, Counts
<1>8. Threshold(q, v) \in Nat
  BY <1>1 DEF Threshold, DispatcherInv, CounterInv, States, AdaptiveStates
<1>9. ASSUME NEW w \in Vectors, pending_counts'[w] > pending_counts[w]
      PROVE  w = v /\ pending_counts'[w] < Threshold(q, v)
  BY SMT, <1>5, <1>6, <1>8, <1>9 DEF DispatcherInv, CounterInv, Counts
<1> QED
  BY <1>6, <1>7, <1>9

(* A tick, a flush of one vector or of all of them: try_fire of a set of    *)
(* vectors, after which a vector that is timed is one whose count was not   *)
(* cleared.                                                                 *)
LEMMA FlushKeeps ==
  ASSUME DispatcherInv, NEW S, try_fire(S, pending_counts, adaptive_state, owed),
         pending_time_us' \in [Vectors -> Nat \cup {None}],
         \A v \in Vectors : pending_time_us'[v] # None => v \notin S /\ pending_counts[v] > 0
  PROVE  /\ CounterInv' /\ TimerInv'
         /\ \A v \in Vectors : pending_counts'[v] <= pending_counts[v]
<1>1. adaptive \in AdaptiveConfigs
  BY DEF DispatcherInv, TableInv, CounterInv
<1>2. pending_counts \in Counts /\ adaptive_state \in States /\ owed \in [Vectors -> Int]
  BY DEF DispatcherInv, CounterInv
<1>3. \A v \in Vectors : owed[v] = pending_counts[v]
  BY DEF DispatcherInv, CounterInv, Conservation
<1>4. /\ CounterInv'
      /\ \A v \in Vectors : pending_counts'[v] =
           IF v \in S /\ Deliverable(v) THEN 0 ELSE pending_counts[v]
  BY <1>1, <1>2, <1>3, TryFireKeeps
<1> QED
  BY SMT, <1>2, <1>4 DEF TimerInv, TimedOnlyIfPending, Counts

(* A step on the table or on the configuration leaves the counters alone. *)
LEMMA ConfigKeeps ==
  ASSUME DispatcherInv, UNCHANGED counterVars, adaptive_state' \in States
  PROVE  CounterInv' /\ TimerInv' /\ UNCHANGED pending_counts
BY DEF DispatcherInv, CounterInv, TimerInv, Conservation, TimedOnlyIfPending, counterVars

(* What every step preserves, and what a step that adds to a count compared *)
(* the count with.                                                          *)
LEMMA DispatcherKeeps ==
  ASSUME DispatcherInv, [DispatcherNext]_dispatcherVars
  PROVE  /\ DispatcherInv'
         /\ \A v \in Vectors : pending_counts'[v] > pending_counts[v] =>
              \E q \in CompletionQueues : mapping[q] = v /\ pending_counts'[v] < Threshold(q, v)
<1> DEFINE Compared == \A v \in Vectors : pending_counts'[v] > pending_counts[v] =>
              \E q \in CompletionQueues : mapping[q] = v /\ pending_counts'[v] < Threshold(q, v)
<1>0. pending_counts \in Counts /\ adaptive_state \in States
  BY DEF DispatcherInv, CounterInv
<1>a. ASSUME UNCHANGED <<tableVars, configVars>> PROVE TableInv'
  BY <1>a DEF DispatcherInv, TableInv, tableVars, configVars
<1>b. ASSUME UNCHANGED pending_counts PROVE Compared
  BY SMT, <1>0, <1>b DEF Counts
<1>1. ASSUME NEW q \in CompletionQueues, on_completion(q) PROVE DispatcherInv' /\ Compared
  <2>1. TableInv'
    BY <1>1, <1>a DEF on_completion
  <2>2. CASE Suppressed(mapping[q])
    BY <2>1, <2>2, <1>b, SuppressedKeeps DEF DispatcherInv, Suppressed
  <2>3. CASE Accepted(q, mapping[q])
    <3>1. mapping[q] \in Vectors
      BY <2>3 DEF Accepted, DispatcherInv, TableInv
    <3> QED
      BY <2>1, <2>3, <3>1, AcceptedKeeps DEF DispatcherInv
  <2> QED
    BY <1>1, <2>2, <2>3 DEF on_completion
<1>2. ASSUME NEW v \in Vectors, flush(v) PROVE DispatcherInv' /\ Compared
  <2>1. pending_time_us' \in [Vectors -> Nat \cup {None}]
    BY <1>2 DEF flush, DispatcherInv, TimerInv
  <2>2. \A w \in Vectors : pending_time_us'[w] # None => w \notin {v} /\ pending_counts[w] > 0
    BY <1>2 DEF flush, DispatcherInv, TimerInv, TimedOnlyIfPending
  <2>3. CounterInv' /\ TimerInv' /\ \A w \in Vectors : pending_counts'[w] <= pending_counts[w]
    BY <1>2, <2>1, <2>2, FlushKeeps DEF flush
  <2> QED
    BY SMT, <1>0, <1>2, <1>a, <2>3 DEF DispatcherInv, flush, CounterInv, Counts
<1>3. ASSUME flush_all PROVE DispatcherInv' /\ Compared
  <2> DEFINE keys == {v \in Vectors : pending_counts[v] > 0}
  <2>1. pending_time_us' \in [Vectors -> Nat \cup {None}]
    BY <1>3 DEF flush_all, DispatcherInv, TimerInv
  <2>2. \A w \in Vectors : pending_time_us'[w] # None => w \notin keys /\ pending_counts[w] > 0
    BY <1>3 DEF flush_all, DispatcherInv, TimerInv, TimedOnlyIfPending
  <2>3. try_fire(keys, pending_counts, adaptive_state, owed)
    BY <1>3 DEF flush_all
  <2>4. CounterInv' /\ TimerInv' /\ \A w \in Vectors : pending_counts'[w] <= pending_counts[w]
    <3> HIDE DEF keys
    <3> QED
      BY <2>1, <2>2, <2>3, FlushKeeps
  <2> QED
    BY SMT, <1>0, <1>3, <1>a, <2>4 DEF DispatcherInv, flush_all, CounterInv, Counts
<1>4. ASSUME NEW e \in Elapsed, on_timer_tick(e) PROVE DispatcherInv' /\ Compared
  <2> DEFINE timed == {v \in Vectors : Timed(v) # None}
             now(v) == (Timed(v) + e) % TimeModulus
             expired == {v \in timed : now(v) >= TimerThreshold}
  <2>1. \A v \in timed : Timed(v) \in Nat /\ pending_counts[v] > 0
    BY ThresholdAssumption DEF Timed, DispatcherInv, TimerInv, TimedOnlyIfPending
  <2>2. \A v \in timed : now(v) \in Nat
    BY SMT, <2>1, ThresholdAssumption
  <2>3. /\ try_fire(expired, pending_counts, adaptive_state, owed)
        /\ pending_time_us' = [v \in Vectors |->
                                 IF v \in timed \ expired THEN now(v) ELSE None]
    BY <1>4 DEF on_timer_tick
  <2>4. pending_time_us' \in [Vectors -> Nat \cup {None}]
    BY <2>2, <2>3
  <2>5. \A w \in Vectors : pending_time_us'[w] # None => w \notin expired /\ pending_counts[w] > 0
    <3> HIDE DEF now, expired
    <3> QED
      BY <2>1, <2>3
  <2>6. CounterInv' /\ TimerInv' /\ \A w \in Vectors : pending_counts'[w] <= pending_counts[w]
    <3> HIDE DEF expired
    <3> QED
      BY <2>3, <2>4, <2>5, FlushKeeps
  <2> QED
    BY SMT, <1>0, <1>4, <1>a, <2>6 DEF DispatcherInv, on_timer_tick, CounterInv, Counts
<1>5. ASSUME NEW q \in CompletionQueues, NEW v \in Vectors \cup {Unbacked}, set_queue_vector(q, v)
      PROVE  DispatcherInv' /\ Compared
  BY <1>0, <1>5, <1>b, ConfigKeeps DEF set_queue_vector, DispatcherInv, TableInv, configVars
<1>6. ASSUME NEW v \in Vectors, NEW b \in BOOLEAN, mask_vector(v, b) \/ enable_vector(v, b)
      PROVE  DispatcherInv' /\ Compared
  BY SMT, <1>0, <1>6, <1>b, ConfigKeeps DEF mask_vector, enable_vector, DispatcherInv, TableInv, configVars
<1>7. ASSUME NEW q \in CompletionQueues, NEW t \in PacketThresholds \cup {None},
             set_queue_coalesce_config(q, t)
      PROVE  DispatcherInv' /\ Compared
  BY <1>0, <1>7, <1>b, ConfigKeeps, ThresholdAssumption
     DEF set_queue_coalesce_config, DispatcherInv, TableInv, tableVars
<1>8. ASSUME NEW c \in AdaptiveConfigs, set_adaptive_config(c) PROVE DispatcherInv' /\ Compared
  <2>1. adaptive_state' \in States
    BY <1>0, <1>8, SampleStartType, ThresholdAssumption DEF set_adaptive_config, States
  <2> QED
    BY <1>8, <2>1, <1>b, ConfigKeeps DEF set_adaptive_config, DispatcherInv, TableInv, tableVars
<1>9. CASE UNCHANGED dispatcherVars
  <2>1. TableInv'
    BY <1>9, <1>a DEF dispatcherVars
  <2> QED
    BY <1>0, <1>9, <1>b, <2>1, ConfigKeeps DEF dispatcherVars, DispatcherInv, counterVars
<1> QED
  BY <1>1, <1>2, <1>3, <1>4, <1>5, <1>6, <1>7, <1>8, <1>9 DEF DispatcherNext

(* The inductive invariant holds in every reachable state. *)
LEMMA DispatcherInvariance == DispatcherSpec => []DispatcherInv
<1>1. DispatcherInv /\ [DispatcherNext]_dispatcherVars => DispatcherInv'
  BY DispatcherKeeps
<1> QED
  BY <1>1, DispatcherInitInv, PTL DEF DispatcherSpec

(* For every set of vectors and every threshold, the completions a vector   *)
(* accepted and has not reported are the ones it holds pending.             *)
THEOREM DispatcherInvariant == DispatcherSpec => [](DispatcherTyped /\ Conservation)
<1>1. DispatcherInv => DispatcherTyped /\ Conservation
  BY ThresholdAssumption
     DEF DispatcherInv, TableInv, CounterInv, TimerInv, DispatcherTyped, Counts, States
<1> QED
  BY <1>1, DispatcherInvariance, PTL

(* The map of timers never outlives the map of counts: on every path that   *)
(* erases a count (threshold, timer, flush) its timer goes too.             *)
THEOREM TimersServePending == DispatcherSpec => []TimedOnlyIfPending
<1>1. DispatcherInv => TimedOnlyIfPending
  BY DEF DispatcherInv, TimerInv
<1> QED
  BY <1>1, DispatcherInvariance, PTL

(* A threshold software configured, or one a vector without a configured    *)
(* one starts from.                                                         *)
Capped(n) == n <= 1 \/ \E t \in Thresholds : n <= t

(* What an adaptive state must satisfy for BatchesBounded to be inductive. *)
AdaptiveCapped ==
  \A v \in Vectors : adaptive_state[v] # None => Capped(adaptive_state[v].current_threshold)

(* The moderation raises a threshold only up to its cap. *)
LEMMA UpdateCapped ==
  ASSUME adaptive \in AdaptiveConfigs, NEW st \in AdaptiveStates \cup {None}, NEW batch \in Nat,
         st # None => Capped(st.current_threshold),
         update_adaptive_threshold(st, batch) # None
  PROVE  Capped(update_adaptive_threshold(st, batch).current_threshold)
<1> DEFINE old == IF st = None THEN SampleStart(1) ELSE st
           n == old.interrupt_count + 1
           total == old.total_batch_size + batch
           cur == old.current_threshold
<1>1. cur \in Nat /\ Capped(cur)
  <2>1. SampleStart(1).current_threshold = 1 /\ Capped(1)
    BY SMT DEF SampleStart, Capped
  <2>2. SampleStart(1) \in AdaptiveStates
    BY SampleStartType
  <2> QED
    BY <2>1, <2>2 DEF AdaptiveStates
<1>2. /\ adaptive.max_threshold \in Nat /\ adaptive.min_threshold \in Nat
      /\ adaptive.max_threshold \in Thresholds
  BY AdaptiveAssumption DEF Thresholds
<1>3. Thresholds \subseteq Nat
  BY ThresholdAssumption, AdaptiveAssumption DEF Thresholds
<1>4. ASSUME NEW avg PROVE Capped(Adjust(cur, avg))
  <2> HIDE DEF cur
  <2>1. \/ Adjust(cur, avg) = cur + 1 /\ cur < adaptive.max_threshold
        \/ Adjust(cur, avg) \in {cur - 1, cur}
    BY DEF Adjust
  <2>2. CASE Adjust(cur, avg) = cur + 1 /\ cur < adaptive.max_threshold
    <3>1. cur + 1 <= adaptive.max_threshold
      BY SMT, <1>1, <1>2, <2>2
    <3> QED
      BY <1>2, <2>2, <3>1 DEF Capped
  <2>3. CASE Adjust(cur, avg) \in {cur - 1, cur}
    BY SMT, <1>1, <1>3, <2>3 DEF Capped
  <2> QED
    BY <2>1, <2>2, <2>3
<1>5. SampleStart(Adjust(cur, total \div n)).current_threshold = Adjust(cur, total \div n)
  BY DEF SampleStart
<1> QED
  BY <1>1, <1>4, <1>5 DEF update_adaptive_threshold

(* try_fire keeps the adaptive thresholds capped. *)
LEMMA TryFireCapped ==
  ASSUME adaptive \in AdaptiveConfigs,
         NEW S, NEW counts \in Counts, NEW states \in States, NEW debts,
         \A v \in Vectors : states[v] # None => Capped(states[v].current_threshold),
         try_fire(S, counts, states, debts)
  PROVE  AdaptiveCapped'
<1> SUFFICES ASSUME NEW v \in Vectors, adaptive_state'[v] # None
             PROVE  Capped(adaptive_state'[v].current_threshold)
  BY DEF AdaptiveCapped, Capped
<1> DEFINE batch == IF counts[v] = 0 THEN 1 ELSE counts[v]
<1>1. adaptive_state'[v] \in {states[v], update_adaptive_threshold(states[v], batch)}
  BY DEF try_fire
<1>2. batch \in Nat
  BY DEF Counts
<1>3. states[v] \in AdaptiveStates \cup {None}
  BY DEF States
<1> HIDE DEF batch
<1> QED
  BY <1>1, <1>2, <1>3, UpdateCapped

(* Every threshold a queue is configured with is capped. *)
LEMMA ConfiguredCapped ==
  ASSUME DispatcherInv, NEW q \in CompletionQueues
  PROVE  Capped(get_coalesce_config(q)) /\ Capped(PacketThreshold)
<1>1. /\ get_coalesce_config(q) \in Thresholds /\ PacketThreshold \in Thresholds
      /\ Thresholds \subseteq Nat
  BY ThresholdAssumption, AdaptiveAssumption
     DEF DispatcherInv, TableInv, get_coalesce_config, Thresholds
<1>2. \A t \in Thresholds : t <= t
  BY SMT, <1>1
<1> QED
  BY <1>1, <1>2 DEF Capped

(* Every step keeps the adaptive thresholds capped. *)
LEMMA CappedKeeps ==
  ASSUME DispatcherInv, AdaptiveCapped, [DispatcherNext]_dispatcherVars
  PROVE  AdaptiveCapped'
<1>0. adaptive \in AdaptiveConfigs /\ pending_counts \in Counts /\ adaptive_state \in States
  BY DEF DispatcherInv, TableInv, CounterInv
<1>a. ASSUME NEW S, try_fire(S, pending_counts, adaptive_state, owed) PROVE AdaptiveCapped'
  BY <1>0, <1>a, TryFireCapped DEF AdaptiveCapped
<1>b. ASSUME UNCHANGED adaptive_state PROVE AdaptiveCapped'
  BY <1>b DEF AdaptiveCapped, Capped
<1>1. ASSUME NEW q \in CompletionQueues, on_completion(q) PROVE AdaptiveCapped'
  <2> DEFINE v == mapping[q]
             counts == [pending_counts EXCEPT ![v] = @ + 1]
             debts  == [owed EXCEPT ![v] = @ + 1]
             states == IF adaptive.enabled /\ adaptive_state[v] = None
                       THEN [adaptive_state EXCEPT ![v] = SampleStart(get_coalesce_config(q))]
                       ELSE adaptive_state
  <2>1. CASE Suppressed(v)
    BY <1>b, <2>1 DEF Suppressed
  <2>2. CASE Accepted(q, v)
    <3>1. v \in Vectors
      BY <2>2 DEF Accepted, DispatcherInv, TableInv
    <3>2. PICK S : try_fire(S, counts, states, debts)
      BY <2>2 DEF Accepted
    <3>3. get_coalesce_config(q) \in Nat
      BY ThresholdAssumption DEF DispatcherInv, TableInv, get_coalesce_config
    <3>4. states \in States
      BY <1>0, <3>3, SampleStartType DEF States
    <3>5. counts \in Counts
      BY SMT, <1>0, <3>1 DEF Counts
    <3>6. \A w \in Vectors : states[w] # None => Capped(states[w].current_threshold)
      <4>1. SampleStart(get_coalesce_config(q)).current_threshold = get_coalesce_config(q)
        BY DEF SampleStart
      <4>2. \A w \in Vectors : states[w] \in {adaptive_state[w], SampleStart(get_coalesce_config(q))}
        BY <1>0 DEF States
      <4> HIDE DEF states
      <4> QED
        BY <4>1, <4>2, ConfiguredCapped DEF AdaptiveCapped
    <3> HIDE DEF counts, debts, states
    <3> QED
      BY <1>0, <3>2, <3>4, <3>5, <3>6, TryFireCapped
  <2> QED
    BY <1>1, <2>1, <2>2 DEF on_completion
<1>2. ASSUME NEW c \in AdaptiveConfigs, set_adaptive_config(c) PROVE AdaptiveCapped'
  <2>1. SampleStart(PacketThreshold).current_threshold = PacketThreshold
    BY DEF SampleStart
  <2>2. \A w \in Vectors : adaptive_state'[w] \in {adaptive_state[w], SampleStart(PacketThreshold)}
    BY <1>2 DEF set_adaptive_config
  <2>3. Capped(PacketThreshold)
    <3>1. PacketThreshold \in Thresholds /\ PacketThreshold <= PacketThreshold
      BY SMT, ThresholdAssumption DEF Thresholds
    <3> QED
      BY <3>1 DEF Capped
  <2>4. \A w \in Vectors : adaptive_state'[w] # None => Capped(adaptive_state'[w].current_threshold)
    BY <2>1, <2>2, <2>3 DEF AdaptiveCapped
  <2> QED
    BY <2>4 DEF AdaptiveCapped, Capped
<1> QED
  BY <1>1, <1>2, <1>a, <1>b
     DEF DispatcherNext, flush, flush_all, on_timer_tick, set_queue_vector, mask_vector,
         enable_vector, set_queue_coalesce_config, dispatcherVars

(* A step that adds to a count compared it with a capped threshold. *)
LEMMA BoundedKeeps ==
  ASSUME DispatcherInv, AdaptiveCapped, BatchesBounded, [DispatcherNext]_dispatcherVars
  PROVE  BatchesBounded'
<1> SUFFICES ASSUME NEW v \in Vectors, pending_counts'[v] > 0
             PROVE  \E t \in Thresholds : pending_counts'[v] < t
  BY DEF BatchesBounded
<1>1. pending_counts[v] \in Nat /\ pending_counts'[v] \in Nat
  BY DispatcherKeeps DEF DispatcherInv, CounterInv, Counts
<1>2. Thresholds \subseteq Nat
  BY ThresholdAssumption, AdaptiveAssumption DEF Thresholds
<1>3. CASE pending_counts'[v] > pending_counts[v]
  <2>1. PICK q \in CompletionQueues : mapping[q] = v /\ pending_counts'[v] < Threshold(q, v)
    BY <1>3, DispatcherKeeps
  <2>2. Capped(Threshold(q, v))
    BY ConfiguredCapped DEF Threshold, AdaptiveCapped
  <2>3. Threshold(q, v) \in Nat
    BY ThresholdAssumption
       DEF Threshold, get_coalesce_config, DispatcherInv, TableInv, CounterInv, States, AdaptiveStates
  <2> QED
    BY SMT, <1>1, <1>2, <2>1, <2>2, <2>3 DEF Capped
<1>4. CASE ~(pending_counts'[v] > pending_counts[v])
  BY SMT, <1>1, <1>2, <1>4 DEF BatchesBounded
<1> QED
  BY <1>3, <1>4

(* For every configuration, and every order of reconfiguring, remapping,    *)
(* masking and adapting under pending completions, a count stays below the  *)
(* largest threshold software can configure.                                *)
THEOREM BatchBoundTheorem == DispatcherSpec => []BatchesBounded
<1>1. DispatcherInit => AdaptiveCapped /\ BatchesBounded
  BY SMT DEF DispatcherInit, AdaptiveCapped, BatchesBounded
<1>2. DispatcherInv /\ AdaptiveCapped /\ BatchesBounded /\ [DispatcherNext]_dispatcherVars
        => AdaptiveCapped' /\ BatchesBounded'
  BY CappedKeeps, BoundedKeeps
<1> QED
  BY <1>1, <1>2, DispatcherInvariance, PTL DEF DispatcherSpec

-----------------------------------------------------------------------------
(* The descriptor ring. *)

(* The index arithmetic of push and pop, without the modulus: a position    *)
(* less than two turns ahead of the first slot wraps at most once.          *)
LEMMA WrapOnce ==
  ASSUME NEW size \in Nat, size > 0, NEW k \in 0..(2 * size - 1)
  PROVE  k % size = IF k < size THEN k ELSE k - size
<1>1. CASE k < size
  BY SMT, <1>1
<1>2. CASE k >= size
  BY SMT, <1>2
<1> QED
  BY SMT, <1>1, <1>2

(* Every step succeeds in a push or a pop, resets the ring, or touches the  *)
(* doorbell or the result only.                                             *)
LEMMA RingCases ==
  ASSUME [RingNext]_ringVars
  PROVE  \/ \E d \in Descriptors : ~is_full /\ Store(d)
         \/ ~is_empty /\ Fetch
         \/ ring_reset
         \/ /\ UNCHANGED <<slotVars, popped, quiet>>
            /\ result' \in {result, "ring_full", "ring_empty", "dma_error"}
            /\ doorbell_masked' \in {doorbell_masked} \cup BOOLEAN
            /\ last_payload' \in {last_payload, Nothing}
BY DEF RingNext, ringVars, push_descriptor, pop_descriptor, ring_reset, set_masked,
       DoorbellReset, Refuse, doorbellVars, slotVars

(* Init establishes the inductive invariant: an empty ring, silent doorbell. *)
LEMMA RingInitInv == RingInit => RingInv
<1> SUFFICES ASSUME RingInit PROVE RingInv
  OBVIOUS
<1>1. RingTypeOK
  <2>1. doorbell_masked \in BOOLEAN
    BY Zenon DEF RingInit
  <2> QED
    BY SMT, <2>1, RingSizeAssumption DEF RingInit, RingTypeOK, Slots
<1>2. IndicesAgree
  BY SMT, RingSizeAssumption, WrapOnce DEF RingInit, IndicesAgree
<1> QED
  BY <1>1, <1>2 DEF RingInv, RingInit, DoorbellCurrent

(* Every step preserves the inductive invariant. *)
LEMMA RingNextInv == RingInv /\ [RingNext]_ringVars => RingInv'
<1> SUFFICES ASSUME RingInv, [RingNext]_ringVars PROVE RingInv'
  OBVIOUS
<1> USE RingSizeAssumption DEF RingInv
<1>1. ASSUME NEW d \in Descriptors, ~is_full, Store(d) PROVE RingInv'
  <2>1. RingSize > 0 /\ count < RingSize
    BY SMT, <1>1 DEF Store, is_full, RingTypeOK
  <2>2. producer_index \in 0..(RingSize - 1) /\ consumer_index \in 0..(RingSize - 1)
    BY SMT, <2>1 DEF RingTypeOK, Slots
  <2>3. producer_index' = IF producer_index + 1 < RingSize THEN producer_index + 1 ELSE 0
    BY SMT, <2>1, <2>2, <1>1, WrapOnce DEF Store
  <2>4. producer_index' \in Slots
    BY SMT, <2>1, <2>2, <2>3 DEF Slots
  <2>5. RingTypeOK'
    BY SMT, <1>1, <2>1, <2>2, <2>4 DEF Store, Ring, RingTypeOK, Slots
  <2>6. IndicesAgree'
    <3>1. (consumer_index + count) % RingSize =
            IF consumer_index + count < RingSize THEN consumer_index + count
            ELSE consumer_index + count - RingSize
      BY SMT, <2>1, <2>2, WrapOnce DEF RingTypeOK
    <3>2. (consumer_index + (count + 1)) % RingSize =
            IF consumer_index + (count + 1) < RingSize THEN consumer_index + (count + 1)
            ELSE consumer_index + (count + 1) - RingSize
      BY SMT, <2>1, <2>2, WrapOnce DEF RingTypeOK
    <3> QED
      BY SMT, <1>1, <2>1, <2>2, <2>3, <3>1, <3>2 DEF IndicesAgree, Store, RingTypeOK
  <2>7. DoorbellCurrent'
    BY SMT, <1>1 DEF Store, Ring, DoorbellCurrent, RingTypeOK
  <2> QED
    BY <2>5, <2>6, <2>7
<1>2. ASSUME ~is_empty, Fetch PROVE RingInv'
  <2>1. RingSize > 0 /\ count > 0
    BY SMT, <1>2 DEF Fetch, is_empty, RingTypeOK
  <2>2. producer_index \in 0..(RingSize - 1) /\ consumer_index \in 0..(RingSize - 1)
    BY SMT, <2>1 DEF RingTypeOK, Slots
  <2>3. consumer_index' = IF consumer_index + 1 < RingSize THEN consumer_index + 1 ELSE 0
    BY SMT, <2>1, <2>2, <1>2, WrapOnce DEF Fetch
  <2>4. RingTypeOK'
    BY SMT, <1>2, <2>1, <2>2, <2>3 DEF Fetch, RingTypeOK, Slots, doorbellVars
  <2>5. IndicesAgree'
    <3>1. (consumer_index + count) % RingSize =
            IF consumer_index + count < RingSize THEN consumer_index + count
            ELSE consumer_index + count - RingSize
      BY SMT, <2>1, <2>2, WrapOnce DEF RingTypeOK
    <3>2. (consumer_index' + (count - 1)) % RingSize =
            IF consumer_index' + (count - 1) < RingSize THEN consumer_index' + (count - 1)
            ELSE consumer_index' + (count - 1) - RingSize
      BY SMT, <2>1, <2>2, <2>3, WrapOnce DEF RingTypeOK
    <3> QED
      BY SMT, <1>2, <2>1, <2>2, <2>3, <3>1, <3>2 DEF IndicesAgree, Fetch, RingTypeOK
  <2>6. DoorbellCurrent'
    BY <1>2 DEF Fetch, DoorbellCurrent, doorbellVars
  <2> QED
    BY <2>4, <2>5, <2>6
<1>3. ASSUME ring_reset PROVE RingInv'
  <2>1. RingTypeOK' /\ DoorbellCurrent'
    BY SMT, <1>3 DEF ring_reset, RingTypeOK, Slots, DoorbellCurrent
  <2>2. IndicesAgree'
    BY SMT, <1>3, WrapOnce DEF ring_reset, IndicesAgree
  <2> QED
    BY <2>1, <2>2
<1>4. ASSUME UNCHANGED <<slotVars, popped, quiet>>,
             result' \in {result, "ring_full", "ring_empty", "dma_error"},
             doorbell_masked' \in {doorbell_masked} \cup BOOLEAN,
             last_payload' \in {last_payload, Nothing}
      PROVE  RingInv'
  BY SMT, <1>4 DEF RingTypeOK, IndicesAgree, DoorbellCurrent, slotVars
<1> QED
  BY <1>1, <1>2, <1>3, <1>4, RingCases

(* For every ring size the ring keeps its types, its two indices agree with *)
(* its count through every wrap, and an unmasked doorbell announces the     *)
(* producer's index.                                                        *)
THEOREM RingInvariant == RingSpec => [](RingTypeOK /\ IndicesAgree /\ DoorbellCurrent)
<1>1. RingSpec => []RingInv
  BY RingInitInv, RingNextInv, PTL DEF RingSpec
<1> QED
  BY <1>1, PTL DEF RingInv

(* The contents of the ring are a sequence of count descriptors. *)
LEMMA ContentsSeq == RingTypeOK => Contents \in Seq(Descriptors) /\ Len(Contents) = count
<1> SUFFICES ASSUME RingTypeOK PROVE Contents \in Seq(Descriptors) /\ Len(Contents) = count
  OBVIOUS
<1> USE RingSizeAssumption
<1>1. ASSUME NEW i \in 1..count PROVE (consumer_index + i - 1) % RingSize \in Slots
  <2>1. RingSize > 0
    BY SMT, <1>1 DEF RingTypeOK
  <2>2. consumer_index + i - 1 \in 0..(2 * RingSize - 1)
    BY SMT, <1>1, <2>1 DEF RingTypeOK, Slots
  <2> QED
    BY SMT, <2>1, <2>2, WrapOnce DEF Slots, RingTypeOK
<1>2. \A i \in 1..count : Contents[i] \in Descriptors
  BY <1>1 DEF Contents, RingTypeOK
<1>3. count \in Nat
  BY SMT DEF RingTypeOK
<1>4. Contents \in [1..count -> Descriptors]
  BY <1>2 DEF Contents
<1> QED
  BY SMT, <1>3, <1>4

(* A successful push appends to the contents: the slot it writes is not one *)
(* of the slots in use, however often the indices have wrapped.             *)
LEMMA StoreAppends ==
  ASSUME RingInv, NEW d \in Descriptors, ~is_full, Store(d), RingInv'
  PROVE  Contents' = Append(Contents, d)
<1> USE RingSizeAssumption DEF RingInv
<1>1. RingSize > 0 /\ count < RingSize /\ count \in Nat
  BY SMT DEF is_full, RingTypeOK
<1>2. producer_index \in 0..(RingSize - 1) /\ consumer_index \in 0..(RingSize - 1)
  BY SMT, <1>1 DEF RingTypeOK, Slots
<1>3. producer_index = IF consumer_index + count < RingSize THEN consumer_index + count
                       ELSE consumer_index + count - RingSize
  BY SMT, <1>1, <1>2, WrapOnce DEF IndicesAgree
<1>4. \A i \in 1..(count + 1) :
        (consumer_index + i - 1) % RingSize =
          IF consumer_index + i - 1 < RingSize THEN consumer_index + i - 1
          ELSE consumer_index + i - 1 - RingSize
  <2> TAKE i \in 1..(count + 1)
  <2>1. consumer_index + i - 1 \in 0..(2 * RingSize - 1)
    BY SMT, <1>1, <1>2
  <2> QED
    BY SMT, <1>1, <1>2, <2>1, WrapOnce
<1>5. Contents' = [i \in 1..(count + 1) |-> slots'[(consumer_index + i - 1) % RingSize]]
  BY SMT DEF Contents, Store
<1>6. \A i \in 1..count : Contents'[i] = Contents[i]
  <2> TAKE i \in 1..count
  <2>1. Contents'[i] = slots'[(consumer_index + i - 1) % RingSize]
    BY SMT, <1>1, <1>5
  <2>2. (consumer_index + i - 1) % RingSize \in Slots \ {producer_index}
    BY SMT, <1>1, <1>2, <1>3, <1>4 DEF Slots
  <2>3. slots'[(consumer_index + i - 1) % RingSize] = slots[(consumer_index + i - 1) % RingSize]
    BY <2>2 DEF Store, RingTypeOK
  <2> QED
    BY <2>1, <2>3 DEF Contents
<1>7. Contents'[count + 1] = d
  <2>1. Contents'[count + 1] = slots'[(consumer_index + count) % RingSize]
    BY SMT, <1>1, <1>2, <1>5
  <2>2. (consumer_index + count) % RingSize = producer_index
    BY <1>1 DEF IndicesAgree
  <2> QED
    BY <1>2, <2>1, <2>2 DEF Store, RingTypeOK, Slots
<1>8. Contents \in Seq(Descriptors) /\ Len(Contents) = count
  BY ContentsSeq
<1>9. Contents' \in Seq(Descriptors) /\ Len(Contents') = count + 1
  <2>1. (RingTypeOK => Contents \in Seq(Descriptors) /\ Len(Contents) = count)'
    BY ContentsSeq, PTL
  <2> QED
    BY <2>1 DEF Store
<1>10. /\ Append(Contents, d) \in Seq(Descriptors)
       /\ Len(Append(Contents, d)) = count + 1
       /\ \A i \in 1..count : Append(Contents, d)[i] = Contents[i]
       /\ Append(Contents, d)[count + 1] = d
  BY SMT, <1>8
<1>11. \A i \in 1..(count + 1) : Contents'[i] = Append(Contents, d)[i]
  BY SMT, <1>1, <1>6, <1>7, <1>10
<1> QED
  BY SMT, <1>9, <1>10, <1>11

(* A successful pop returns the first of the contents and leaves the rest. *)
LEMMA FetchTakes ==
  ASSUME RingInv, ~is_empty, Fetch, RingInv'
  PROVE  Contents # << >> /\ popped' = Head(Contents) /\ Contents' = Tail(Contents)
<1> USE RingSizeAssumption DEF RingInv
<1>1. RingSize > 0 /\ count > 0 /\ count \in Nat /\ count <= RingSize
  BY SMT DEF is_empty, RingTypeOK
<1>2. consumer_index \in 0..(RingSize - 1)
  BY SMT, <1>1 DEF RingTypeOK, Slots
<1>3. Contents \in Seq(Descriptors) /\ Len(Contents) = count
  BY ContentsSeq
<1>4. popped' = Head(Contents)
  <2>1. consumer_index % RingSize = consumer_index
    BY SMT, <1>1, <1>2
  <2> QED
    BY SMT, <1>1, <1>2, <1>3, <2>1 DEF Fetch, Contents
<1>5. consumer_index' = IF consumer_index + 1 < RingSize THEN consumer_index + 1 ELSE 0
  BY SMT, <1>1, <1>2, WrapOnce DEF Fetch
<1>6. \A i \in 1..(count - 1) : Contents'[i] = Contents[i + 1]
  <2> TAKE i \in 1..(count - 1)
  <2>1. Contents'[i] = slots[(consumer_index' + i - 1) % RingSize]
    BY <1>1 DEF Contents, Fetch
  <2>2. Contents[i + 1] = slots[(consumer_index + i) % RingSize]
    BY SMT, <1>1, <1>2 DEF Contents
  <2>3. consumer_index' + i - 1 \in 0..(2 * RingSize - 1)
    BY SMT, <1>1, <1>2, <1>5
  <2>4. consumer_index + i \in 0..(2 * RingSize - 1)
    BY SMT, <1>1, <1>2
  <2>5. (consumer_index' + i - 1) % RingSize =
          IF consumer_index' + i - 1 < RingSize THEN consumer_index' + i - 1
          ELSE consumer_index' + i - 1 - RingSize
    BY SMT, <1>1, <1>2, <1>5, <2>3, WrapOnce
  <2>6. (consumer_index + i) % RingSize =
          IF consumer_index + i < RingSize THEN consumer_index + i
          ELSE consumer_index + i - RingSize
    BY SMT, <1>1, <1>2, <2>4, WrapOnce
  <2> QED
    BY SMT, <1>1, <1>2, <1>5, <2>1, <2>2, <2>5, <2>6
<1>7. Contents' \in Seq(Descriptors) /\ Len(Contents') = count - 1
  <2>1. (RingTypeOK => Contents \in Seq(Descriptors) /\ Len(Contents) = count)'
    BY ContentsSeq, PTL
  <2> QED
    BY <2>1 DEF Fetch
<1>8. Contents # << >>
  BY SMT, <1>1, <1>3
<1>9. /\ Tail(Contents) \in Seq(Descriptors)
      /\ Len(Tail(Contents)) = count - 1
      /\ \A i \in 1..(count - 1) : Tail(Contents)[i] = Contents[i + 1]
  BY SMT, <1>1, <1>3, <1>8
<1>10. Contents' = Tail(Contents)
  BY SMT, <1>6, <1>7, <1>9
<1> QED
  BY <1>4, <1>8, <1>10

(* The ring implements the bounded first-in first-out queue, for every ring *)
(* size: what pop returns is what was pushed first and not yet popped.      *)
THEOREM RingImplementsFifo == RingSpec => ImplementsFifo
<1> USE RingSizeAssumption
<1>1. RingInit => Fifo!Init
  BY SMT DEF RingInit, Fifo!Init, Contents
<1>2. RingInv /\ RingInv' /\ [RingNext]_ringVars => [Fifo!Next]_(Fifo!vars)
  <2> SUFFICES ASSUME RingInv, RingInv', [RingNext]_ringVars PROVE [Fifo!Next]_(Fifo!vars)
    OBVIOUS
  <2>1. ASSUME NEW d \in Descriptors, ~is_full, Store(d) PROVE Fifo!Next
    <3>1. Contents' = Append(Contents, d)
      BY <2>1, StoreAppends
    <3>2. Len(Contents) < RingSize
      BY SMT, <2>1, ContentsSeq DEF RingInv, is_full, RingTypeOK
    <3> QED
      BY <2>1, <3>1, <3>2 DEF Fifo!Next, Fifo!Put, Store
  <2>2. ASSUME ~is_empty, Fetch PROVE Fifo!Next
    BY <2>2, FetchTakes DEF Fifo!Next, Fifo!Take
  <2>3. ASSUME ring_reset PROVE Fifo!Next
    BY SMT, <2>3 DEF Fifo!Next, Fifo!Clear, ring_reset, Contents
  <2>4. ASSUME UNCHANGED <<slotVars, popped>> PROVE UNCHANGED Fifo!vars
    BY <2>4 DEF Fifo!vars, Contents, slotVars
  <2> QED
    BY <2>1, <2>2, <2>3, <2>4, RingCases
<1>3. RingSpec => []RingInv
  BY RingInvariant, PTL DEF RingInv
<1> QED
  BY <1>1, <1>2, <1>3, PTL DEF RingSpec, ImplementsFifo, Fifo!Spec

-----------------------------------------------------------------------------
(* The ring in host memory. *)

(* Among the pieces up to n that fit, there is a latest. *)
LEMMA LatestIs ==
  ASSUME NEW n \in Nat, NEW ks \in SUBSET (1..n), ks # {}
  PROVE  Latest(ks) \in ks
<1> DEFINE F == {n - k : k \in ks}
           R == OpToRel(<, Nat)
<1>1. F \subseteq Nat /\ F # {}
  <2>1. \A k \in ks : n - k \in Nat
    BY SMT
  <2>2. PICK k \in ks : TRUE
    OBVIOUS
  <2>3. n - k \in F
    OBVIOUS
  <2> QED
    BY <2>1, <2>3
<1>2. \A k \in ks : n - k \in F
  OBVIOUS
<1>3. \A s \in F : \E k \in ks : s = n - k
  OBVIOUS
<1> HIDE DEF F
<1>4. PICK s \in F : \A t \in F : ~(<<t, s>> \in R)
  <2>1. IsWellFoundedOn(R, Nat)
    BY NatLessThanWellFounded
  <2> HIDE DEF R
  <2> QED
    BY <1>1, <2>1, WFMin
<1>5. \A t \in F : s <= t
  <2>1. \A t \in F : ~(t < s)
    BY <1>1, <1>4 DEF OpToRel
  <2> QED
    BY SMT, <1>1, <2>1
<1>6. PICK k \in ks : s = n - k
  BY <1>3
<1>7. \A j \in ks : j <= k
  BY SMT, <1>2, <1>5, <1>6
<1> QED
  BY <1>7 DEF Latest

(* An access that is ok has an address that is mapped into the buffer. *)
LEMMA OkAccess ==
  ASSUME NEW address, NEW length \in Nat, Ok(address, length)
  PROVE  /\ address \in DOMAIN Translator /\ Translator[address] \in Nat
         /\ Translator[address] + length <= MemorySize
<1>1. address \in DOMAIN Translator /\ ~OutOfBounds(Translator[address], length)
  BY DEF Ok, translate_view
<1> QED
  BY SMT, <1>1, MemoryAssumption DEF OutOfBounds

(* The slots lie at addresses of their own. *)
LEMMA SlotAddresses ==
  ASSUME NEW i \in Slots
  PROVE  slot_address(i) \in 0..(AddressModulus - 1)
BY SMT, LayoutAssumption, MemoryAssumption, RingSizeAssumption DEF slot_address, Slots

(* A laid-out transfer is a sequence of pieces. *)
LEMMA LaidOutPieces ==
  ASSUME NEW pieces, LaidOut(pieces)
  PROVE  /\ DOMAIN pieces = 1..Len(pieces) /\ Len(pieces) \in Nat
         /\ \A j \in DOMAIN pieces : pieces[j] \in [address : Nat, from : Nat, length : Nat]
<1>1. PICK S : S = [address : Nat, from : Nat, length : Nat]
  OBVIOUS
<1>2. pieces \in Seq(S)
  BY <1>1 DEF LaidOut
<1>3. DOMAIN pieces = 1..Len(pieces) /\ Len(pieces) \in Nat /\ \A j \in DOMAIN pieces : pieces[j] \in S
  BY SMT, <1>2
<1> QED
  BY <1>1, <1>3

(* A cell of a piece of a laid-out transfer belongs to that piece alone. *)
LEMMA Carried ==
  ASSUME NEW pieces, LaidOut(pieces), NEW k \in DOMAIN pieces,
         Ok(pieces[k].address, pieces[k].length)
  PROVE  /\ CellsOf(pieces[k]) \subseteq Cells
         /\ CellsOf(pieces[k]) \cap RingCells = {}
         /\ \A j \in Done(pieces), c \in CellsOf(pieces[k]) : c \in CellsOf(pieces[j]) => j = k
         /\ Translator[pieces[k].address] \in Nat
         /\ pieces[k].from \in Nat /\ pieces[k].length \in Nat
<1>1. /\ DOMAIN pieces = 1..Len(pieces) /\ Len(pieces) \in Nat
      /\ \A j \in DOMAIN pieces : pieces[j] \in [address : Nat, from : Nat, length : Nat]
  BY LaidOutPieces
<1>2. /\ pieces[k].address \in DOMAIN Translator /\ Translator[pieces[k].address] \in Nat
      /\ Translator[pieces[k].address] + pieces[k].length <= MemorySize
  BY <1>1, OkAccess
<1>3. CellsOf(pieces[k]) \subseteq Cells
  BY SMT, <1>1, <1>2, MemoryAssumption DEF CellsOf, Cells
<1>4. CellsOf(pieces[k]) \cap RingCells = {}
  BY <1>2 DEF LaidOut, ReachedBy
<1>5. ASSUME NEW j \in Done(pieces), NEW c \in CellsOf(pieces[k]), c \in CellsOf(pieces[j])
      PROVE  j = k
  <2>1. j \in 1..Len(pieces) /\ Ok(pieces[j].address, pieces[j].length)
    BY SMT, <1>1 DEF Done
  <2>2. pieces[j].address \in DOMAIN Translator
    BY <1>1, <2>1, OkAccess
  <2> QED
    BY <1>1, <1>2, <1>5, <2>1, <2>2 DEF LaidOut, ReachedBy
<1> QED
  BY <1>1, <1>2, <1>3, <1>4, <1>5

(* What the write w of packet data put into memory is in m. *)
StillIn(m, w) ==
  LET pieces == PiecesOf(w.by)
  IN  /\ LaidOut(pieces)
      /\ \A k \in DOMAIN pieces : \A c \in CellsOf(pieces[k]) :
           /\ pieces[k].address \in DOMAIN Translator
           /\ c \in Cells
           /\ m[c] = w.buffer[PlaceAt(pieces[k], c)]

StillThere == scattered # Nothing => StillIn(memory, scattered)

HostInv ==
  /\ memory \in [Cells -> {memory[c] : c \in Cells}]
  /\ SlotsAreMemory /\ StillThere /\ GatherReturnsScattered

(* A push that is stored writes one cell of the ring. *)
LEMMA HostStores ==
  ASSUME HostInv, RingTypeOK, NEW d \in Descriptors, ~is_full, Ok(slot_address(producer_index), 1),
         memory' = Written(memory, slot_address(producer_index), d), Store(d),
         gathered' = Nothing, UNCHANGED <<faulty, scattered>>
  PROVE  HostInv'
<1>1. PICK address : address = slot_address(producer_index)
  OBVIOUS
<1>2. PICK cell : cell = Translator[address]
  OBVIOUS
<1>3. address \in DOMAIN Translator /\ cell \in Cells
  <2>1. /\ address \in DOMAIN Translator /\ Translator[address] \in Nat
        /\ Translator[address] + 1 <= MemorySize
    BY <1>1, OkAccess
  <2> QED
    BY SMT, <1>2, <2>1, MemoryAssumption DEF Cells
<1>4. DOMAIN memory = Cells /\ memory' = [memory EXCEPT ![cell] = d]
  BY <1>1, <1>2 DEF HostInv, Written
<1>5. producer_index \in Slots /\ slots' = [slots EXCEPT ![producer_index] = d] /\ DOMAIN slots = Slots
  <2>1. RingSize > 0
    BY SMT, RingSizeAssumption DEF RingTypeOK, is_full
  <2> QED
    BY SMT, <2>1, RingSizeAssumption DEF RingTypeOK, Store, Slots
<1>6. cell \in RingCells
  BY <1>1, <1>2, <1>3, <1>5 DEF RingCells
<1>7. memory' \in [Cells -> {memory'[c] : c \in Cells}]
  BY <1>4
<1>8. SlotsAreMemory'
  <2> SUFFICES ASSUME NEW i \in Slots, slot_address(i) \in DOMAIN Translator,
                      Translator[slot_address(i)] \in Cells
               PROVE  memory'[Translator[slot_address(i)]] = slots'[i]
    BY DEF SlotsAreMemory, SlotHeld, slot_address
  <2>1. CASE i = producer_index
    BY <1>1, <1>2, <1>3, <1>4, <1>5, <2>1
  <2>2. CASE i # producer_index
    <3>1. Translator[slot_address(i)] # cell
      BY <1>1, <1>2, <1>3, <1>5, <2>2, LayoutAssumption
    <3>2. memory[Translator[slot_address(i)]] = slots[i]
      BY DEF HostInv, SlotsAreMemory, SlotHeld
    <3> QED
      BY <1>3, <1>4, <1>5, <2>2, <3>1, <3>2
  <2> QED
    BY <2>1, <2>2
<1>9. StillThere'
  <2> SUFFICES ASSUME scattered # Nothing,
                      NEW k \in DOMAIN PiecesOf(scattered.by),
                      NEW c \in CellsOf(PiecesOf(scattered.by)[k])
               PROVE  memory'[c] = memory[c]
    BY DEF HostInv, StillThere, StillIn
  <2>1. /\ LaidOut(PiecesOf(scattered.by)) /\ c \in Cells
        /\ PiecesOf(scattered.by)[k].address \in DOMAIN Translator
    BY DEF HostInv, StillThere, StillIn
  <2>2. c \notin RingCells
    BY <2>1 DEF LaidOut, ReachedBy
  <2> QED
    BY <1>4, <1>6, <2>1, <2>2
<1>10. GatherReturnsScattered'
  BY DEF GatherReturnsScattered
<1> QED
  BY <1>7, <1>8, <1>9, <1>10 DEF HostInv

(* A write of packet data, complete or cut off, leaves the ring alone; a    *)
(* complete one is in memory piece by piece.                                *)
LEMMA HostScatters ==
  ASSUME HostInv, NEW t, NEW buffer, LaidOut(PiecesOf(t)), Scatter(t, buffer)
  PROVE  HostInv'
<1>1. PICK pieces : pieces = PiecesOf(t)
  OBVIOUS
<1>2. LaidOut(pieces) /\ memory' = Scattered(pieces, buffer) /\ gathered' = Nothing /\ slots' = slots
  BY <1>1 DEF Scatter, ringVars, slotVars
<1> DEFINE onto(c) == {k \in Done(pieces) : c \in CellsOf(pieces[k])}
<1>3. memory' = [c \in Cells |-> IF onto(c) = {} THEN memory[c]
                                 ELSE buffer[PlaceAt(pieces[Latest(onto(c))], c)]]
  BY <1>2 DEF Scattered
<1>4. \A k \in Done(pieces) : k \in DOMAIN pieces /\ Ok(pieces[k].address, pieces[k].length)
  <2>1. DOMAIN pieces = 1..Len(pieces) /\ Len(pieces) \in Nat
    BY <1>2, LaidOutPieces
  <2> QED
    BY SMT, <2>1 DEF Done
<1>5. \A c \in Cells : c \in RingCells => memory'[c] = memory[c]
  <2> SUFFICES ASSUME NEW c \in Cells, c \in RingCells PROVE onto(c) = {}
    BY <1>3
  <2> QED
    BY <1>2, <1>4, Carried
<1>6. ASSUME NEW k \in Done(pieces), NEW c \in CellsOf(pieces[k])
      PROVE  c \in Cells /\ memory'[c] = buffer[PlaceAt(pieces[k], c)]
  <2>1. c \in Cells /\ \A j \in onto(c) : j = k
    BY <1>2, <1>4, <1>6, Carried
  <2>2. onto(c) = {k}
    BY <1>6, <2>1
  <2>3. Latest({k}) = k
    <3>1. DOMAIN pieces = 1..Len(pieces) /\ Len(pieces) \in Nat
      BY <1>2, LaidOutPieces
    <3>2. {k} \in SUBSET (1..Len(pieces)) /\ {k} # {}
      BY <1>4, <1>6, <3>1
    <3> QED
      BY <3>1, <3>2, LatestIs
  <2> QED
    BY <1>3, <2>1, <2>2, <2>3
<1> HIDE DEF onto
<1>7. memory' \in [Cells -> {memory'[c] : c \in Cells}]
  BY <1>3
<1>8. SlotsAreMemory'
  <2> SUFFICES ASSUME NEW i \in Slots, slot_address(i) \in DOMAIN Translator,
                      Translator[slot_address(i)] \in Cells
               PROVE  memory'[Translator[slot_address(i)]] = slots[i]
    BY <1>2 DEF SlotsAreMemory, SlotHeld, slot_address
  <2>1. Translator[slot_address(i)] \in RingCells
    BY DEF RingCells
  <2> QED
    BY <1>5, <2>1 DEF HostInv, SlotsAreMemory, SlotHeld
<1>9. StillThere'
  <2>1. CASE Complete(t)
    <3>1. scattered' = [by |-> t, buffer |-> buffer]
      BY <2>1 DEF Scatter
    <3>2. Done(pieces) = DOMAIN pieces
      BY <1>1, <2>1 DEF Complete
    <3>3. \A k \in DOMAIN pieces : pieces[k].address \in DOMAIN Translator
      <4> TAKE k \in DOMAIN pieces
      <4>1. Ok(pieces[k].address, pieces[k].length)
        BY <1>4, <3>2
      <4> QED
        BY <4>1 DEF Ok, translate_view
    <3>4. PICK m, w : m = memory' /\ w = scattered'
      OBVIOUS
    <3>5. w.by = t /\ w.buffer = buffer
      BY <3>1, <3>4
    <3>6. \A k \in DOMAIN pieces : \A c \in CellsOf(pieces[k]) :
            c \in Cells /\ m[c] = w.buffer[PlaceAt(pieces[k], c)]
      BY <1>6, <3>2, <3>4, <3>5
    <3>7. PiecesOf(w.by) = pieces
      BY <1>1, <3>5
    <3>8. StillIn(m, w)
      BY <1>2, <3>3, <3>6, <3>7 DEF StillIn
    <3> QED
      BY <3>4, <3>8 DEF StillThere
  <2>2. CASE ~Complete(t)
    BY <2>2 DEF Scatter, StillThere
  <2> QED
    BY <2>1, <2>2
<1>10. GatherReturnsScattered'
  BY <1>2 DEF GatherReturnsScattered
<1> QED
  BY <1>7, <1>8, <1>9, <1>10 DEF HostInv

(* A complete read over what was written last returns it. *)
LEMMA HostGathers ==
  ASSUME HostInv, NEW t, NEW buffer, Gather(t, buffer)
  PROVE  HostInv'
<1>1. UNCHANGED <<slots, memory, scattered>>
  BY DEF Gather, ringVars, slotVars
<1>2. /\ memory' \in [Cells -> {memory'[c] : c \in Cells}]
      /\ SlotsAreMemory' /\ StillThere'
  <2>1. memory' \in [Cells -> {memory'[c] : c \in Cells}] /\ StillThere'
    BY <1>1 DEF HostInv, StillThere
  <2>2. SlotsAreMemory'
    BY <1>1 DEF HostInv, SlotsAreMemory, SlotHeld, slot_address
  <2> QED
    BY <2>1, <2>2
<1>3. GatherReturnsScattered'
  <2> SUFFICES ASSUME gathered' # Nothing, scattered # Nothing, gathered'.by = scattered.by
               PROVE  \A k \in DOMAIN PiecesOf(gathered'.by) :
                        \A i \in Part(PiecesOf(gathered'.by)[k]) \cap DOMAIN gathered'.buffer :
                          gathered'.buffer[i] = scattered.buffer[i]
    BY <1>1 DEF GatherReturnsScattered
  <2>1. Complete(t) /\ gathered' = [by |-> t, buffer |-> Gathered(PiecesOf(t), buffer)]
    BY DEF Gather
  <2>2. PICK pieces : pieces = PiecesOf(t)
    OBVIOUS
  <2>3. Done(pieces) = DOMAIN pieces /\ scattered.by = t /\ gathered'.by = t
    BY <2>1, <2>2 DEF Complete
  <2>4. /\ LaidOut(pieces)
        /\ \A k \in DOMAIN pieces : \A c \in CellsOf(pieces[k]) :
             memory[c] = scattered.buffer[PlaceAt(pieces[k], c)]
    BY SMT, <2>2, <2>3 DEF HostInv, StillThere, StillIn
  <2> DEFINE into(i) == {k \in Done(pieces) : i \in Part(pieces[k])}
  <2>5. gathered'.buffer = [i \in DOMAIN buffer |-> IF into(i) = {} THEN buffer[i]
                                                   ELSE memory[CellAt(pieces[Latest(into(i))], i)]]
    BY <2>1, <2>2 DEF Gathered
  <2> SUFFICES ASSUME NEW k \in DOMAIN pieces, NEW i \in Part(pieces[k]), i \in DOMAIN buffer
               PROVE  gathered'.buffer[i] = scattered.buffer[i]
    BY <2>2, <2>3, <2>5
  <2>6. DOMAIN pieces = 1..Len(pieces) /\ Len(pieces) \in Nat
    BY <2>4, LaidOutPieces
  <2>7. PICK j : j = Latest(into(i))
    OBVIOUS
  <2>8. j \in into(i) /\ into(i) # {}
    <3>1. into(i) \in SUBSET (1..Len(pieces)) /\ into(i) # {}
      BY <2>3, <2>6
    <3> HIDE DEF into
    <3> QED
      BY <2>6, <2>7, <3>1, LatestIs
  <2>9. j \in DOMAIN pieces /\ i \in Part(pieces[j]) /\ Ok(pieces[j].address, pieces[j].length)
    BY SMT, <2>6, <2>8 DEF Done
  <2>10. /\ Translator[pieces[j].address] \in Nat
         /\ pieces[j].from \in Nat /\ pieces[j].length \in Nat
    BY <2>4, <2>9, Carried
  <2>11. /\ CellAt(pieces[j], i) \in CellsOf(pieces[j])
         /\ PlaceAt(pieces[j], CellAt(pieces[j], i)) = i
    BY SMT, <2>9, <2>10 DEF CellAt, CellsOf, PlaceAt, Part
  <2>12. gathered'.buffer[i] = memory[CellAt(pieces[j], i)]
    BY <2>5, <2>7, <2>8
  <2> QED
    BY <2>4, <2>9, <2>11, <2>12
<1> QED
  BY <1>2, <1>3 DEF HostInv

(* A step that leaves memory, slots and the last write alone, and reads     *)
(* nothing, disturbs nothing.                                               *)
LEMMA HostRests ==
  ASSUME HostInv, UNCHANGED <<slots, memory, scattered>>,
         gathered' \in {gathered, Nothing}
  PROVE  HostInv'
<1>1. memory' \in [Cells -> {memory'[c] : c \in Cells}] /\ StillThere'
  BY DEF HostInv, StillThere
<1>2. SlotsAreMemory'
  BY DEF HostInv, SlotsAreMemory, SlotHeld, slot_address
<1>3. GatherReturnsScattered'
  <2>1. CASE gathered' = Nothing
    BY <2>1 DEF GatherReturnsScattered
  <2>2. CASE gathered' = gathered
    <3>1. GatherReturnsScattered
      BY DEF HostInv
    <3> QED
      BY <2>2, <3>1 DEF GatherReturnsScattered
  <2> QED
    BY <2>1, <2>2
<1> QED
  BY <1>1, <1>2, <1>3 DEF HostInv

(* To the ring, the memory behind its slots is a choice between success and *)
(* failure: every step in host memory is a step of the ring or none.        *)
LEMMA HostSteps ==
  ASSUME HostBacked, [HostNext]_hostVars
  PROVE  [RingNext]_ringVars
<1>1. ASSUME NEW d \in Descriptors, HostPush(d) PROVE RingNext
  BY <1>1 DEF HostPush, RingNext, push_descriptor
<1>2. ASSUME HostPop PROVE RingNext
  BY <1>2 DEF HostPop, RingNext, pop_descriptor
<1>3. ASSUME NEW t \in Transfers, NEW buffer \in Payloads,
             Scatter(t, buffer) \/ Gather(t, buffer) \/ TransferRefused(t, buffer)
      PROVE  UNCHANGED ringVars
  BY <1>3 DEF Scatter, Gather, TransferRefused, hostVars
<1>4. ASSUME NEW a \in FaultPoints, inject(a) PROVE UNCHANGED ringVars
  BY <1>4 DEF inject
<1>5. (ring_reset \/ (\E b \in BOOLEAN : set_masked(b)) \/ DoorbellReset) => RingNext
  BY DEF RingNext
<1>6. UNCHANGED hostVars => UNCHANGED ringVars
  BY DEF hostVars
<1> QED
  BY <1>1, <1>2, <1>3, <1>4, <1>5, <1>6 DEF HostNext

(* Every step in host memory preserves what the ring and the transfers      *)
(* count on.                                                                *)
LEMMA HostNextInv == HostInv /\ RingInv /\ [HostNext]_hostVars => HostInv'
<1> SUFFICES ASSUME HostInv, RingInv, [HostNext]_hostVars PROVE HostInv'
  OBVIOUS
<1>1. ASSUME NEW d \in Descriptors, HostPush(d) PROVE HostInv'
  <2>1. CASE ~is_full /\ Ok(slot_address(producer_index), 1) /\ Store(d)
             /\ memory' = Written(memory, slot_address(producer_index), d)
    BY <1>1, <2>1, HostStores DEF HostPush, RingInv
  <2>2. CASE (\E why : Refuse(why)) /\ UNCHANGED memory
    BY <1>1, <2>2, HostRests DEF HostPush, Refuse, slotVars
  <2> QED
    BY <1>1, <2>1, <2>2 DEF HostPush
<1>2. ASSUME Undisturbed, HostPop \/ ring_reset \/ (\E b \in BOOLEAN : set_masked(b)) \/ DoorbellReset
      PROVE  HostInv'
  <2>1. UNCHANGED slots
    BY <1>2 DEF HostPop, Refuse, Fetch, ring_reset, set_masked, DoorbellReset, slotVars
  <2> QED
    BY <1>2, <2>1, HostRests DEF Undisturbed
<1>3. ASSUME NEW t \in Transfers, NEW buffer \in Payloads, Given(t, buffer),
             Scatter(t, buffer) \/ Gather(t, buffer) \/ TransferRefused(t, buffer)
      PROVE  HostInv'
  <2>1. CASE Scatter(t, buffer)
    <3>1. LaidOut(PiecesOf(t))
      BY <1>3, <2>1, LayoutAssumption DEF Scatter
    <3> QED
      BY <2>1, <3>1, HostScatters
  <2>2. CASE Gather(t, buffer)
    BY <2>2, HostGathers
  <2>3. CASE TransferRefused(t, buffer)
    BY <2>3, HostRests DEF TransferRefused, hostVars, ringVars, slotVars, dmaVars
  <2> QED
    BY <1>3, <2>1, <2>2, <2>3
<1>4. ASSUME NEW a \in FaultPoints, inject(a) PROVE HostInv'
  BY <1>4, HostRests DEF inject, ringVars, slotVars
<1>5. CASE UNCHANGED hostVars
  BY <1>5, HostRests DEF hostVars, ringVars, slotVars, dmaVars
<1> QED
  BY <1>1, <1>2, <1>3, <1>4, <1>5 DEF HostNext, HostPop

(* The ring in host memory takes the steps of the ring, and keeps HostInv.   *)
LEMMA HostInvariant ==
  ASSUME HostBacked
  PROVE  HostSpec => RingSpec /\ []RingInv /\ []HostInv
<1>1. HostInit => RingInit /\ HostInv
  <2> SUFFICES ASSUME HostInit PROVE HostInv
    BY DEF HostInit
  <2>1. memory \in [Cells -> {memory[c] : c \in Cells}]
    BY DEF HostInit
  <2> QED
    BY <2>1 DEF HostInit, HostInv, SlotsAreMemory, StillThere, GatherReturnsScattered
<1>2. [HostNext]_hostVars => [RingNext]_ringVars
  BY HostSteps
<1>3. HostSpec => RingSpec
  BY <1>1, <1>2, PTL DEF HostSpec, RingSpec
<1>4. RingSpec => []RingInv
  BY RingInvariant, PTL DEF RingInv
<1>5. HostSpec => []HostInv
  BY <1>1, <1>3, <1>4, HostNextInv, PTL DEF HostSpec
<1> QED
  BY <1>3, <1>4, <1>5, PTL

(* In host memory the ring is the ring: whatever accesses fail, it          *)
(* implements the bounded queue and its doorbell is current; and its slots  *)
(* are the memory behind them, for any translation under which the driver's *)
(* layout keeps ring and packet data apart.                                 *)
THEOREM HostRingTheorem ==
  ASSUME HostBacked
  PROVE  HostSpec => ImplementsFifo /\ [](DoorbellCurrent /\ SlotsAreMemory)
<1>1. RingInv => DoorbellCurrent
  BY DEF RingInv
<1>2. HostInv => SlotsAreMemory
  BY DEF HostInv
<1> QED
  BY <1>1, <1>2, HostInvariant, RingImplementsFifo, PTL

(* Packet data that transfer_sgl or write_burst wrote without an error is   *)
(* what the same list or burst reads back, whatever the ring pushes and     *)
(* whichever transfers fail in between.                                     *)
THEOREM PacketDataTheorem ==
  ASSUME HostBacked
  PROVE  HostSpec => []GatherReturnsScattered
<1>1. HostInv => GatherReturnsScattered
  BY DEF HostInv
<1> QED
  BY <1>1, HostInvariant, PTL
=============================================================================
