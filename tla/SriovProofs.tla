---------------------------- MODULE SriovProofs -----------------------------
(***************************************************************************)
(* For any number of functions, queues and vectors: resources always have  *)
(* exactly one owner, a function keeps its own, and the devices opened on  *)
(* functions drive queues of their own.  For any number of VFs with a      *)
(* mailbox: the inboxes are bounded, a conversation has one message under  *)
(* way, and send_and_receive returns the answer to its own request.        *)
(***************************************************************************)
EXTENDS VfDevice, Mailbox, FiniteSetTheorems, WellFoundedInduction, TLAPS

(* Leaves are for Zenon; the ones with arithmetic, sequences or records in   *)
(* them name SMT.                                                           *)
USE Zenon

(* The invariant is inductive as it stands. *)
Inv == TypeOK /\ ResourcesPartitioned

(* The search for a free range returns one whenever there is one. *)
LEMMA FirstFit ==
  ASSUME NEW kind \in Kinds, NEW count \in Nat, FreeStarts(kind, count) # {}
  PROVE  find_free_range(kind, count) \in FreeStarts(kind, count)
<1> DEFINE F == FreeStarts(kind, count)
           R == OpToRel(<, Nat)
<1>1. F \subseteq Nat /\ F # {}
  BY SMT, PfAssumption DEF FreeStarts, Slots
<1> HIDE DEF F
<1>2. PICK s \in F : \A t \in F : ~(<<t, s>> \in R)
  <2>1. IsWellFoundedOn(R, Nat)
    BY NatLessThanWellFounded
  <2> HIDE DEF R
  <2> QED
    BY <1>1, <2>1, WFMin
<1>3. \A t \in F : ~(t < s)
  BY <1>1, <1>2 DEF OpToRel
<1>4. \A t \in F : s <= t
  BY SMT, <1>1, <1>3
<1> QED
  BY <1>4 DEF find_free_range, F

(* What is owned by some function, element by element. *)
Owned(kind) == UNION {vfs[v].ids[kind] : v \in DOMAIN vfs}

(* An element is owned exactly when some function has it.                   *)
LEMMA OwnedElements ==
  ASSUME NEW kind, NEW n
  PROVE  /\ n \in Owned(kind) <=> \E v \in DOMAIN vfs : n \in vfs[v].ids[kind]
         /\ n \in Owned(kind)' <=> \E v \in DOMAIN vfs' : n \in vfs'[v].ids[kind]
BY DEF Owned

(* The ranges a creation takes are within the device and were free. *)
LEMMA Allocation ==
  ASSUME Inv, NEW request \in Requests, try_allocate_resources(request), NEW kind \in Kinds
  PROVE  LET alloc == allocate_resources(request)
         IN  /\ alloc[kind] \in [start : Nat, count : Nat]
             /\ Ids(alloc, kind) \subseteq Slots(kind)
             /\ Ids(alloc, kind) \cap allocated[kind] = {}
<1> DEFINE count == request[kind]
           start == find_free_range(kind, count)
<1>1. count \in Nat /\ Total[kind] \in Nat
  BY PfAssumption
<1>2. start \in FreeStarts(kind, count)
  BY <1>1, FirstFit DEF try_allocate_resources
<1>3. allocate_resources(request)[kind] = [start |-> start, count |-> count]
  BY DEF allocate_resources
<1> HIDE DEF start, count
<1>4. start \in Nat /\ start + count <= Total[kind] /\ Span(start, count) \cap allocated[kind] = {}
  BY SMT, <1>1, <1>2 DEF FreeStarts, Slots
<1>5. Span(start, count) \subseteq Slots(kind)
  BY SMT, <1>1, <1>4 DEF Span, Slots
<1> QED
  BY SMT, <1>1, <1>3, <1>4, <1>5 DEF Ids

(* A new function owns what nobody owned. *)
LEMMA CreateStep ==
  ASSUME Inv, NEW v \in VfIds, NEW request \in Requests, NEW enabled \in BOOLEAN,
         create_vf(v, request, enabled)
  PROVE  Inv' /\ \A w \in DOMAIN vfs \cap DOMAIN vfs' : vfs'[w].ids = vfs[w].ids
<1>1. PICK alloc, vf :
        /\ alloc = allocate_resources(request)
        /\ vf = [state |-> "Disabled", enabled |-> enabled,
                 ids |-> [kind \in Kinds |-> Ids(alloc, kind)]]
  OBVIOUS
<1>2. /\ allocated' = [kind \in Kinds |-> allocated[kind] \cup (Ids(alloc, kind) \cap Slots(kind))]
      /\ vf_allocations' = [w \in DOMAIN vf_allocations \cup {v} |->
                              IF w = v THEN alloc ELSE vf_allocations[w]]
      /\ vfs' = [w \in DOMAIN vfs \cup {v} |-> IF w = v THEN vf ELSE vfs[w]]
      /\ v \notin DOMAIN vfs
  BY <1>1 DEF create_vf
<1>3. \A kind \in Kinds : /\ alloc[kind] \in [start : Nat, count : Nat]
                          /\ Ids(alloc, kind) \subseteq Slots(kind)
                          /\ Ids(alloc, kind) \cap allocated[kind] = {}
  BY <1>1, Allocation DEF create_vf
<1>4. /\ DOMAIN vfs' = DOMAIN vfs \cup {v} /\ vfs'[v] = vf /\ vf_allocations'[v] = alloc
      /\ \A w \in DOMAIN vfs : vfs'[w] = vfs[w] /\ vf_allocations'[w] = vf_allocations[w]
  BY <1>2 DEF Inv, TypeOK
<1>5. TypeOK'
  <2>1. alloc \in [Kinds -> [start : Nat, count : Nat]]
    BY <1>1, <1>3 DEF allocate_resources
  <2>2. vf \in [state : VfState, enabled : BOOLEAN, ids : [Kinds -> SUBSET Nat]]
    BY SMT, <1>1, <1>3 DEF VfState, Slots
  <2>3. vfs' \in [DOMAIN vfs' -> [state : VfState, enabled : BOOLEAN, ids : [Kinds -> SUBSET Nat]]]
    BY <1>2, <1>4, <2>2 DEF Inv, TypeOK
  <2>4. vf_allocations' \in [DOMAIN vfs' -> [Kinds -> [start : Nat, count : Nat]]]
    BY <1>2, <1>4, <2>1 DEF Inv, TypeOK
  <2>5. /\ allocated' \in [Kinds -> SUBSET Nat]
        /\ \A kind \in Kinds : allocated'[kind] \subseteq Slots(kind)
    BY SMT, <1>2 DEF Inv, TypeOK, Slots
  <2>6. \A w \in DOMAIN vfs' : \A kind \in Kinds : vfs'[w].ids[kind] = Ids(vf_allocations'[w], kind)
    BY SMT, <1>1, <1>4 DEF Inv, TypeOK
  <2> QED
    BY <1>2, <1>4, <2>3, <2>4, <2>5, <2>6 DEF Inv, TypeOK
<1>6. ResourcesPartitioned'
  <2> SUFFICES ASSUME NEW kind \in Kinds
               PROVE  /\ allocated'[kind] = PfOwn(kind) \cup Owned(kind)'
                      /\ \A w \in DOMAIN vfs' : vfs'[w].ids[kind] \cap PfOwn(kind) = {}
                      /\ \A w, x \in DOMAIN vfs' : w # x => vfs'[w].ids[kind] \cap vfs'[x].ids[kind] = {}
    BY DEF ResourcesPartitioned, PfOwn, Slots, Span, Owned
  <2>1. vfs'[v].ids[kind] = Ids(alloc, kind)
    BY SMT, <1>1, <1>4
  <2>2. allocated'[kind] = allocated[kind] \cup vfs'[v].ids[kind]
    BY <1>2, <1>3, <2>1
  <2>3. allocated[kind] = PfOwn(kind) \cup Owned(kind)
    BY DEF Inv, ResourcesPartitioned, Owned
  <2>4. \A w \in DOMAIN vfs : vfs[w].ids[kind] \cap vfs'[v].ids[kind] = {}
    BY <1>3, <2>1, <2>3, OwnedElements
  <2>5. PfOwn(kind) \cap vfs'[v].ids[kind] = {}
    BY <1>3, <2>1, <2>3
  <2>6. Owned(kind)'
          = Owned(kind) \cup vfs'[v].ids[kind]
    BY <1>4, OwnedElements
  <2>7. \A w \in DOMAIN vfs' : vfs'[w].ids[kind] \cap PfOwn(kind) = {}
    BY <1>4, <2>5 DEF Inv, ResourcesPartitioned
  <2>8. \A w, x \in DOMAIN vfs' : w # x => vfs'[w].ids[kind] \cap vfs'[x].ids[kind] = {}
    BY <1>4, <2>4 DEF Inv, ResourcesPartitioned
  <2> QED
    BY <2>2, <2>3, <2>6, <2>7, <2>8
<1> QED
  BY <1>4, <1>5, <1>6 DEF Inv

(* A function that goes gives back its own resources and no other's. *)
LEMMA DestroyStep ==
  ASSUME Inv, NEW v \in VfIds, destroy_vf(v)
  PROVE  Inv' /\ \A w \in DOMAIN vfs \cap DOMAIN vfs' : vfs'[w].ids = vfs[w].ids
<1>1. /\ v \in DOMAIN vfs
      /\ allocated' = [kind \in Kinds |-> allocated[kind] \ Ids(vf_allocations[v], kind)]
      /\ vf_allocations' = [w \in DOMAIN vf_allocations \ {v} |-> vf_allocations[w]]
      /\ vfs' = [w \in DOMAIN vfs \ {v} |-> vfs[w]]
  BY DEF destroy_vf, free_resources, Inv, TypeOK
<1>2. /\ DOMAIN vfs' = DOMAIN vfs \ {v}
      /\ \A w \in DOMAIN vfs' : vfs'[w] = vfs[w] /\ vf_allocations'[w] = vf_allocations[w]
  BY <1>1 DEF Inv, TypeOK
<1>3. TypeOK'
  <2>1. vfs' \in [DOMAIN vfs' -> [state : VfState, enabled : BOOLEAN, ids : [Kinds -> SUBSET Nat]]]
    BY <1>1, <1>2 DEF Inv, TypeOK
  <2>2. vf_allocations' \in [DOMAIN vfs' -> [Kinds -> [start : Nat, count : Nat]]]
    BY <1>1, <1>2 DEF Inv, TypeOK
  <2>3. /\ allocated' \in [Kinds -> SUBSET Nat]
        /\ \A kind \in Kinds : allocated'[kind] \subseteq Slots(kind)
    BY <1>1 DEF Inv, TypeOK
  <2> QED
    BY <1>1, <1>2, <2>1, <2>2, <2>3 DEF Inv, TypeOK
<1>4. ResourcesPartitioned'
  <2> SUFFICES ASSUME NEW kind \in Kinds
               PROVE  /\ allocated'[kind] = PfOwn(kind) \cup Owned(kind)'
                      /\ \A w \in DOMAIN vfs' : vfs'[w].ids[kind] \cap PfOwn(kind) = {}
                      /\ \A w, x \in DOMAIN vfs' : w # x => vfs'[w].ids[kind] \cap vfs'[x].ids[kind] = {}
    BY DEF ResourcesPartitioned, PfOwn, Slots, Span, Owned
  <2>1. allocated'[kind] = allocated[kind] \ vfs[v].ids[kind]
    BY <1>1 DEF Inv, TypeOK
  <2>2. /\ allocated[kind] = PfOwn(kind) \cup Owned(kind)
        /\ \A w \in DOMAIN vfs : vfs[w].ids[kind] \cap PfOwn(kind) = {}
        /\ \A w, x \in DOMAIN vfs : w # x => vfs[w].ids[kind] \cap vfs[x].ids[kind] = {}
    BY DEF Inv, ResourcesPartitioned, Owned
  <2>3. \A w \in DOMAIN vfs' : w \in DOMAIN vfs /\ w # v /\ vfs'[w].ids = vfs[w].ids
    BY <1>2
  <2>4. Owned(kind)
          = Owned(kind)' \cup vfs[v].ids[kind]
    BY <1>1, <1>2, OwnedElements
  <2>5. vfs[v].ids[kind] \cap (PfOwn(kind) \cup Owned(kind)') = {}
    BY <1>1, <2>2, <2>3, OwnedElements
  <2>6. /\ \A w \in DOMAIN vfs' : vfs'[w].ids[kind] \cap PfOwn(kind) = {}
        /\ \A w, x \in DOMAIN vfs' : w # x => vfs'[w].ids[kind] \cap vfs'[x].ids[kind] = {}
    BY <2>2, <2>3
  <2> QED
    BY <2>1, <2>2, <2>4, <2>5, <2>6
<1> QED
  BY <1>2, <1>3, <1>4 DEF Inv

(* Enabling, disabling and resetting a function, or nothing at all, changes *)
(* no resource.                                                             *)
LEMMA SwitchStep ==
  ASSUME Inv,
         \/ UNCHANGED vars
         \/ \E v \in VfIds : enable_vf(v) \/ disable_vf(v) \/ reset_vf(v)
  PROVE  Inv' /\ \A w \in DOMAIN vfs \cap DOMAIN vfs' : vfs'[w].ids = vfs[w].ids
<1>1. /\ UNCHANGED <<vf_allocations, allocated>>
      /\ \/ vfs' = vfs
         \/ \E v \in DOMAIN vfs : \E state \in VfState : Moved(v, state)
  BY DEF enable_vf, disable_vf, reset_vf, VfState, vars
<1>2. /\ DOMAIN vfs' = DOMAIN vfs /\ \A w \in DOMAIN vfs : vfs'[w].ids = vfs[w].ids
      /\ vfs' \in [DOMAIN vfs -> [state : VfState, enabled : BOOLEAN, ids : [Kinds -> SUBSET Nat]]]
  <2>1. CASE vfs' = vfs
    BY <2>1 DEF Inv, TypeOK
  <2>2. CASE \E v \in DOMAIN vfs : \E state \in VfState : Moved(v, state)
    <3>0. PICK v \in DOMAIN vfs, state \in VfState : Moved(v, state)
      BY <2>2
    <3>1. PICK e \in BOOLEAN : e = (state = "Enabled")
      OBVIOUS
    <3>2. vfs' = [vfs EXCEPT ![v].state = state, ![v].enabled = e]
      BY <3>0, <3>1 DEF Moved
    <3>3. vfs[v] \in [state : VfState, enabled : BOOLEAN, ids : [Kinds -> SUBSET Nat]]
      BY DEF Inv, TypeOK
    <3>4. /\ DOMAIN vfs' = DOMAIN vfs /\ \A w \in DOMAIN vfs : w # v => vfs'[w] = vfs[w]
          /\ vfs'[v] = [vfs[v] EXCEPT !.state = state, !.enabled = e]
      BY <3>2 DEF Inv, TypeOK
    <3>5. /\ vfs'[v] \in [state : VfState, enabled : BOOLEAN, ids : [Kinds -> SUBSET Nat]]
          /\ vfs'[v].ids = vfs[v].ids
      BY <3>3, <3>4
    <3> QED
      BY <3>2, <3>4, <3>5 DEF Inv, TypeOK
  <2> QED
    BY <1>1, <2>1, <2>2
<1>3. TypeOK'
  BY <1>1, <1>2 DEF Inv, TypeOK
<1>4. ResourcesPartitioned'
  <2>1. \A kind \in Kinds : {vfs'[w].ids[kind] : w \in DOMAIN vfs'} = {vfs[w].ids[kind] : w \in DOMAIN vfs}
    BY <1>2
  <2> QED
    BY <1>1, <1>2, <2>1 DEF Inv, ResourcesPartitioned
<1> QED
  BY <1>2, <1>3, <1>4 DEF Inv

(* The manager starts with what the physical function keeps. *)
LEMMA InitInv == Init => Inv
<1> SUFFICES ASSUME Init PROVE Inv
  OBVIOUS
<1>1. DOMAIN vfs = {} /\ DOMAIN vf_allocations = {}
  BY DEF Init
<1>2. TypeOK
  BY SMT, <1>1 DEF Init, TypeOK, PfOwn, Slots
<1>3. \A kind \in Kinds : allocated[kind] = PfOwn(kind) /\ Owned(kind) = {}
  BY <1>1, OwnedElements DEF Init
<1> QED
  BY <1>1, <1>2, <1>3 DEF Inv, ResourcesPartitioned, Owned

(* Every step preserves the invariant and the resources of those who stay. *)
LEMMA StepInv ==
  ASSUME Inv, [Next]_vars
  PROVE  Inv' /\ \A w \in DOMAIN vfs \cap DOMAIN vfs' : vfs'[w].ids = vfs[w].ids
<1>1. CASE \E v \in VfIds, request \in Requests, enabled \in BOOLEAN : create_vf(v, request, enabled)
  BY <1>1, CreateStep
<1>2. CASE \E v \in VfIds : destroy_vf(v)
  BY <1>2, DestroyStep
<1>3. CASE \/ UNCHANGED vars
           \/ \E v \in VfIds : enable_vf(v) \/ disable_vf(v) \/ reset_vf(v)
  BY <1>3, SwitchStep
<1> QED
  BY <1>1, <1>2, <1>3 DEF Next

(* No queue or vector ever has two owners, and none leaks. *)
THEOREM PartitionTheorem == Spec => [](TypeOK /\ ResourcesPartitioned)
<1>1. Inv /\ [Next]_vars => Inv'
  BY StepInv
<1> QED
  BY InitInv, <1>1, PTL DEF Spec, Inv

(* A function keeps its queues and vectors as long as it exists. *)
THEOREM KeptTheorem == Spec => ResourcesKept
<1>1. Inv /\ [Next]_vars =>
        [\A v \in DOMAIN vfs \cap DOMAIN vfs' : vfs'[v].ids = vfs[v].ids]_vars
  BY StepInv
<1> QED
  BY <1>1, PartitionTheorem, PTL DEF Spec, ResourcesKept, Inv

-----------------------------------------------------------------------------
QueuePairs == [queue_id : Nat, waiting : Nat]

QueueLists == UNION {[1..n -> QueuePairs] : n \in Nat}

(* What devices know of their functions stays true of them as long as these *)
(* exist, and no device ever got a queue of the physical function.          *)
DevInv ==
  /\ Inv
  /\ devices \in [DOMAIN devices -> QueueLists]
  /\ \A v \in DOMAIN devices : QueueIds(v) \cap PfOwn(Queue) = {}
  /\ \A v \in DOMAIN devices \ orphans :
       v \in DOMAIN vfs /\ QueueIds(v) \subseteq vfs[v].ids[Queue]

(* The identifiers a device takes are the first of its function's range. *)
LEMMA FirstQueues ==
  ASSUME Inv, NEW v \in DOMAIN vfs
  PROVE  /\ initialize_queue_pairs(v) \in QueueLists
         /\ \A i \in DOMAIN initialize_queue_pairs(v) :
              initialize_queue_pairs(v)[i].queue_id \in vfs[v].ids[Queue]
<1> DEFINE ids == vfs[v].ids[Queue]
           first == CHOOSE s \in ids : \A t \in ids : s <= t
           n == IF num_queue_pairs < Cardinality(ids) THEN num_queue_pairs ELSE Cardinality(ids)
<1>1. PICK start \in Nat, count \in Nat : ids = start..(start + count - 1)
  BY SMT, DeviceAssumption DEF Inv, TypeOK, Ids, Span
<1>2. Cardinality(ids) = count
  <2>1. start + count - 1 \in Int
    BY SMT
  <2> QED
    BY SMT, <1>1, <2>1, FS_Interval
<1>3. n \in Nat /\ n <= count
  BY SMT, <1>2, DeviceAssumption
<1>4. count > 0 => first = start
  BY SMT, <1>1
<1>5. initialize_queue_pairs(v) = [i \in 1..n |-> QueuePair(first + i - 1)]
  BY DEF initialize_queue_pairs
<1> HIDE DEF n, first, ids
<1>6. \A i \in 1..n : first + i - 1 \in ids /\ first + i - 1 \in Nat
  BY SMT, <1>1, <1>3, <1>4
<1>7. \A i \in 1..n : QueuePair(first + i - 1) \in QueuePairs
  BY <1>6 DEF QueuePair, QueuePairs
<1>8. \A i \in 1..n : QueuePair(first + i - 1).queue_id = first + i - 1
  BY DEF QueuePair
<1>9. initialize_queue_pairs(v) \in [1..n -> QueuePairs]
  BY <1>5, <1>7
<1> QED
  BY <1>3, <1>5, <1>6, <1>8, <1>9 DEF ids, QueueLists

(* A step of the manager leaves the devices what they took, as long as      *)
(* those whose function it destroys count as orphans.                       *)
LEMMA ManagerStep ==
  ASSUME DevInv, [Next]_vars, UNCHANGED devices, orphans \subseteq orphans',
         DOMAIN devices \ orphans' \subseteq DOMAIN vfs'
  PROVE  DevInv'
<1>1. Inv' /\ \A w \in DOMAIN vfs \cap DOMAIN vfs' : vfs'[w].ids = vfs[w].ids
  BY StepInv DEF DevInv
<1>2. \A v \in DOMAIN devices : QueueIds(v)' = QueueIds(v) /\ PfOwn(Queue)' = PfOwn(Queue)
  BY DEF QueueIds, PfOwn, Slots
<1>3. ASSUME NEW v \in DOMAIN devices' \ orphans'
      PROVE  v \in DOMAIN vfs' /\ QueueIds(v)' \subseteq vfs'[v].ids[Queue]
  <2>1. v \in DOMAIN devices \ orphans /\ v \in DOMAIN vfs'
    BY <1>3
  <2> QED
    BY <1>1, <1>2, <2>1 DEF DevInv
<1> QED
  BY <1>1, <1>2, <1>3 DEF DevInv

(* A queue pair that is processed or reset is still the same one. *)
LEMMA SameQueue ==
  ASSUME NEW qp \in QueuePairs
  PROVE  /\ Processed(qp) \in QueuePairs /\ Processed(qp).queue_id = qp.queue_id
         /\ QueuePair(qp.queue_id) \in QueuePairs /\ QueuePair(qp.queue_id).queue_id = qp.queue_id
BY SMT DEF Processed, QueuePair, QueuePairs

(* A call on a device changes no queue's identifier. *)
LEMMA DeviceStep ==
  ASSUME DevInv, UNCHANGED <<pfVars, orphans>>, NEW v \in DOMAIN devices,
         NEW qps \in [DOMAIN devices[v] -> QueuePairs],
         devices' = [devices EXCEPT ![v] = qps],
         \A i \in DOMAIN devices[v] : qps[i].queue_id = devices[v][i].queue_id
  PROVE  DevInv'
<1>1. Inv'
  BY SwitchStep DEF DevInv, pfVars, vars
<1>2. PICK n \in Nat : devices[v] \in [1..n -> QueuePairs]
  BY SMT DEF DevInv, QueueLists
<1>3. qps \in QueueLists
  BY <1>2 DEF QueueLists
<1>4. devices' \in [DOMAIN devices' -> QueueLists]
  BY <1>3 DEF DevInv
<1>5. \A w \in DOMAIN devices' : w \in DOMAIN devices /\ QueueIds(w)' = QueueIds(w)
  <2>1. QueueIds(v)' = QueueIds(v)
    <3>1. devices'[v] = qps
      BY DEF DevInv
    <3> QED
      BY <3>1 DEF QueueIds
  <2>2. \A w \in DOMAIN devices \ {v} : devices'[w] = devices[w]
    OBVIOUS
  <2> QED
    BY SMT, <2>1, <2>2 DEF QueueIds
<1> QED
  BY ZenonT(30), <1>1, <1>4, <1>5 DEF DevInv, pfVars, PfOwn, Slots

(* Devices are opened, used and closed. *)
LEMMA DevStep == ASSUME DevInv, [DevNext]_allVars PROVE DevInv'
<1>0. Inv /\ devices \in [DOMAIN devices -> QueueLists]
  BY DEF DevInv
<1>1. CASE UNCHANGED allVars
  BY <1>1, ManagerStep DEF allVars, pfVars, vars, DevInv
<1>2. ASSUME NEW v \in VfIds, UNCHANGED deviceVars,
             \/ \E request \in Requests, enabled \in BOOLEAN : create_vf(v, request, enabled)
             \/ enable_vf(v) \/ disable_vf(v) \/ reset_vf(v)
      PROVE  DevInv'
  <2>1. Next /\ UNCHANGED <<devices, orphans>>
    BY <1>2 DEF Next, deviceVars
  <2>2. DOMAIN vfs \subseteq DOMAIN vfs'
    BY <1>0, <1>2 DEF create_vf, enable_vf, disable_vf, reset_vf, Moved
  <2> QED
    BY <2>1, <2>2, ManagerStep DEF DevInv
<1>a. ASSUME NEW v \in VfIds, DestroyUnderDevice(v) PROVE DevInv'
  <2>1. Next /\ UNCHANGED devices /\ orphans' = orphans \cup ({v} \cap DOMAIN devices)
    BY <1>a DEF Next, DestroyUnderDevice
  <2>2. DOMAIN vfs \ {v} \subseteq DOMAIN vfs'
    BY <1>a DEF DestroyUnderDevice, destroy_vf
  <2> QED
    BY <2>1, <2>2, ManagerStep DEF DevInv
<1>3. ASSUME NEW v \in VfIds, VFDevice(v) PROVE DevInv'
  <2>1. PICK qps : qps = initialize_queue_pairs(v)
    OBVIOUS
  <2>2. /\ v \in DOMAIN vfs /\ v \notin DOMAIN devices /\ UNCHANGED <<pfVars, orphans>>
        /\ devices' = [w \in DOMAIN devices \cup {v} |-> IF w = v THEN qps ELSE devices[w]]
    BY <1>3, <2>1 DEF VFDevice
  <2>3. /\ qps \in QueueLists
        /\ \A i \in DOMAIN qps : qps[i].queue_id \in vfs[v].ids[Queue]
    BY <1>0, <2>1, <2>2, FirstQueues
  <2>4. Inv'
    BY <1>0, <2>2, SwitchStep DEF pfVars, vars
  <2>5. \A w \in DOMAIN devices : QueueIds(w)' = QueueIds(w)
    BY <2>2 DEF QueueIds
  <2>6. QueueIds(v)' \subseteq vfs[v].ids[Queue]
    BY <2>2, <2>3 DEF QueueIds
  <2>7. devices' \in [DOMAIN devices' -> QueueLists]
    BY <1>0, <2>2, <2>3
  <2>8. QueueIds(v)' \cap PfOwn(Queue) = {}
    BY <2>2, <2>6, DeviceAssumption DEF DevInv, Inv, ResourcesPartitioned
  <2> QED
    BY ZenonT(30), <2>2, <2>4, <2>5, <2>6, <2>7, <2>8 DEF DevInv, pfVars, PfOwn, Slots
<1>4. ASSUME NEW v \in VfIds, Close(v) PROVE DevInv'
  <2>1. /\ devices' = [w \in DOMAIN devices \ {v} |-> devices[w]]
        /\ orphans' = orphans \ {v} /\ UNCHANGED pfVars
    BY <1>4 DEF Close
  <2>2. Inv'
    BY <1>0, <2>1, SwitchStep DEF pfVars, vars
  <2>3. \A w \in DOMAIN devices' : w \in DOMAIN devices /\ QueueIds(w)' = QueueIds(w)
    BY <2>1 DEF QueueIds
  <2>4. devices' \in [DOMAIN devices' -> QueueLists]
    BY <1>0, <2>1
  <2> QED
    BY ZenonT(30), <2>1, <2>2, <2>3, <2>4 DEF DevInv, pfVars, PfOwn, Slots
<1>5. ASSUME NEW v \in DOMAIN devices PROVE
        devices[v] \in [DOMAIN devices[v] -> QueuePairs]
  BY SMT, <1>0 DEF QueueLists
<1>6. ASSUME NEW v \in VfIds, NEW i \in 1..num_queue_pairs, push_tx(v, i) PROVE DevInv'
  <2>1. PICK qp : qp = [devices[v][i] EXCEPT !.waiting = @ + 1]
    OBVIOUS
  <2>2. PICK qps : qps = [devices[v] EXCEPT ![i] = qp]
    OBVIOUS
  <2>3. v \in DOMAIN devices /\ i \in DOMAIN devices[v] /\ UNCHANGED <<pfVars, orphans>>
    BY <1>6 DEF push_tx
  <2>4. devices' = [devices EXCEPT ![v] = qps]
    BY <1>6, <2>1, <2>2 DEF push_tx
  <2>5. qp \in QueuePairs /\ qp.queue_id = devices[v][i].queue_id
    <3>1. PICK old \in QueuePairs : old = devices[v][i]
      BY <1>5, <2>3
    <3>2. qp = [old EXCEPT !.waiting = @ + 1]
      BY <2>1, <3>1
    <3>3. PICK more \in Nat : more = old.waiting + 1
      BY SMT DEF QueuePairs
    <3>4. qp = [queue_id |-> old.queue_id, waiting |-> more] /\ old.queue_id \in Nat
      BY <3>2, <3>3 DEF QueuePairs
    <3> QED
      BY <3>1, <3>4 DEF QueuePairs
  <2>6. /\ qps \in [DOMAIN devices[v] -> QueuePairs]
        /\ \A j \in DOMAIN devices[v] : qps[j].queue_id = devices[v][j].queue_id
    BY <1>5, <2>2, <2>3, <2>5
  <2>7. v \in DOMAIN devices /\ UNCHANGED <<pfVars, orphans>>
    BY <2>3
  <2> QED
    BY <2>4, <2>6, <2>7, DeviceStep
<1>7. ASSUME NEW v \in VfIds, NEW i \in 1..num_queue_pairs, process_queue_pair(v, i) PROVE DevInv'
  <2>1. PICK qp : qp = Processed(devices[v][i])
    OBVIOUS
  <2>2. PICK qps : qps = [devices[v] EXCEPT ![i] = qp]
    OBVIOUS
  <2>3. v \in DOMAIN devices /\ i \in DOMAIN devices[v] /\ UNCHANGED <<pfVars, orphans>>
    BY <1>7 DEF process_queue_pair
  <2>4. devices' = [devices EXCEPT ![v] = qps]
    BY <1>7, <2>1, <2>2 DEF process_queue_pair
  <2>5. qp \in QueuePairs /\ qp.queue_id = devices[v][i].queue_id
    BY <1>5, <2>1, <2>3, SameQueue
  <2>6. /\ qps \in [DOMAIN devices[v] -> QueuePairs]
        /\ \A j \in DOMAIN devices[v] : qps[j].queue_id = devices[v][j].queue_id
    BY <1>5, <2>2, <2>3, <2>5
  <2>7. v \in DOMAIN devices /\ UNCHANGED <<pfVars, orphans>>
    BY <2>3
  <2> QED
    BY <2>4, <2>6, <2>7, DeviceStep
<1>8. ASSUME NEW v \in VfIds, process_all(v) PROVE DevInv'
  <2>1. PICK qps : qps = [i \in DOMAIN devices[v] |-> Processed(devices[v][i])]
    OBVIOUS
  <2>2. v \in DOMAIN devices /\ UNCHANGED <<pfVars, orphans>> /\ devices' = [devices EXCEPT ![v] = qps]
    BY <1>8, <2>1 DEF process_all
  <2>3. /\ qps \in [DOMAIN devices[v] -> QueuePairs]
        /\ \A i \in DOMAIN devices[v] : qps[i].queue_id = devices[v][i].queue_id
    BY <1>5, <2>1, <2>2, SameQueue
  <2> QED
    BY <2>1, <2>2, <2>3, DeviceStep
<1>9. ASSUME NEW v \in VfIds, reset(v) PROVE DevInv'
  <2>1. PICK qps : qps = [i \in DOMAIN devices[v] |-> QueuePair(devices[v][i].queue_id)]
    OBVIOUS
  <2>2. v \in DOMAIN devices /\ UNCHANGED <<pfVars, orphans>> /\ devices' = [devices EXCEPT ![v] = qps]
    BY <1>9, <2>1 DEF reset
  <2>3. /\ qps \in [DOMAIN devices[v] -> QueuePairs]
        /\ \A i \in DOMAIN devices[v] : qps[i].queue_id = devices[v][i].queue_id
    BY <1>5, <2>1, <2>2, SameQueue
  <2> QED
    BY <2>1, <2>2, <2>3, DeviceStep
<1> QED
  BY <1>1, <1>2, <1>3, <1>4, <1>6, <1>7, <1>8, <1>9, <1>a DEF DevNext

(* Devices only use the manager: with them open it still behaves as it is   *)
(* specified alone, so a resource has one owner and stays with it.          *)
THEOREM DevicesUseManager == DevSpec => [](TypeOK /\ ResourcesPartitioned) /\ ResourcesKept
<1>1. DevInit => Init
  BY DEF DevInit
<1>2. [DevNext]_allVars => [Next]_vars
  BY DEF DevNext, allVars, pfVars, vars, Next, DestroyUnderDevice, VFDevice, Close, push_tx,
         process_queue_pair, process_all, reset
<1>3. DevSpec => Spec
  BY <1>1, <1>2, PTL DEF DevSpec, Spec
<1> QED
  BY <1>3, PartitionTheorem, KeptTheorem, PTL

(* For any number of functions, devices and queues: while its function      *)
(* exists the queues of a device belong to it and to no other such device,  *)
(* whatever is destroyed under other devices, and no device ever drives a   *)
(* queue of the physical function.                                          *)
THEOREM IsolationTheorem == DevSpec => []DevicesIsolated
<1>1. DevInit => DevInv
  BY InitInv DEF DevInit, DevInv
<1>2. DevInv /\ [DevNext]_allVars => DevInv'
  BY DevStep
<1>3. DevInv => DevicesIsolated
  BY SMT, DeviceAssumption DEF DevInv, DevicesIsolated, Inv, ResourcesPartitioned
<1> QED
  BY <1>1, <1>2, <1>3, PTL DEF DevSpec

-----------------------------------------------------------------------------
(* The mailbox. *)

Messages == [vf_id : VFs, sequence : Nat, id : Nat, root : Nat]

Boxes == [pf_inbox : Seq(Messages), vf_inboxes : [VFs -> Seq(Messages)], sent : Nat, received : Nat]

(* The inboxes, the PF's among them. *)
PF == -1

Places == VFs \cup {PF}

At(b, x) == IF x = PF THEN b.pf_inbox ELSE b.vf_inboxes[x]

HasRoot(b, r) == \E x \in Places : \E i \in 1..Len(At(b, x)) : At(b, x)[i].root = r

(* A conversation has one message under way, wherever it is. *)
RootsApart(b) ==
  \A x, y \in Places : \A i \in 1..Len(At(b, x)), j \in 1..Len(At(b, y)) :
    At(b, x)[i].root = At(b, y)[j].root => x = y /\ i = j

BoxOK(b) ==
  /\ b \in Boxes
  /\ \A x \in Places : Len(At(b, x)) <= kMaxQueueDepth
  /\ \A v \in VFs : \A i \in 1..Len(b.vf_inboxes[v]) : b.vf_inboxes[v][i].vf_id = v
  /\ \A x \in Places : \A i \in 1..Len(At(b, x)) : At(b, x)[i].root \in 1..b.sent
  /\ RootsApart(b)

(* Some message under way has this sequence number and this root. *)
HasTag(b, sequence, r) ==
  \E x \in Places : \E i \in 1..Len(At(b, x)) :
    At(b, x)[i].sequence = sequence /\ At(b, x)[i].root = r

(* The inboxes are places of their own. *)
LEMMA PlacesApart ==
  /\ PF \in Places /\ PF \notin VFs
  /\ \A b : At(b, PF) = b.pf_inbox
  /\ \A b : \A v \in VFs : v \in Places /\ At(b, v) = b.vf_inboxes[v]
BY SMT, MailboxAssumption DEF Places, PF, At

(* A message of a new conversation, or of one that has none under way, may  *)
(* be put into an inbox that has room.                                      *)
LEMMA Push ==
  ASSUME NEW b, BoxOK(b), NEW x \in Places, NEW m \in Messages, x # PF => m.vf_id = x,
         Len(At(b, x)) < kMaxQueueDepth, m.root \in 1..(b.sent + 1), ~HasRoot(b, m.root),
         NEW b2 \in Boxes, b2.sent = b.sent + 1, At(b2, x) = Append(At(b, x), m),
         \A y \in Places : y # x => At(b2, y) = At(b, y)
  PROVE  /\ BoxOK(b2)
         /\ \A s, r : HasTag(b2, s, r) => HasTag(b, s, r) \/ (s = m.sequence /\ r = m.root)
<1>1. \A y \in Places : At(b, y) \in Seq(Messages)
  BY DEF BoxOK, Boxes, Places, At
<1>2. /\ Len(At(b2, x)) = Len(At(b, x)) + 1 /\ At(b2, x)[Len(At(b, x)) + 1] = m
      /\ \A i \in 1..Len(At(b, x)) : At(b2, x)[i] = At(b, x)[i]
  BY SMT, <1>1
<1>3. b.sent \in Nat /\ kMaxQueueDepth \in Nat
  BY MailboxAssumption DEF BoxOK, Boxes
<1>4. ASSUME NEW y \in Places, NEW i \in 1..Len(At(b2, y))
      PROVE  \/ i \in 1..Len(At(b, y)) /\ At(b2, y)[i] = At(b, y)[i]
             \/ y = x /\ i = Len(At(b, x)) + 1 /\ At(b2, y)[i] = m
  <2>1. CASE y = x
    <3>1. Len(At(b, x)) \in Nat
      BY SMT, <1>1
    <3> QED
      BY SMT, <1>2, <2>1, <3>1
  <2>2. CASE y # x
    BY <2>2
  <2> QED
    BY <2>1, <2>2
<1>5. \A y \in Places : Len(At(b2, y)) <= kMaxQueueDepth
  <2>1. Len(At(b, x)) \in Nat
    BY SMT, <1>1
  <2> QED
    BY SMT, <1>2, <1>3, <2>1 DEF BoxOK
<1>6. \A v \in VFs : \A i \in 1..Len(b2.vf_inboxes[v]) : b2.vf_inboxes[v][i].vf_id = v
  <2> SUFFICES ASSUME NEW v \in VFs, NEW i \in 1..Len(At(b2, v)) PROVE At(b2, v)[i].vf_id = v
    BY SMT, PlacesApart
  <2>1. v \in Places /\ v # PF
    BY PlacesApart
  <2>2. \/ i \in 1..Len(At(b, v)) /\ At(b2, v)[i] = At(b, v)[i]
        \/ v = x /\ At(b2, v)[i] = m
    BY <1>4, <2>1
  <2> QED
    BY SMT, <2>1, <2>2, PlacesApart DEF BoxOK
<1>7. \A y \in Places : \A i \in 1..Len(At(b2, y)) : At(b2, y)[i].root \in 1..b2.sent
  <2> SUFFICES ASSUME NEW y \in Places, NEW i \in 1..Len(At(b2, y))
               PROVE  At(b2, y)[i].root \in 1..b2.sent
    OBVIOUS
  <2>1. 1..b.sent \subseteq 1..b2.sent /\ m.root \in 1..b2.sent
    BY SMT, <1>3
  <2>2. CASE i \in 1..Len(At(b, y)) /\ At(b2, y)[i] = At(b, y)[i]
    BY <2>1, <2>2 DEF BoxOK
  <2>3. CASE At(b2, y)[i] = m
    BY <2>1, <2>3
  <2> QED
    BY <1>4, <2>2, <2>3
<1>8. RootsApart(b2)
  <2> SUFFICES ASSUME NEW y \in Places, NEW z \in Places,
                      NEW i \in 1..Len(At(b2, y)), NEW j \in 1..Len(At(b2, z)),
                      At(b2, y)[i].root = At(b2, z)[j].root
               PROVE  y = z /\ i = j
    BY DEF RootsApart
  <2>1. \A w \in Places : \A k \in 1..Len(At(b, w)) : At(b, w)[k].root # m.root
    BY DEF HasRoot
  <2>2. CASE i \in 1..Len(At(b, y)) /\ At(b2, y)[i] = At(b, y)[i]
    <3>1. j \in 1..Len(At(b, z)) /\ At(b2, z)[j] = At(b, z)[j]
      BY SMT, <1>4, <2>1, <2>2
    <3> QED
      BY SMT, <2>2, <3>1 DEF BoxOK, RootsApart
  <2>3. CASE y = x /\ i = Len(At(b, x)) + 1 /\ At(b2, y)[i] = m
    BY SMT, <1>4, <2>1, <2>3
  <2> QED
    BY <1>4, <2>2, <2>3
<1>9. \A s, r : HasTag(b2, s, r) => HasTag(b, s, r) \/ (s = m.sequence /\ r = m.root)
  BY <1>4 DEF HasTag
<1> QED
  BY <1>5, <1>6, <1>7, <1>8, <1>9 DEF BoxOK

(* The front message of an inbox is taken, and its conversation has none    *)
(* under way.                                                               *)
LEMMA Pop ==
  ASSUME NEW b, BoxOK(b), NEW x \in Places, At(b, x) # <<>>,
         NEW b2 \in Boxes, b2.sent = b.sent, At(b2, x) = Tail(At(b, x)),
         \A y \in Places : y # x => At(b2, y) = At(b, y)
  PROVE  /\ BoxOK(b2)
         /\ Head(At(b, x)) \in Messages /\ ~HasRoot(b2, Head(At(b, x)).root)
         /\ Head(At(b, x)).root \in 1..b.sent
         /\ HasTag(b, Head(At(b, x)).sequence, Head(At(b, x)).root)
         /\ \A s, r : HasTag(b2, s, r) => HasTag(b, s, r)
<1>1. \A y \in Places : At(b, y) \in Seq(Messages)
  BY DEF BoxOK, Boxes, Places, At
<1>2. /\ Len(At(b, x)) \in Nat /\ Len(At(b, x)) > 0 /\ Len(At(b2, x)) = Len(At(b, x)) - 1
      /\ Head(At(b, x)) = At(b, x)[1] /\ At(b, x)[1] \in Messages
      /\ \A i \in 1..Len(At(b2, x)) : At(b2, x)[i] = At(b, x)[i + 1]
  BY SMT, <1>1
<1>3. kMaxQueueDepth \in Nat
  BY MailboxAssumption
<1>4. ASSUME NEW y \in Places, NEW i \in 1..Len(At(b2, y))
      PROVE  \E k \in 1..Len(At(b, y)) : /\ At(b2, y)[i] = At(b, y)[k]
                                         /\ IF y = x THEN k = i + 1 ELSE k = i
  <2>1. CASE y = x
    BY SMT, <1>2, <2>1
  <2>2. CASE y # x
    BY <2>2
  <2> QED
    BY <2>1, <2>2
<1>5. \A y \in Places : Len(At(b2, y)) <= kMaxQueueDepth
  BY SMT, <1>2, <1>3 DEF BoxOK
<1>6. \A v \in VFs : \A i \in 1..Len(b2.vf_inboxes[v]) : b2.vf_inboxes[v][i].vf_id = v
  <2> SUFFICES ASSUME NEW v \in VFs, NEW i \in 1..Len(At(b2, v)) PROVE At(b2, v)[i].vf_id = v
    BY SMT, PlacesApart
  <2>1. PICK k \in 1..Len(At(b, v)) : At(b2, v)[i] = At(b, v)[k]
    BY <1>4, PlacesApart
  <2>2. At(b, v) = b.vf_inboxes[v]
    BY PlacesApart
  <2>3. At(b, v)[k].vf_id = v
    BY <2>2 DEF BoxOK
  <2> QED
    BY <2>1, <2>3
<1>7. \A y \in Places : \A i \in 1..Len(At(b2, y)) : At(b2, y)[i].root \in 1..b2.sent
  <2> SUFFICES ASSUME NEW y \in Places, NEW i \in 1..Len(At(b2, y))
               PROVE  At(b2, y)[i].root \in 1..b2.sent
    OBVIOUS
  <2>1. PICK k \in 1..Len(At(b, y)) : At(b2, y)[i] = At(b, y)[k]
    BY <1>4
  <2>2. At(b, y)[k].root \in 1..b.sent
    BY DEF BoxOK
  <2> QED
    BY <2>1, <2>2
<1>8. RootsApart(b2)
  <2> SUFFICES ASSUME NEW y \in Places, NEW z \in Places,
                      NEW i \in 1..Len(At(b2, y)), NEW j \in 1..Len(At(b2, z)),
                      At(b2, y)[i].root = At(b2, z)[j].root
               PROVE  y = z /\ i = j
    BY DEF RootsApart
  <2>1. PICK k \in 1..Len(At(b, y)) : /\ At(b2, y)[i] = At(b, y)[k]
                                      /\ IF y = x THEN k = i + 1 ELSE k = i
    BY <1>4
  <2>2. PICK n \in 1..Len(At(b, z)) : /\ At(b2, z)[j] = At(b, z)[n]
                                      /\ IF z = x THEN n = j + 1 ELSE n = j
    BY <1>4
  <2>3. y = z /\ k = n
    BY SMT, <2>1, <2>2 DEF BoxOK, RootsApart
  <2> QED
    BY SMT, <2>1, <2>2, <2>3
<1>9. \A s, r : HasTag(b2, s, r) => HasTag(b, s, r)
  BY SMT, <1>4 DEF HasTag
<1>10. ~HasRoot(b2, At(b, x)[1].root)
  <2> SUFFICES ASSUME NEW y \in Places, NEW i \in 1..Len(At(b2, y)),
                      At(b2, y)[i].root = At(b, x)[1].root
               PROVE  FALSE
    BY DEF HasRoot
  <2>1. PICK k \in 1..Len(At(b, y)) : /\ At(b2, y)[i] = At(b, y)[k]
                                      /\ IF y = x THEN k = i + 1 ELSE k = i
    BY <1>4
  <2>2. y = x /\ k = 1
    BY SMT, <1>2, <2>1 DEF BoxOK, RootsApart
  <2> QED
    BY SMT, <2>1, <2>2
<1>11. At(b, x)[1].root \in 1..b.sent /\ HasTag(b, At(b, x)[1].sequence, At(b, x)[1].root)
  BY SMT, <1>2 DEF BoxOK, HasTag
<1> QED
  BY <1>2, <1>5, <1>6, <1>7, <1>8, <1>9, <1>10, <1>11 DEF BoxOK

(* Acceptance keeps whom a message is for and what it says, and gives it a  *)
(* conversation of its own unless it has one.                               *)
LEMMA Stamping ==
  ASSUME NEW b, BoxOK(b), NEW m \in Messages,
         m.root # 0 => m.root \in 1..b.sent /\ ~HasRoot(b, m.root)
  PROVE  LET n == Stamped(b, m)
         IN  /\ n \in Messages /\ n.vf_id = m.vf_id /\ n.sequence = m.sequence
             /\ n.root = (IF m.root = 0 THEN b.sent + 1 ELSE m.root)
             /\ n.root \in 1..(b.sent + 1) /\ ~HasRoot(b, n.root) /\ n.id = b.sent + 1
<1>1. b.sent \in Nat /\ m.root \in Nat
  BY DEF BoxOK, Boxes, Messages
<1>2. PICK n : n = Stamped(b, m)
  OBVIOUS
<1>3. PICK id \in Nat, root \in Nat : id = b.sent + 1 /\ root = IF m.root = 0 THEN b.sent + 1 ELSE m.root
  BY SMT, <1>1
<1>4. n = [m EXCEPT !.id = id, !.root = root]
  BY <1>2, <1>3 DEF Stamped, Messages
<1>5. n = [vf_id |-> m.vf_id, sequence |-> m.sequence, id |-> id, root |-> root]
  BY <1>4 DEF Messages
<1>6. m.sequence \in Nat /\ m.vf_id \in VFs
  BY DEF Messages
<1>7. n \in Messages
  BY <1>3, <1>5, <1>6 DEF Messages
<1>8. ~HasRoot(b, b.sent + 1)
  BY SMT, <1>1 DEF BoxOK, HasRoot
<1>9. root \in 1..(b.sent + 1) /\ ~HasRoot(b, root)
  BY SMT, <1>1, <1>3, <1>8
<1> QED
  BY SMT, <1>2, <1>3, <1>5, <1>7, <1>9

(* A message made out to a VF is dropped, or put into that VF's inbox. *)
LEMMA EnqueueVf ==
  ASSUME NEW b, BoxOK(b), NEW m \in Messages,
         m.root # 0 => m.root \in 1..b.sent /\ ~HasRoot(b, m.root)
  PROVE  LET b2 == enqueue_to_vf(b, m)
             root == IF m.root = 0 THEN b.sent + 1 ELSE m.root
         IN  /\ BoxOK(b2) /\ (b2 = b \/ b2.sent = b.sent + 1)
             /\ \A s, r : HasTag(b2, s, r) => HasTag(b, s, r) \/ (s = m.sequence /\ r = root)
<1> DEFINE b2 == enqueue_to_vf(b, m)
           root == IF m.root = 0 THEN b.sent + 1 ELSE m.root
           v == m.vf_id
<1>1. CASE Len(b.vf_inboxes[v]) >= kMaxQueueDepth
  BY <1>1 DEF enqueue_to_vf
<1>2. CASE ~(Len(b.vf_inboxes[v]) >= kMaxQueueDepth)
  <2>0. v \in VFs /\ kMaxQueueDepth \in Nat
    BY MailboxAssumption DEF Messages
  <2>1. /\ b \in Boxes /\ b.sent \in Nat /\ b.vf_inboxes \in [VFs -> Seq(Messages)]
        /\ Len(b.vf_inboxes[v]) \in Nat
    <3>1. b \in Boxes /\ b.sent \in Nat /\ b.vf_inboxes \in [VFs -> Seq(Messages)]
      BY DEF BoxOK, Boxes
    <3> QED
      BY SMT, <2>0, <3>1
  <2>2. PICK n : n = Stamped(b, m)
    OBVIOUS
  <2>3. /\ n \in Messages /\ n.vf_id = v /\ n.sequence = m.sequence /\ n.root = root
        /\ n.root \in 1..(b.sent + 1) /\ ~HasRoot(b, n.root)
    BY <2>2, Stamping
  <2>4. PICK inboxes : inboxes = [b.vf_inboxes EXCEPT ![v] = Append(@, n)]
    OBVIOUS
  <2>5. /\ inboxes \in [VFs -> Seq(Messages)] /\ inboxes[v] = Append(b.vf_inboxes[v], n)
        /\ \A w \in VFs : w # v => inboxes[w] = b.vf_inboxes[w]
    BY SMT, <2>0, <2>1, <2>3, <2>4
  <2>6. b2 = [pf_inbox |-> b.pf_inbox, vf_inboxes |-> inboxes, sent |-> b.sent + 1, received |-> b.received]
    BY <1>2, <2>1, <2>2, <2>4 DEF enqueue_to_vf, Accepted, Boxes
  <2> HIDE DEF b2, root, v
  <2>7. b2 \in Boxes /\ b2.sent = b.sent + 1
    BY SMT, <2>1, <2>5, <2>6 DEF Boxes
  <2>8. /\ v \in Places /\ v # PF /\ At(b, v) = b.vf_inboxes[v]
        /\ At(b2, v) = Append(At(b, v), n)
        /\ \A y \in Places : y # v => At(b2, y) = At(b, y)
    <3>1. b2.pf_inbox = b.pf_inbox /\ b2.vf_inboxes = inboxes
      BY <2>6
    <3> QED
      BY <2>0, <2>5, <3>1, PlacesApart DEF Places, At
  <2>9. Len(At(b, v)) < kMaxQueueDepth
    BY SMT, <1>2, <2>0, <2>1, <2>8 DEF v
  <2> QED
    BY SMT, <2>3, <2>7, <2>8, <2>9, Push DEF b2, root, v
<1> QED
  BY <1>1, <1>2

(* A message for the PF is dropped, or put into the PF's inbox. *)
LEMMA EnqueuePf ==
  ASSUME NEW b, BoxOK(b), NEW m \in Messages,
         m.root # 0 => m.root \in 1..b.sent /\ ~HasRoot(b, m.root)
  PROVE  LET b2 == enqueue_to_pf(b, m)
             root == IF m.root = 0 THEN b.sent + 1 ELSE m.root
         IN  /\ BoxOK(b2) /\ (b2 = b \/ b2.sent = b.sent + 1)
             /\ \A s, r : HasTag(b2, s, r) => HasTag(b, s, r) \/ (s = m.sequence /\ r = root)
<1> DEFINE b2 == enqueue_to_pf(b, m)
           root == IF m.root = 0 THEN b.sent + 1 ELSE m.root
<1>1. CASE Len(b.pf_inbox) >= kMaxQueueDepth
  BY <1>1 DEF enqueue_to_pf
<1>2. CASE ~(Len(b.pf_inbox) >= kMaxQueueDepth)
  <2>0. kMaxQueueDepth \in Nat
    BY MailboxAssumption
  <2>1. b \in Boxes /\ b.sent \in Nat /\ b.pf_inbox \in Seq(Messages) /\ Len(b.pf_inbox) \in Nat
    BY SMT DEF BoxOK, Boxes
  <2>2. PICK n : n = Stamped(b, m)
    OBVIOUS
  <2>3. /\ n \in Messages /\ n.sequence = m.sequence /\ n.root = root
        /\ n.root \in 1..(b.sent + 1) /\ ~HasRoot(b, n.root)
    BY <2>2, Stamping
  <2>4. PICK inbox : inbox = Append(b.pf_inbox, n)
    OBVIOUS
  <2>5. b2 = [pf_inbox |-> inbox, vf_inboxes |-> b.vf_inboxes, sent |-> b.sent + 1, received |-> b.received]
    BY <1>2, <2>1, <2>2, <2>4 DEF enqueue_to_pf, Accepted, Boxes
  <2> HIDE DEF b2, root
  <2>6. inbox \in Seq(Messages)
    BY SMT, <2>1, <2>3, <2>4
  <2>7. b2 \in Boxes /\ b2.sent = b.sent + 1
    BY SMT, <2>1, <2>5, <2>6 DEF Boxes
  <2>8. /\ At(b2, PF) = Append(At(b, PF), n)
        /\ \A y \in Places : y # PF => At(b2, y) = At(b, y)
    <3>1. b2.pf_inbox = inbox /\ b2.vf_inboxes = b.vf_inboxes
      BY <2>5
    <3> QED
      BY <2>4, <3>1 DEF Places, At
  <2>9. Len(At(b, PF)) < kMaxQueueDepth
    BY SMT, <1>2, <2>0, <2>1, PlacesApart
  <2> QED
    BY SMT, <2>3, <2>7, <2>8, <2>9, PlacesApart, Push DEF b2, root
<1> QED
  BY <1>1, <1>2

(* Taking the front of the PF's inbox. *)
LEMMA PopPf ==
  ASSUME NEW b, BoxOK(b), b.pf_inbox # <<>>
  PROVE  LET b2 == PoppedPf(b)
             m == Head(b.pf_inbox)
         IN  /\ BoxOK(b2) /\ b2.sent = b.sent
             /\ m \in Messages /\ m.root \in 1..b.sent /\ ~HasRoot(b2, m.root)
             /\ HasTag(b, m.sequence, m.root)
             /\ \A s, r : HasTag(b2, s, r) => HasTag(b, s, r)
<1>1. b \in Boxes /\ b.pf_inbox \in Seq(Messages) /\ b.received \in Nat
  BY DEF BoxOK, Boxes
<1>2. PICK inbox : inbox = Tail(b.pf_inbox)
  OBVIOUS
<1>3. inbox \in Seq(Messages)
  BY SMT, <1>1, <1>2
<1>4. PICK b2 : b2 = PoppedPf(b)
  OBVIOUS
<1>5. b2 = [pf_inbox |-> inbox, vf_inboxes |-> b.vf_inboxes, sent |-> b.sent, received |-> b.received + 1]
  BY <1>1, <1>2, <1>4 DEF PoppedPf, Boxes
<1>6. b2 \in Boxes /\ b2.sent = b.sent
  BY SMT, <1>1, <1>3, <1>5 DEF Boxes
<1>7. /\ PF \in Places /\ At(b, PF) = b.pf_inbox /\ At(b2, PF) = Tail(At(b, PF))
      /\ \A y \in Places : y # PF => At(b2, y) = At(b, y)
  <2>1. b2.pf_inbox = inbox /\ b2.vf_inboxes = b.vf_inboxes
    BY <1>5
  <2> QED
    BY <1>2, <2>1 DEF Places, At
<1> QED
  BY <1>4, <1>6, <1>7, Pop

(* Taking the front of a VF's inbox. *)
LEMMA PopVf ==
  ASSUME NEW b, BoxOK(b), NEW v \in VFs, b.vf_inboxes[v] # <<>>
  PROVE  LET b2 == PoppedVf(b, v)
             m == Head(b.vf_inboxes[v])
         IN  /\ BoxOK(b2) /\ b2.sent = b.sent
             /\ m \in Messages /\ HasTag(b, m.sequence, m.root)
             /\ \A s, r : HasTag(b2, s, r) => HasTag(b, s, r)
<1>1. b \in Boxes /\ b.vf_inboxes \in [VFs -> Seq(Messages)] /\ b.received \in Nat
  BY DEF BoxOK, Boxes
<1>2. PICK inboxes : inboxes = [b.vf_inboxes EXCEPT ![v] = Tail(@)]
  OBVIOUS
<1>3. /\ inboxes \in [VFs -> Seq(Messages)] /\ inboxes[v] = Tail(b.vf_inboxes[v])
      /\ \A w \in VFs : w # v => inboxes[w] = b.vf_inboxes[w]
  BY SMT, <1>1, <1>2
<1>4. PICK b2 : b2 = PoppedVf(b, v)
  OBVIOUS
<1>5. b2 = [pf_inbox |-> b.pf_inbox, vf_inboxes |-> inboxes, sent |-> b.sent, received |-> b.received + 1]
  BY <1>1, <1>2, <1>4 DEF PoppedVf, Boxes
<1>6. b2 \in Boxes /\ b2.sent = b.sent
  BY SMT, <1>1, <1>3, <1>5 DEF Boxes
<1>7. /\ v \in Places /\ At(b, v) = b.vf_inboxes[v] /\ At(b2, v) = Tail(At(b, v))
      /\ \A y \in Places : y # v => At(b2, y) = At(b, y)
  BY SMT, <1>3, <1>5, PlacesApart DEF Places
<1> QED
  BY <1>4, <1>6, <1>7, Pop

(* The PF's handler. *)
LEMMA PfStep ==
  ASSUME NEW b, BoxOK(b), NEW answers \in BOOLEAN
  PROVE  /\ BoxOK(PfHandled(b, answers)) /\ PfHandled(b, answers).sent >= b.sent
         /\ \A s, r : HasTag(PfHandled(b, answers), s, r) => HasTag(b, s, r)
<1>1. b.sent \in Nat
  BY DEF BoxOK, Boxes
<1>2. CASE ~PfHandler \/ b.pf_inbox = <<>>
  BY SMT, <1>1, <1>2 DEF PfHandled
<1>3. CASE ~(~PfHandler \/ b.pf_inbox = <<>>)
  <2>1. PICK p : p = PoppedPf(b)
    OBVIOUS
  <2>2. PICK m : m = Head(b.pf_inbox)
    OBVIOUS
  <2>3. /\ BoxOK(p) /\ p.sent = b.sent /\ m \in Messages /\ m.root \in 1..b.sent
        /\ ~HasRoot(p, m.root) /\ HasTag(b, m.sequence, m.root)
        /\ \A s, r : HasTag(p, s, r) => HasTag(b, s, r)
    BY <1>3, <2>1, <2>2, PopPf
  <2>4. PICK n : n = Response(m)
    OBVIOUS
  <2>5. n = [vf_id |-> m.vf_id, sequence |-> m.sequence, id |-> 0, root |-> m.root]
    BY <2>3, <2>4 DEF Response, Messages
  <2>6. n \in Messages /\ n.sequence = m.sequence /\ n.root = m.root
    BY <2>3, <2>5 DEF Messages
  <2>7. CASE answers
    <3>1. PfHandled(b, answers) = enqueue_to_vf(p, n)
      BY <1>3, <2>1, <2>2, <2>4, <2>7 DEF PfHandled
    <3>2. n.root # 0 /\ n.root \in 1..p.sent /\ ~HasRoot(p, n.root)
      BY SMT, <1>1, <2>3, <2>6
    <3>3. PICK q : q = enqueue_to_vf(p, n)
      OBVIOUS
    <3>4. /\ BoxOK(q) /\ (q = p \/ q.sent = p.sent + 1)
          /\ \A s, r : HasTag(q, s, r) => HasTag(p, s, r) \/ (s = n.sequence /\ r = n.root)
      BY SMT, <2>3, <2>6, <3>2, <3>3, EnqueueVf
    <3> QED
      BY SMT, <1>1, <2>3, <2>6, <3>1, <3>3, <3>4
  <2>8. CASE ~answers
    BY SMT, <1>1, <1>3, <2>1, <2>3, <2>8 DEF PfHandled
  <2> QED
    BY <2>7, <2>8
<1> QED
  BY <1>2, <1>3

(* What is left behind the front of a sequence. *)
LEMMA Tails ==
  ASSUME NEW S, NEW s \in Seq(S), s # <<>>
  PROVE  /\ Len(s) \in Nat /\ Len(Tail(s)) = Len(s) - 1
         /\ \A i \in 1..Len(Tail(s)) : i + 1 \in 1..Len(s) /\ Tail(s)[i] = s[i + 1]
BY SMT

(* Two sequences in a row. *)
LEMMA Joins ==
  ASSUME NEW S, NEW s \in Seq(S), NEW t \in Seq(S)
  PROVE  Len(s \o t) = Len(s) + Len(t)
BY SMT

(* The handlers of the VFs.  Every message under way afterwards was one     *)
(* before, where it is now or as the message it answers, and no two of them *)
(* were the same.                                                           *)
LEMMA VfStep ==
  ASSUME NEW b, BoxOK(b), NEW n \in Nat, NEW answering \in [1..n -> Served(b)],
         \A i, j \in 1..n : i # j => answering[i] # answering[j]
  PROVE  /\ BoxOK(VfsHandled(b, answering)) /\ VfsHandled(b, answering).sent >= b.sent
         /\ \A s, r : HasTag(VfsHandled(b, answering), s, r) => HasTag(b, s, r)
<1>1. /\ b \in Boxes /\ b.pf_inbox \in Seq(Messages) /\ b.vf_inboxes \in [VFs -> Seq(Messages)]
      /\ b.sent \in Nat /\ b.received \in Nat
  BY DEF BoxOK, Boxes
<1>2. /\ kMaxQueueDepth \in Nat /\ Served(b) \subseteq VFs /\ Len(answering) = n
      /\ Cardinality(Served(b)) \in Nat
  <2>1. Served(b) \subseteq VFs /\ IsFiniteSet(VFs) /\ kMaxQueueDepth \in Nat
    BY MailboxAssumption DEF Served
  <2>2. IsFiniteSet(Served(b))
    BY <2>1, FS_Subset
  <2>3. Cardinality(Served(b)) \in Nat
    BY <2>2, FS_CardinalityType
  <2>4. answering \in Seq(Served(b)) /\ Len(answering) = n
    BY SMT
  <2> QED
    BY <2>1, <2>3, <2>4
<1> DEFINE front(k) == Head(b.vf_inboxes[answering[k]])
           answer(k) == [Response(front(k)) EXCEPT !.id = b.sent + k]
<1>3. PICK L \in Nat : L = Len(b.pf_inbox) /\ L <= kMaxQueueDepth
  <2>1. At(b, PF) = b.pf_inbox /\ PF \in Places
    BY PlacesApart
  <2> QED
    BY SMT, <1>1, <2>1 DEF BoxOK
<1>4. PICK count : count = IF n < kMaxQueueDepth - L THEN n ELSE kMaxQueueDepth - L
  OBVIOUS
<1>5. count \in Nat /\ count <= n /\ L + count <= kMaxQueueDepth
  <2>1. kMaxQueueDepth \in Nat
    BY <1>2
  <2>2. CASE n < kMaxQueueDepth - L
    <3>1. count = n
      BY <1>4, <2>2
    <3> QED
      BY SMT, <1>3, <2>1, <2>2, <3>1
  <2>3. CASE ~(n < kMaxQueueDepth - L)
    <3>1. count = kMaxQueueDepth - L
      BY <1>4, <2>3
    <3> QED
      BY SMT, <1>3, <2>1, <2>3, <3>1
  <2> QED
    BY <2>2, <2>3
<1>6. \A v \in Served(b) : /\ v \in VFs /\ Len(b.vf_inboxes[v]) \in Nat /\ Len(b.vf_inboxes[v]) > 0
                           /\ Head(b.vf_inboxes[v]) = b.vf_inboxes[v][1]
                           /\ b.vf_inboxes[v][1] \in Messages
  BY SMT, <1>1, <1>2 DEF Served
<1>7. ASSUME NEW k \in 1..count
      PROVE  /\ answering[k] \in Served(b) /\ answer(k) \in Messages
             /\ answer(k).root = b.vf_inboxes[answering[k]][1].root
             /\ answer(k).sequence = b.vf_inboxes[answering[k]][1].sequence
  <2>1. answering[k] \in Served(b)
    BY SMT, <1>5
  <2>2. PICK m \in Messages : m = front(k) /\ m = b.vf_inboxes[answering[k]][1]
    BY <1>6, <2>1
  <2>3. PICK a : a = answer(k)
    OBVIOUS
  <2>4. PICK id \in Nat : id = b.sent + k
    BY SMT, <1>1, <1>5
  <2>5. a = [[m EXCEPT !.id = 0] EXCEPT !.id = id]
    BY <2>2, <2>3, <2>4 DEF Response
  <2>6. a = [vf_id |-> m.vf_id, sequence |-> m.sequence, id |-> id, root |-> m.root]
    BY <2>5 DEF Messages
  <2>7. a \in Messages /\ a.root = m.root /\ a.sequence = m.sequence
    BY <2>6 DEF Messages
  <2> QED
    BY <2>1, <2>2, <2>3, <2>7
<1>8. PICK extra : extra = [k \in 1..count |-> answer(k)]
  OBVIOUS
<1>9. PICK inboxes : inboxes = [v \in VFs |-> IF v \in Served(b) THEN Tail(b.vf_inboxes[v]) ELSE b.vf_inboxes[v]]
  OBVIOUS
<1>10. PICK c : c = VfsHandled(b, answering)
  OBVIOUS
<1>11. c = [pf_inbox |-> b.pf_inbox \o extra, vf_inboxes |-> inboxes,
            sent |-> b.sent + count, received |-> b.received + Cardinality(Served(b))]
  BY <1>2, <1>3, <1>4, <1>8, <1>9, <1>10 DEF VfsHandled
<1>12. /\ extra \in Seq(Messages) /\ Len(extra) = count
       /\ \A k \in 1..count :
            /\ answering[k] \in Served(b)
            /\ extra[k].root = b.vf_inboxes[answering[k]][1].root
            /\ extra[k].sequence = b.vf_inboxes[answering[k]][1].sequence
  <2> HIDE DEF answer
  <2>1. extra \in [1..count -> Messages] /\ \A k \in 1..count : extra[k] = answer(k)
    BY <1>7, <1>8
  <2>2. extra \in Seq(Messages) /\ Len(extra) = count
    BY SMT, <1>5, <2>1
  <2> QED
    BY <1>7, <2>1, <2>2
<1> HIDE DEF front, answer
<1>13. /\ inboxes \in [VFs -> Seq(Messages)]
       /\ \A v \in Served(b) : inboxes[v] = Tail(b.vf_inboxes[v])
       /\ \A v \in VFs : v \notin Served(b) => inboxes[v] = b.vf_inboxes[v]
  BY SMT, <1>1, <1>2, <1>6, <1>9
<1>14. /\ c.pf_inbox = b.pf_inbox \o extra /\ c.vf_inboxes = inboxes /\ c.sent = b.sent + count
       /\ c \in Boxes
  <2>1. b.pf_inbox \o extra \in Seq(Messages)
    BY SMT, <1>1, <1>12
  <2>2. b.received + Cardinality(Served(b)) \in Nat /\ b.sent + count \in Nat
    BY SMT, <1>1, <1>2, <1>5
  <2> QED
    BY <1>11, <1>13, <2>1, <2>2 DEF Boxes
<1>15. ASSUME NEW y \in Places, NEW i \in 1..Len(At(c, y))
       PROVE  \E x \in Places : \E k \in 1..Len(At(b, x)) :
                /\ At(c, y)[i].root = At(b, x)[k].root
                /\ At(c, y)[i].sequence = At(b, x)[k].sequence
                /\ y # PF => /\ x = y /\ At(c, y)[i] = At(b, x)[k]
                             /\ k = IF y \in Served(b) THEN i + 1 ELSE i
                /\ y = PF => \/ i <= L /\ x = PF /\ k = i
                             \/ /\ i - L \in 1..count /\ x = answering[i - L]
                                /\ x \in Served(b) /\ k = 1
  <2>1. CASE y = PF
    <3>1. At(c, y) = b.pf_inbox \o extra /\ At(b, PF) = b.pf_inbox /\ PF \in Places
      BY <1>14, <2>1, PlacesApart DEF At
    <3>2. CASE i <= L
      <4>1. i \in 1..L /\ At(c, y)[i] = b.pf_inbox[i]
        BY SMT, <1>1, <1>3, <1>5, <1>12, <3>1, <3>2
      <4> QED
        BY <1>3, <2>1, <3>1, <3>2, <4>1
    <3>3. CASE ~(i <= L)
      <4>1. PICK k \in 1..count : k = i - L /\ At(c, y)[i] = extra[k]
        BY SMTT(20), <1>1, <1>3, <1>5, <1>12, <3>1, <3>3
      <4>2. PICK x \in Served(b) : x = answering[k]
        BY <1>12
      <4>3. x \in Places /\ At(b, x) = b.vf_inboxes[x] /\ 1 \in 1..Len(At(b, x))
        BY SMT, <1>6, <4>2, PlacesApart
      <4>4. At(c, y)[i].root = At(b, x)[1].root /\ At(c, y)[i].sequence = At(b, x)[1].sequence
        BY <1>12, <4>1, <4>2, <4>3
      <4>5. /\ y = PF
            /\ i - L \in 1..count /\ x = answering[i - L] /\ x \in Served(b)
        BY <2>1, <4>1, <4>2
      <4> QED
        BY <4>3, <4>4, <4>5
    <3> QED
      BY <3>2, <3>3
  <2>2. CASE y # PF
    <3>1. y \in VFs /\ At(c, y) = inboxes[y] /\ At(b, y) = b.vf_inboxes[y]
      BY <1>14, <2>2, PlacesApart DEF Places, At
    <3>2. CASE y \in Served(b)
      <4>1. i + 1 \in 1..Len(At(b, y)) /\ At(c, y)[i] = At(b, y)[i + 1]
        <5>1. /\ b.vf_inboxes[y] \in Seq(Messages) /\ b.vf_inboxes[y] # <<>>
              /\ inboxes[y] = Tail(b.vf_inboxes[y])
          BY <1>1, <1>13, <3>1, <3>2 DEF Served
        <5> QED
          BY SMT, <3>1, <5>1, Tails
      <4> QED
        BY <2>2, <3>2, <4>1
    <3>3. CASE y \notin Served(b)
      <4>1. i \in 1..Len(At(b, y)) /\ At(c, y)[i] = At(b, y)[i]
        BY <1>13, <3>1, <3>3
      <4> QED
        BY <2>2, <3>3, <4>1
    <3> QED
      BY <3>2, <3>3
  <2> QED
    BY <2>1, <2>2
<1>16. \A x \in Places : Len(At(c, x)) <= kMaxQueueDepth
  <2> SUFFICES ASSUME NEW x \in Places PROVE Len(At(c, x)) <= kMaxQueueDepth
    OBVIOUS
  <2>1. CASE x = PF
    <3>1. At(c, x) = b.pf_inbox \o extra
      BY <1>14, <2>1 DEF At
    <3>2. Len(b.pf_inbox \o extra) = L + count
      BY <1>1, <1>3, <1>5, <1>12, Joins
    <3> QED
      BY <1>5, <3>1, <3>2
  <2>2. CASE x # PF
    <3>1. x \in VFs /\ At(c, x) = inboxes[x] /\ At(b, x) = b.vf_inboxes[x]
      BY <1>14, <2>2, PlacesApart DEF Places, At
    <3>2. Len(At(b, x)) <= kMaxQueueDepth /\ b.vf_inboxes[x] \in Seq(Messages)
      BY <1>1, <3>1 DEF BoxOK
    <3>3. CASE x \in Served(b)
      <4>1. /\ Len(b.vf_inboxes[x]) \in Nat
            /\ Len(inboxes[x]) = Len(b.vf_inboxes[x]) - 1
        <5>1. b.vf_inboxes[x] # <<>> /\ inboxes[x] = Tail(b.vf_inboxes[x])
          BY <1>13, <3>3 DEF Served
        <5> QED
          BY <3>2, <5>1, Tails
      <4> QED
        BY SMT, <1>2, <3>1, <3>2, <4>1
    <3>4. CASE x \notin Served(b)
      BY <1>13, <3>1, <3>2, <3>4
    <3> QED
      BY <3>3, <3>4
  <2> QED
    BY <2>1, <2>2
<1>17. \A v \in VFs : \A i \in 1..Len(c.vf_inboxes[v]) : c.vf_inboxes[v][i].vf_id = v
  <2> SUFFICES ASSUME NEW v \in VFs, NEW i \in 1..Len(At(c, v)) PROVE At(c, v)[i].vf_id = v
    BY SMT, PlacesApart
  <2>1. v \in Places /\ v # PF /\ At(b, v) = b.vf_inboxes[v]
    BY PlacesApart
  <2>2. PICK k \in 1..Len(At(b, v)) : At(c, v)[i] = At(b, v)[k]
    BY SMT, <1>15, <2>1
  <2> QED
    BY SMT, <2>1, <2>2 DEF BoxOK
<1>18. \A x \in Places : \A i \in 1..Len(At(c, x)) : At(c, x)[i].root \in 1..c.sent
  <2> SUFFICES ASSUME NEW y \in Places, NEW i \in 1..Len(At(c, y)) PROVE At(c, y)[i].root \in 1..c.sent
    OBVIOUS
  <2>1. PICK x \in Places : \E k \in 1..Len(At(b, x)) : At(c, y)[i].root = At(b, x)[k].root
    BY <1>15
  <2>2. At(c, y)[i].root \in 1..b.sent
    BY <2>1 DEF BoxOK
  <2> QED
    BY SMT, <1>1, <1>5, <1>14, <2>2
<1>19. RootsApart(c)
  <2> SUFFICES ASSUME NEW y \in Places, NEW z \in Places,
                      NEW i \in 1..Len(At(c, y)), NEW j \in 1..Len(At(c, z)),
                      At(c, y)[i].root = At(c, z)[j].root
               PROVE  y = z /\ i = j
    BY DEF RootsApart
  <2> DEFINE From(w, h, x, k) ==
               /\ w # PF => x = w /\ k = IF w \in Served(b) THEN h + 1 ELSE h
               /\ w = PF => \/ h <= L /\ x = PF /\ k = h
                            \/ /\ h - L \in 1..count /\ x = answering[h - L]
                               /\ x \in Served(b) /\ k = 1
  <2>1. PICK x \in Places : \E k \in 1..Len(At(b, x)) :
          At(c, y)[i].root = At(b, x)[k].root /\ From(y, i, x, k)
    BY SMT, <1>15
  <2>2. PICK k \in 1..Len(At(b, x)) : At(c, y)[i].root = At(b, x)[k].root /\ From(y, i, x, k)
    BY <2>1
  <2>3. PICK u \in Places : \E h \in 1..Len(At(b, u)) :
          At(c, z)[j].root = At(b, u)[h].root /\ From(z, j, u, h)
    BY SMT, <1>15
  <2>4. PICK h \in 1..Len(At(b, u)) : At(c, z)[j].root = At(b, u)[h].root /\ From(z, j, u, h)
    BY <2>3
  <2>5. x = u /\ k = h
    <3> HIDE DEF From
    <3>1. At(b, x)[k].root = At(b, u)[h].root
      BY <2>2, <2>4
    <3> QED
      BY SMT, <3>1 DEF BoxOK, RootsApart
  <2>6. /\ i \in Nat \ {0} /\ j \in Nat \ {0} /\ PF \notin Served(b)
        /\ \A g, l \in 1..count : answering[g] = answering[l] => g = l
    BY SMT, <1>2, <1>5, PlacesApart
  <2>7. CASE y = PF /\ z = PF
    <3>1. From(y, i, x, k) /\ From(z, j, x, k)
      BY <2>2, <2>4, <2>5
    <3>2. CASE x = PF
      BY <2>6, <2>7, <3>1, <3>2
    <3>3. CASE x # PF
      <4>1. /\ i - L \in 1..count /\ x = answering[i - L]
            /\ j - L \in 1..count /\ x = answering[j - L]
        BY <2>7, <3>1, <3>3
      <4>2. i - L = j - L
        BY <2>6, <4>1
      <4> QED
        BY SMT, <1>3, <2>6, <2>7, <4>2
    <3> QED
      BY <3>2, <3>3
  <2>8. CASE y = PF /\ z # PF
    BY SMT, <2>2, <2>4, <2>5, <2>6, <2>8
  <2>9. CASE y # PF /\ z = PF
    BY SMT, <2>2, <2>4, <2>5, <2>6, <2>9
  <2>10. CASE y # PF /\ z # PF
    BY SMT, <2>2, <2>4, <2>5, <2>6, <2>10
  <2> QED
    BY <2>7, <2>8, <2>9, <2>10
<1>20. \A s, r : HasTag(c, s, r) => HasTag(b, s, r)
  BY SMT, <1>15 DEF HasTag
<1>21. BoxOK(c)
  BY <1>14, <1>16, <1>17, <1>18, <1>19 DEF BoxOK
<1> QED
  BY SMT, <1>1, <1>5, <1>10, <1>14, <1>20, <1>21

(* What the messages under way say of the calls that wait: a sequence       *)
(* number belongs to one request, so to one conversation.                   *)
Tagged ==
  \A s, r : HasTag(box, s, r) =>
    /\ s < next_sequence
    /\ \A v \in VFs : calls[v] # None /\ calls[v].sequence = s => calls[v].root = r

Calling ==
  /\ next_sequence \in Nat \ {0}
  /\ calls \in [VFs -> Messages \cup {None}]
  /\ \A v \in VFs : calls[v] # None => /\ calls[v].sequence \in 1..(next_sequence - 1)
                                       /\ calls[v].root = calls[v].id

MailboxInv == BoxOK(box) /\ Calling /\ Tagged /\ AnswersMatch

(* Sequence numbers are numbers. *)
LEMMA TagsTyped ==
  ASSUME NEW b, BoxOK(b), NEW s, NEW r, HasTag(b, s, r)
  PROVE  s \in Nat
<1>1. PICK x \in Places : \E i \in 1..Len(At(b, x)) : At(b, x)[i].sequence = s
  BY DEF HasTag
<1>2. PICK i \in 1..Len(At(b, x)) : At(b, x)[i].sequence = s
  BY <1>1
<1>3. At(b, x) \in Seq(Messages)
  BY DEF BoxOK, Boxes, Places, At
<1>4. At(b, x)[i] \in Messages
  BY SMT, <1>3
<1> QED
  BY <1>2, <1>4 DEF Messages

(* A message that no sequence number was allocated for. *)
LEMMA Untagged ==
  ASSUME MailboxInv, NEW v \in VFs, UNCHANGED <<next_sequence, calls, returned>>,
         box' = enqueue_to_vf(box, Fresh(v, 0)) \/ box' = enqueue_to_pf(box, Fresh(v, 0))
  PROVE  MailboxInv'
<1>1. PICK m : m = Fresh(v, 0)
  OBVIOUS
<1>2. m \in Messages /\ m.root = 0 /\ m.sequence = 0
  BY <1>1 DEF Fresh, Messages
<1>3. /\ BoxOK(box')
      /\ \A s, r : HasTag(box', s, r) => HasTag(box, s, r) \/ s = 0
  BY SMT, <1>1, <1>2, EnqueueVf, EnqueuePf DEF MailboxInv
<1>4. Calling' /\ AnswersMatch'
  BY DEF MailboxInv, Calling, AnswersMatch
<1>5. Tagged'
  <2> SUFFICES ASSUME NEW s, NEW r, HasTag(box', s, r)
               PROVE  /\ s < next_sequence'
                      /\ \A w \in VFs : calls'[w] # None /\ calls'[w].sequence = s => calls'[w].root = r
    BY DEF Tagged, HasTag, At
  <2>1. CASE HasTag(box, s, r)
    BY SMT, <2>1 DEF MailboxInv, Tagged
  <2>2. CASE s = 0
    BY SMT, <2>2 DEF MailboxInv, Calling
  <2> QED
    BY <1>3, <2>1, <2>2
<1>6. BoxOK(box)'
  BY <1>3 DEF BoxOK, At, RootsApart
<1> QED
  BY <1>4, <1>5, <1>6 DEF MailboxInv

(* A step that adds no conversation and no call. *)
LEMMA Shrinking ==
  ASSUME MailboxInv, BoxOK(box'), \A s, r : HasTag(box', s, r) => HasTag(box, s, r),
         next_sequence' = next_sequence, calls' \in [VFs -> Messages \cup {None}],
         \A v \in VFs : calls'[v] # None => calls'[v] = calls[v], AnswersMatch'
  PROVE  MailboxInv'
<1>1. BoxOK(box)'
  BY DEF BoxOK, At, RootsApart
<1>2. Calling'
  BY DEF MailboxInv, Calling
<1>3. Tagged'
  <2> SUFFICES ASSUME NEW s, NEW r, HasTag(box', s, r)
               PROVE  /\ s < next_sequence'
                      /\ \A w \in VFs : calls'[w] # None /\ calls'[w].sequence = s => calls'[w].root = r
    BY DEF Tagged, HasTag, At
  <2>1. HasTag(box, s, r)
    OBVIOUS
  <2> QED
    BY SMT, <2>1 DEF MailboxInv, Tagged
<1> QED
  BY <1>1, <1>2, <1>3 DEF MailboxInv

(* A request gets a sequence number that no message and no call has. *)
LEMMA Calls ==
  ASSUME MailboxInv, NEW v \in VFs, Call(v)
  PROVE  MailboxInv'
<1> DEFINE m == Fresh(v, next_sequence)
           after == IF v = 0 THEN enqueue_to_pf(box, m) ELSE enqueue_to_vf(box, m)
<1>1. /\ next_sequence' = next_sequence + 1 /\ box' = after /\ returned' = returned
      /\ IF after.sent = box.sent THEN calls' = calls
         ELSE calls' = [calls EXCEPT ![v] = Stamped(box, m)]
  BY DEF Call
<1>2. next_sequence \in Nat /\ next_sequence > 0 /\ calls \in [VFs -> Messages \cup {None}] /\ box.sent \in Nat
  BY SMT DEF MailboxInv, Calling, BoxOK, Boxes
<1>3. m \in Messages /\ m.root = 0 /\ m.sequence = next_sequence
  BY <1>2 DEF Fresh, Messages
<1>4. PICK n : n = Stamped(box, m)
  OBVIOUS
<1>5. n \in Messages /\ n.sequence = next_sequence /\ n.root = box.sent + 1 /\ n.id = box.sent + 1
  <2> HIDE DEF m
  <2> QED
    BY <1>3, <1>4, Stamping DEF MailboxInv
<1>6. /\ BoxOK(box') /\ (box' = box \/ box'.sent = box.sent + 1)
      /\ \A s, r : HasTag(box', s, r) => HasTag(box, s, r) \/ (s = next_sequence /\ r = box.sent + 1)
  <2> HIDE DEF m
  <2> QED
    BY SMT, <1>1, <1>3, EnqueueVf, EnqueuePf DEF MailboxInv
<1> HIDE DEF m
<1>7. BoxOK(box)'
  BY <1>6 DEF BoxOK, At, RootsApart
<1>8. AnswersMatch'
  BY <1>1 DEF MailboxInv, AnswersMatch
<1>9. CASE box' = box
  <2>1. calls' = calls
    BY <1>1, <1>9
  <2>2. Calling'
    BY SMT, <1>1, <1>2, <2>1 DEF MailboxInv, Calling
  <2>3. Tagged'
    <3> SUFFICES ASSUME NEW s, NEW r, HasTag(box', s, r)
                 PROVE  /\ s < next_sequence'
                        /\ \A w \in VFs : calls'[w] # None /\ calls'[w].sequence = s => calls'[w].root = r
      BY DEF Tagged, HasTag, At
    <3>1. HasTag(box, s, r)
      BY <1>9
    <3>2. s \in Nat
      BY <3>1, TagsTyped DEF MailboxInv
    <3>3. /\ s < next_sequence
          /\ \A w \in VFs : calls[w] # None /\ calls[w].sequence = s => calls[w].root = r
      BY ZenonT(30), <3>1 DEF MailboxInv, Tagged
    <3> QED
      BY SMT, <1>1, <1>2, <2>1, <3>2, <3>3
  <2> QED
    BY <1>7, <1>8, <2>2, <2>3 DEF MailboxInv
<1>10. CASE box'.sent = box.sent + 1
  <2>1. calls' = [calls EXCEPT ![v] = n]
    BY SMT, <1>1, <1>2, <1>4, <1>10
  <2>2. calls' \in [VFs -> Messages \cup {None}] /\ \A w \in VFs : calls'[w] = IF w = v THEN n ELSE calls[w]
    BY <1>2, <1>5, <2>1
  <2>3. Calling'
    BY SMT, <1>1, <1>2, <1>5, <2>2 DEF MailboxInv, Calling
  <2>4. Tagged'
    <3> SUFFICES ASSUME NEW s, NEW r, HasTag(box', s, r)
                 PROVE  /\ s < next_sequence + 1
                        /\ \A w \in VFs : calls'[w] # None /\ calls'[w].sequence = s => calls'[w].root = r
      BY SMT, <1>1 DEF Tagged, HasTag, At
    <3>1. CASE HasTag(box, s, r)
      <4>1. s \in Nat
        BY <3>1, TagsTyped DEF MailboxInv
      <4>2. /\ s < next_sequence
            /\ \A w \in VFs : calls[w] # None /\ calls[w].sequence = s => calls[w].root = r
        BY SMT, <3>1 DEF MailboxInv, Tagged
      <4> QED
        BY SMT, <1>2, <1>5, <2>2, <4>1, <4>2
    <3>2. CASE s = next_sequence /\ r = box.sent + 1
      <4>1. \A w \in VFs : calls[w] # None => calls[w].sequence # next_sequence
        BY SMT, <1>2 DEF MailboxInv, Calling
      <4> QED
        BY SMT, <1>2, <1>5, <2>2, <3>2, <4>1
    <3> QED
      BY <1>6, <3>1, <3>2
  <2> QED
    BY <1>7, <1>8, <2>3, <2>4 DEF MailboxInv
<1> QED
  BY <1>6, <1>9, <1>10

(* An answer is taken for the request whose conversation it is in. *)
LEMMA Polls ==
  ASSUME MailboxInv, NEW v \in VFs, Poll(v)
  PROVE  MailboxInv'
<1> DEFINE m == IF v = 0 THEN Head(box.vf_inboxes[0]) ELSE Head(box.pf_inbox)
<1>1. /\ calls[v] # None /\ next_sequence' = next_sequence
      /\ IF v = 0 THEN box.vf_inboxes[0] # <<>> ELSE box.pf_inbox # <<>>
      /\ box' = IF v = 0 THEN PoppedVf(box, 0) ELSE PoppedPf(box)
      /\ IF m.sequence = calls[v].sequence
         THEN /\ returned' = [request |-> calls[v], response |-> m]
              /\ calls' = [calls EXCEPT ![v] = None]
         ELSE calls' = calls /\ returned' = returned
  BY DEF Poll, FromVf, Matches
<1>2. /\ BoxOK(box') /\ HasTag(box, m.sequence, m.root)
      /\ \A s, r : HasTag(box', s, r) => HasTag(box, s, r)
  BY <1>1, PopVf, PopPf DEF MailboxInv
<1> HIDE DEF m
<1>3. calls \in [VFs -> Messages \cup {None}]
  BY DEF MailboxInv, Calling
<1>4. /\ calls' \in [VFs -> Messages \cup {None}]
      /\ \A w \in VFs : calls'[w] # None => calls'[w] = calls[w]
  BY <1>1, <1>3
<1>5. AnswersMatch'
  <2>1. CASE m.sequence = calls[v].sequence
    <3>1. calls[v].root = m.root /\ calls[v].root = calls[v].id
      BY SMT, <1>1, <1>2, <2>1 DEF MailboxInv, Tagged, Calling
    <3>2. returned'.request = calls[v] /\ returned'.response = m
      BY SMT, <1>1, <2>1
    <3> QED
      BY <3>1, <3>2 DEF AnswersMatch
  <2>2. CASE m.sequence # calls[v].sequence
    BY <1>1, <2>2 DEF MailboxInv, AnswersMatch
  <2> QED
    BY <2>1, <2>2
<1> QED
  BY <1>1, <1>2, <1>4, <1>5, Shrinking

(* Every call of the mailbox keeps the invariant. *)
LEMMA MailboxStep ==
  ASSUME MailboxInv, [MailboxNext]_mailboxVars
  PROVE  MailboxInv'
<1>1. calls \in [VFs -> Messages \cup {None}] /\ AnswersMatch
  BY DEF MailboxInv, Calling
<1>2. ASSUME NEW v \in VFs, send_to_vf(v) PROVE MailboxInv'
  BY <1>2, Untagged DEF send_to_vf
<1>3. ASSUME NEW v \in VFs, send_to_pf(v) PROVE MailboxInv'
  BY <1>3, Untagged DEF send_to_pf
<1>4. ASSUME UNCHANGED <<next_sequence, calls, returned>>, BoxOK(box'),
             \A s, r : HasTag(box', s, r) => HasTag(box, s, r)
      PROVE  MailboxInv'
  <2>1. AnswersMatch' /\ calls' \in [VFs -> Messages \cup {None}]
    BY <1>1, <1>4 DEF AnswersMatch
  <2> QED
    BY <1>4, <2>1, Shrinking
<1>5. ASSUME NEW v \in VFs, receive_from_vf(v) PROVE MailboxInv'
  <2>1. /\ box.pf_inbox # <<>> /\ box' = PoppedPf(box)
        /\ UNCHANGED <<next_sequence, calls, returned>>
    BY <1>5 DEF receive_from_vf, FromVf
  <2>2. BoxOK(box') /\ \A s, r : HasTag(box', s, r) => HasTag(box, s, r)
    BY <2>1, PopPf DEF MailboxInv
  <2> QED
    BY <1>4, <2>1, <2>2
<1>6. ASSUME NEW v \in VFs, receive_from_pf(v) PROVE MailboxInv'
  <2>1. /\ box.vf_inboxes[v] # <<>> /\ box' = PoppedVf(box, v)
        /\ UNCHANGED <<next_sequence, calls, returned>>
    BY <1>6 DEF receive_from_pf
  <2>2. BoxOK(box') /\ \A s, r : HasTag(box', s, r) => HasTag(box, s, r)
    BY <2>1, PopVf DEF MailboxInv
  <2> QED
    BY <1>4, <2>1, <2>2
<1>7. ASSUME Process PROVE MailboxInv'
  <2>1. PICK pf_answers \in BOOLEAN :
             \E vf_answers \in SUBSET Served(PfHandled(box, pf_answers)) :
             \E answering \in Orders(vf_answers) : process_pending(pf_answers, answering)
    BY <1>7, Zenon DEF Process
  <2>2. PICK b : b = PfHandled(box, pf_answers)
    OBVIOUS
  <2>3. BoxOK(b) /\ \A s, r : HasTag(b, s, r) => HasTag(box, s, r)
    BY <2>2, PfStep DEF MailboxInv
  <2>4. PICK vf_answers \in SUBSET Served(b) :
             \E answering \in Orders(vf_answers) : process_pending(pf_answers, answering)
    BY <2>1, <2>2
  <2>5. PICK answering \in Orders(vf_answers) : process_pending(pf_answers, answering)
    BY <2>4
  <2>6. /\ box' = VfsHandled(b, answering) /\ UNCHANGED <<next_sequence, calls, returned>>
    BY <2>2, <2>5 DEF process_pending
  <2>7. PICK n \in Nat : n = Cardinality(vf_answers)
    <3>1. Served(b) \subseteq VFs /\ IsFiniteSet(VFs)
      BY MailboxAssumption DEF Served
    <3>2. IsFiniteSet(vf_answers)
      BY <3>1, FS_Subset
    <3> QED
      BY <3>2, FS_CardinalityType
  <2>8. /\ answering \in [1..n -> Served(b)]
        /\ \A i, j \in 1..n : i # j => answering[i] # answering[j]
    <3>1. /\ answering \in [1..n -> vf_answers]
          /\ \A i, j \in 1..n : i # j => answering[i] # answering[j]
      BY <2>5, <2>7 DEF Orders, Bijection, Injection, IsInjective
    <3> QED
      BY <3>1
  <2>9. BoxOK(box') /\ \A s, r : HasTag(box', s, r) => HasTag(b, s, r)
    BY <2>3, <2>6, <2>8, VfStep
  <2> QED
    BY <1>4, <2>3, <2>6, <2>9
<1>8. Callers \subseteq VFs
  BY MailboxAssumption
<1>9. ASSUME NEW v \in Callers, Call(v) PROVE MailboxInv'
  BY <1>8, <1>9, Calls
<1>10. ASSUME NEW v \in Callers, Poll(v) PROVE MailboxInv'
  BY <1>8, <1>10, Polls
<1>11. ASSUME NEW v \in Callers, Timeout(v) PROVE MailboxInv'
  <2>1. /\ calls' = [calls EXCEPT ![v] = None]
        /\ box' = box /\ next_sequence' = next_sequence /\ returned' = returned
    BY <1>11 DEF Timeout
  <2>2. /\ calls' \in [VFs -> Messages \cup {None}]
        /\ \A w \in VFs : calls'[w] # None => calls'[w] = calls[w]
    BY <1>1, <1>8, <2>1
  <2>3. AnswersMatch' /\ BoxOK(box')
    BY <1>1, <2>1 DEF AnswersMatch, MailboxInv
  <2> QED
    BY <2>1, <2>2, <2>3, Shrinking
<1>12. ASSUME UNCHANGED mailboxVars PROVE MailboxInv'
  <2>1. UNCHANGED <<box, next_sequence, calls, returned>>
    BY <1>12 DEF mailboxVars
  <2>2. BoxOK(box')
    BY <2>1 DEF MailboxInv
  <2> QED
    BY <1>4, <2>1, <2>2
<1> QED
  BY <1>2, <1>3, <1>5, <1>6, <1>7, <1>9, <1>10, <1>11, <1>12 DEF MailboxNext

(* The invariant of the mailbox holds from the start on. *)
LEMMA MailboxInvariance == MailboxSpec => []MailboxInv
<1>1. MailboxInit => MailboxInv
  <2> SUFFICES ASSUME MailboxInit PROVE MailboxInv
    OBVIOUS
  <2>1. /\ box = [pf_inbox |-> <<>>, vf_inboxes |-> [v \in VFs |-> <<>>], sent |-> 0, received |-> 0]
        /\ next_sequence = 1 /\ calls = [v \in VFs |-> None]
        /\ returned = [request |-> None, response |-> None]
    BY DEF MailboxInit
  <2>2. box \in Boxes
    BY SMT, <2>1 DEF Boxes
  <2>3. \A x \in Places : At(box, x) = <<>> /\ Len(At(box, x)) = 0
    BY <2>1 DEF At, Places
  <2>4. BoxOK(box)
    BY SMTT(20), <2>1, <2>2, <2>3, MailboxAssumption DEF BoxOK, RootsApart
  <2>5. Calling
    BY SMT, <2>1 DEF Calling
  <2>6. Tagged
    BY SMT, <2>3 DEF Tagged, HasTag
  <2>7. AnswersMatch
    BY <2>1 DEF AnswersMatch
  <2> QED
    BY <2>4, <2>5, <2>6, <2>7 DEF MailboxInv
<1>2. MailboxInv /\ [MailboxNext]_mailboxVars => MailboxInv'
  BY MailboxStep
<1> QED
  BY <1>1, <1>2, PTL DEF MailboxSpec

(* The inboxes of the mailbox stay within kMaxQueueDepth, and a VF finds    *)
(* only its own messages in its inbox, for any number of VFs, any handlers  *)
(* and any order in which process_pending visits the VFs.                   *)
THEOREM DepthsTheorem == MailboxSpec => []DepthsBounded
<1>1. MailboxInv => DepthsBounded
  <2> SUFFICES ASSUME MailboxInv PROVE DepthsBounded
    OBVIOUS
  <2>1. box \in Boxes /\ box.sent \in Nat /\ box.received \in Nat /\ next_sequence \in Nat
    BY DEF MailboxInv, BoxOK, Boxes, Calling
  <2>2. Len(box.pf_inbox) <= kMaxQueueDepth
    BY PlacesApart DEF MailboxInv, BoxOK
  <2>3. ASSUME NEW v \in VFs
        PROVE  /\ Len(box.vf_inboxes[v]) <= kMaxQueueDepth
               /\ \A m \in Range(box.vf_inboxes[v]) : m.vf_id = v
    <3>1. Len(box.vf_inboxes[v]) <= kMaxQueueDepth
      BY PlacesApart DEF MailboxInv, BoxOK
    <3>2. DOMAIN box.vf_inboxes[v] = 1..Len(box.vf_inboxes[v])
      BY SMT, <2>1 DEF Boxes
    <3> QED
      BY <3>1, <3>2 DEF MailboxInv, BoxOK, Range
  <2> QED
    BY <2>1, <2>2, <2>3 DEF DepthsBounded
<1> QED
  BY <1>1, MailboxInvariance, PTL

(* However the handlers of the PF and of the VFs answer each other, a       *)
(* request and its answers have at most one message in the inboxes.         *)
THEOREM ConversationTheorem == MailboxSpec => []OneInFlight
<1>1. MailboxInv => OneInFlight
  <2> SUFFICES ASSUME MailboxInv, NEW m \in InFlight, NEW n \in InFlight, m.root = n.root
               PROVE  m = n
    BY DEF OneInFlight
  <2>1. ASSUME NEW k \in InFlight
        PROVE  \E x \in Places : \E i \in 1..Len(At(box, x)) : k = At(box, x)[i]
    <3>1. box.pf_inbox \in Seq(Messages) /\ box.vf_inboxes \in [VFs -> Seq(Messages)]
      BY DEF MailboxInv, BoxOK, Boxes
    <3>2. CASE k \in Range(box.pf_inbox)
      BY SMT, <3>1, <3>2, PlacesApart DEF Range
    <3>3. CASE \E v \in VFs : k \in Range(box.vf_inboxes[v])
      <4>1. PICK v \in VFs : k \in Range(box.vf_inboxes[v])
        BY <3>3
      <4>2. PICK i \in 1..Len(box.vf_inboxes[v]) : k = box.vf_inboxes[v][i]
        BY SMT, <3>1, <4>1 DEF Range
      <4> QED
        BY <4>2, PlacesApart
    <3> QED
      BY <3>2, <3>3 DEF InFlight
  <2>2. PICK x \in Places : \E i \in 1..Len(At(box, x)) : m = At(box, x)[i]
    BY <2>1
  <2>3. PICK y \in Places : \E i \in 1..Len(At(box, y)) : n = At(box, y)[i]
    BY <2>1
  <2> QED
    BY SMT, <2>2, <2>3 DEF MailboxInv, BoxOK, RootsApart
<1> QED
  BY <1>1, MailboxInvariance, PTL

(* send_and_receive returns an answer to its own request, whatever requests *)
(* before it timed out and were answered late: a sequence number is used    *)
(* for one conversation only.                                               *)
THEOREM AnswersTheorem == MailboxSpec => []AnswersMatch
<1>1. MailboxInv => AnswersMatch
  BY DEF MailboxInv
<1> QED
  BY <1>1, MailboxInvariance, PTL
=============================================================================
