------------------------------ MODULE VfDevice ------------------------------
(***************************************************************************)
(* The NIC a virtual function's driver sees (src/src/vf_device.cpp) on top *)
(* of the physical function's bookkeeping.  A device copies queue          *)
(* identifiers of its function when it is constructed, makes a queue pair  *)
(* and four doorbells for each, and never looks at the function again: not *)
(* at its state, nor at who owns the identifiers by then.                  *)
(*                                                                         *)
(* A queue pair is its identifier and the packets waiting in its transmit  *)
(* ring; what it does with a packet is NicQueuePair's matter, what its     *)
(* doorbells announce DescriptorRing's.  The host opens one device per     *)
(* function; nothing makes it close the device before it destroys the      *)
(* function.                                                               *)
(***************************************************************************)
EXTENDS PfVfManager, Sequences

CONSTANTS num_queue_pairs, queue_depth,   \* of VFDevice::Config
          Queue                           \* the kind of resource queue pairs are made of

ASSUME DeviceAssumption == Queue \in Kinds /\ {num_queue_pairs, queue_depth} \subseteq Nat

VARIABLES devices,   \* the queue pairs of each open device
          orphans    \* ghost: open devices whose function was destroyed

pfVars == <<vfs, vf_allocations, allocated>>
allVars == <<pfVars, devices, orphans>>

DevInit == Init /\ devices = [v \in {} |-> <<>>] /\ orphans = {}

QueuePair(id) == [queue_id |-> id, waiting |-> 0]

(* As many queue pairs as are asked for and the function has queues for,   *)
(* with the first of its identifiers; queue_ids lists a range in order.    *)
initialize_queue_pairs(v) ==
  LET ids == vfs[v].ids[Queue]
      first == CHOOSE s \in ids : \A t \in ids : s <= t
      n == IF num_queue_pairs < Cardinality(ids) THEN num_queue_pairs ELSE Cardinality(ids)
  IN  [i \in 1..n |-> QueuePair(first + i - 1)]

VFDevice(v) ==
  /\ v \in DOMAIN vfs /\ v \notin DOMAIN devices
  /\ devices' = [w \in DOMAIN devices \cup {v} |->
                   IF w = v THEN initialize_queue_pairs(v) ELSE devices[w]]
  /\ UNCHANGED <<pfVars, orphans>>

Close(v) ==
  /\ v \in DOMAIN devices
  /\ devices' = [w \in DOMAIN devices \ {v} |-> devices[w]]
  /\ orphans' = orphans \ {v}
  /\ UNCHANGED pfVars

(* The driver pushes a packet into the ring. *)
push_tx(v, i) ==
  /\ v \in DOMAIN devices /\ i \in DOMAIN devices[v]
  /\ devices[v][i].waiting < queue_depth
  /\ devices' = [devices EXCEPT ![v][i].waiting = @ + 1]
  /\ UNCHANGED <<pfVars, orphans>>

Processed(qp) == IF qp.waiting = 0 THEN qp ELSE [qp EXCEPT !.waiting = @ - 1]

(* Without a queue pair of that index nothing happens. *)
process_queue_pair(v, i) ==
  /\ v \in DOMAIN devices /\ i \in DOMAIN devices[v]
  /\ devices' = [devices EXCEPT ![v][i] = Processed(@)]
  /\ UNCHANGED <<pfVars, orphans>>

process_all(v) ==
  /\ v \in DOMAIN devices
  /\ devices' = [devices EXCEPT ![v] = [i \in DOMAIN @ |-> Processed(@[i])]]
  /\ UNCHANGED <<pfVars, orphans>>

(* reset: the rings are emptied and the doorbells reset. *)
reset(v) ==
  /\ v \in DOMAIN devices
  /\ devices' = [devices EXCEPT ![v] = [i \in DOMAIN @ |-> QueuePair(@[i].queue_id)]]
  /\ UNCHANGED <<pfVars, orphans>>

deviceVars == <<devices, orphans>>

(* The function goes and its queues are free, whether or not a device still *)
(* drives them.                                                             *)
DestroyUnderDevice(v) ==
  /\ destroy_vf(v)
  /\ orphans' = orphans \cup ({v} \cap DOMAIN devices)
  /\ UNCHANGED devices

DevNext ==
  \E v \in VfIds :
    \/ UNCHANGED deviceVars /\ \E request \in Requests, enabled \in BOOLEAN : create_vf(v, request, enabled)
    \/ DestroyUnderDevice(v)
    \/ UNCHANGED deviceVars /\ enable_vf(v)
    \/ UNCHANGED deviceVars /\ disable_vf(v)
    \/ UNCHANGED deviceVars /\ reset_vf(v)
    \/ VFDevice(v)
    \/ Close(v)
    \/ \E i \in 1..num_queue_pairs : push_tx(v, i) \/ process_queue_pair(v, i)
    \/ process_all(v)
    \/ reset(v)

DevSpec == DevInit /\ [][DevNext]_allVars

-----------------------------------------------------------------------------
QueueIds(v) == {devices[v][i].queue_id : i \in DOMAIN devices[v]}

(* vf_device.h: "Each VF sees this as a complete, isolated NIC with its own *)
(* queues": for as long as its function exists, the queues a device drives  *)
(* belong to that function, so no two such devices drive one queue,         *)
(* although a device only looked at the identifiers once, functions come    *)
(* and go beside it, and queues are freed under other devices and reused.   *)
(* The isolation ends where a function is destroyed under its device: that  *)
(* device keeps queues that may go to another.  Even it never drives a      *)
(* queue of the physical function.                                          *)
DevicesIsolated ==
  /\ \A v \in DOMAIN devices : QueueIds(v) \cap PfOwn(Queue) = {}
  /\ \A v \in DOMAIN devices \ orphans :
       /\ v \in DOMAIN vfs /\ QueueIds(v) \subseteq vfs[v].ids[Queue]
       /\ \A w \in DOMAIN devices \ orphans : v # w => QueueIds(v) \cap QueueIds(w) = {}
=============================================================================
