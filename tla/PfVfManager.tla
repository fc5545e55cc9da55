---------------------------- MODULE PfVfManager -----------------------------
(***************************************************************************)
(* The physical function's bookkeeping of virtual functions                *)
(* (src/src/pf_vf_manager.cpp, src/src/virtual_function.cpp): creation     *)
(* takes the first contiguous range of queues and of vectors that is free  *)
(* in two bitmaps, destruction gives them back, and a virtual function is  *)
(* enabled, disabled and reset in between.                                 *)
(*                                                                         *)
(* The code for queues and for vectors is the same twice; here it is one   *)
(* definition per kind of resource.  A bitmap is the set of its marked     *)
(* positions.                                                              *)
(***************************************************************************)
EXTENDS Integers, FiniteSets

CONSTANTS VfIds,
          Kinds,             \* queues and vectors
          Total, Reserved,   \* of each kind: how many there are, how many the PF keeps
          Requests,          \* numbers of each kind asked for at a creation
          max_vfs

ASSUME PfAssumption ==
  /\ Total \in [Kinds -> Nat] /\ Reserved \in [Kinds -> Nat]
  /\ Requests \subseteq [Kinds -> Nat]
  /\ max_vfs \in Nat

VARIABLES vfs,              \* [state, enabled, ids] of a virtual function
          vf_allocations,   \* its ranges: [start, count] of each kind
          allocated         \* the bitmap of each kind

vars == <<vfs, vf_allocations, allocated>>

Slots(kind) == 0..(Total[kind] - 1)

Span(start, count) == start..(start + count - 1)

PfOwn(kind) == Span(0, Reserved[kind]) \cap Slots(kind)

Init ==
  /\ vfs = [v \in {} |-> 0] /\ vf_allocations = [v \in {} |-> 0]
  /\ allocated = [kind \in Kinds |-> PfOwn(kind)]

(* Mutant of FreeStarts: the last slot of a range is not looked at. *)
FreeStartsShort(kind, count) ==
  {s \in Slots(kind) : count > 0 /\ s + count <= Total[kind]
                        /\ Span(s, count - 1) \cap allocated[kind] = {}}

(* The positions at which a range of count slots fits. *)
FreeStarts(kind, count) ==
  {s \in Slots(kind) : count > 0 /\ s + count <= Total[kind]
                        /\ Span(s, count) \cap allocated[kind] = {}}

find_free_range(kind, count) ==
  CHOOSE s \in FreeStarts(kind, count) : \A t \in FreeStarts(kind, count) : s <= t

try_allocate_resources(request) ==
  \A kind \in Kinds : FreeStarts(kind, request[kind]) # {}

allocate_resources(request) ==
  [kind \in Kinds |-> [start |-> find_free_range(kind, request[kind]), count |-> request[kind]]]

Ids(alloc, kind) == Span(alloc[kind].start, alloc[kind].count)

create_vf(v, request, enabled) ==
  /\ v \notin DOMAIN vfs
  /\ Cardinality(DOMAIN vfs) < max_vfs
  /\ try_allocate_resources(request)
  /\ LET alloc == allocate_resources(request)
         vf == [state |-> "Disabled", enabled |-> enabled,
                ids |-> [kind \in Kinds |-> Ids(alloc, kind)]]
     IN  /\ allocated' = [kind \in Kinds |-> allocated[kind] \cup (Ids(alloc, kind) \cap Slots(kind))]
         /\ vf_allocations' = [w \in DOMAIN vf_allocations \cup {v} |->
                                 IF w = v THEN alloc ELSE vf_allocations[w]]
         /\ vfs' = [w \in DOMAIN vfs \cup {v} |-> IF w = v THEN vf ELSE vfs[w]]

(* Mutant of free_resources: the slot behind the range is freed too. *)
free_resourcesLong(alloc) ==
  [kind \in Kinds |-> allocated[kind] \ Span(alloc[kind].start, alloc[kind].count + 1)]

free_resources(alloc) == [kind \in Kinds |-> allocated[kind] \ Ids(alloc, kind)]

destroy_vf(v) ==
  /\ v \in DOMAIN vfs
  /\ allocated' = IF v \in DOMAIN vf_allocations THEN free_resources(vf_allocations[v]) ELSE allocated
  /\ vf_allocations' = [w \in DOMAIN vf_allocations \ {v} |-> vf_allocations[w]]
  /\ vfs' = [w \in DOMAIN vfs \ {v} |-> vfs[w]]

(* The state a virtual function is left in; reset passes FLRInProgress      *)
(* within one call, so no caller ever meets it.                             *)
Moved(v, state) == vfs' = [vfs EXCEPT ![v].state = state, ![v].enabled = (state = "Enabled")]

enable_vf(v) ==
  /\ v \in DOMAIN vfs
  /\ IF vfs[v].state \in {"Enabled", "FLRInProgress"} THEN UNCHANGED vfs ELSE Moved(v, "Enabled")
  /\ UNCHANGED <<vf_allocations, allocated>>

disable_vf(v) ==
  /\ v \in DOMAIN vfs
  /\ IF vfs[v].state \in {"Disabled", "FLRInProgress"} THEN UNCHANGED vfs ELSE Moved(v, "Disabled")
  /\ UNCHANGED <<vf_allocations, allocated>>

(* Mutant of reset_vf: the function's queues and vectors are given back. *)
reset_vfFrees(v) ==
  /\ v \in DOMAIN vfs
  /\ vfs' = [vfs EXCEPT ![v].state = "Reset", ![v].ids = [kind \in Kinds |-> {}]]
  /\ UNCHANGED <<vf_allocations, allocated>>

reset_vf(v) ==
  /\ v \in DOMAIN vfs
  /\ Moved(v, "Reset")
  /\ UNCHANGED <<vf_allocations, allocated>>

Next ==
  \E v \in VfIds :
    \/ \E request \in Requests, enabled \in BOOLEAN : create_vf(v, request, enabled)
    \/ destroy_vf(v)
    \/ enable_vf(v)
    \/ disable_vf(v)
    \/ reset_vf(v)

Spec == Init /\ [][Next]_vars

-----------------------------------------------------------------------------
VfState == {"Disabled", "Enabled", "Reset", "FLRInProgress"}

(* Every virtual function has its ranges, the ones its own identifiers were *)
(* taken from, and the bitmaps stay within their size.                      *)
TypeOK ==
  /\ DOMAIN vfs \subseteq VfIds /\ DOMAIN vf_allocations = DOMAIN vfs
  /\ vfs \in [DOMAIN vfs -> [state : VfState, enabled : BOOLEAN, ids : [Kinds -> SUBSET Nat]]]
  /\ vf_allocations \in [DOMAIN vfs -> [Kinds -> [start : Nat, count : Nat]]]
  /\ allocated \in [Kinds -> SUBSET Nat] /\ \A kind \in Kinds : allocated[kind] \subseteq Slots(kind)
  /\ \A v \in DOMAIN vfs : \A kind \in Kinds : vfs[v].ids[kind] = Ids(vf_allocations[v], kind)

(* No queue and no vector has two owners, among the virtual functions and   *)
(* the physical one; and the bitmaps mark exactly what is owned, so that    *)
(* nothing leaks however functions come and go.                             *)
ResourcesPartitioned ==
  \A kind \in Kinds :
    /\ allocated[kind] = PfOwn(kind) \cup UNION {vfs[v].ids[kind] : v \in DOMAIN vfs}
    /\ \A v \in DOMAIN vfs : vfs[v].ids[kind] \cap PfOwn(kind) = {}
    /\ \A v, w \in DOMAIN vfs : v # w => vfs[v].ids[kind] \cap vfs[w].ids[kind] = {}

(* A function that lives on keeps its queues and vectors, through a reset   *)
(* of its own ("keep resources allocated") and whatever happens to others.  *)
ResourcesKept ==
  [][\A v \in DOMAIN vfs \cap DOMAIN vfs' : vfs'[v].ids = vfs[v].ids]_vars

=============================================================================
