--------------------------- MODULE RdmaResources ---------------------------
(***************************************************************************)
(* The resources of an RDMA engine (src/src/rocev2/engine.cpp) as the      *)
(* driver (driver/src/driver.cpp) creates and destroys them: protection    *)
(* domains, memory regions, completion queues and queue pairs, the numbers *)
(* they are known by, and the per-pair state the packet processors keep in *)
(* tables of their own.                                                    *)
(*                                                                         *)
(* A table is a function whose domain is the numbers in use.  Completions  *)
(* are the number of the queue pair they report on.                        *)
(***************************************************************************)
EXTENDS Integers, Sequences, FiniteSets

CONSTANTS max_pds, max_mrs, max_cqs, max_qps,
          CqDepths,          \* depths a completion queue may be created with
          Regions,         \* [base, length, local_read, local_write, remote_read, remote_write]
          AddressModulus,  \* 2^64 in the code
          MaxNumber,       \* bound on the numbers handed out by each table
          MaxKey           \* bound on the memory keys handed out

FirstKey == 256

ASSUME LimitsAssumption == {max_pds, max_mrs, max_cqs, max_qps, MaxNumber, MaxKey} \subseteq Nat
ASSUME DepthsAssumption == CqDepths \subseteq Nat /\ AddressModulus \in Nat \ {0}
ASSUME RegionsAssumption ==
  Regions \subseteq [base : 0..(AddressModulus - 1), length : 0..(AddressModulus - 1),
                     local_read : BOOLEAN, local_write : BOOLEAN,
                     remote_read : BOOLEAN, remote_write : BOOLEAN]

VARIABLES initialized,                   \* the driver has a device
          pds, next_handle,              \* PdTable
          mrs_by_lkey, mrs_by_rkey,      \* MemoryRegionTable: region of an lkey,
          next_key,                      \*   lkey of the region of an rkey
          cqs, next_cq_number,           \* [depth, cqes] of a completion queue
          qps, next_qp_number,           \* [pd, send_cq, recv_cq] of a queue pair
          requests,                      \* pairs with READ, pending or rate state
          streams                        \* pairs with SEND or WRITE receive state

pdVars == <<pds, next_handle>>
mrVars == <<mrs_by_lkey, mrs_by_rkey, next_key>>
cqVars == <<cqs, next_cq_number>>
qpVars == <<qps, next_qp_number>>
stateVars == <<requests, streams>>
resourcesVars == <<initialized, pdVars, mrVars, cqVars, qpVars, stateVars>>

Empty == [n \in {} |-> 0]

ResourcesInit ==
  /\ initialized = FALSE
  /\ pds = {} /\ next_handle = 1
  /\ mrs_by_lkey = Empty /\ mrs_by_rkey = Empty /\ next_key = FirstKey
  /\ cqs = Empty /\ next_cq_number = 1
  /\ qps = Empty /\ next_qp_number = 1
  /\ requests = {} /\ streams = {}

(* f with v at k, and f without k. *)
Put(f, k, v) == [n \in DOMAIN f \cup {k} |-> IF n = k THEN v ELSE f[n]]

Without(f, k) == [n \in DOMAIN f \ {k} |-> f[n]]

-----------------------------------------------------------------------------
(* Protection domains. *)

allocate ==
  /\ Cardinality(pds) < max_pds
  /\ pds' = pds \cup {next_handle} /\ next_handle' = next_handle + 1

create_pd ==
  /\ next_handle <= MaxNumber
  /\ allocate
  /\ UNCHANGED <<mrVars, cqVars, qpVars, stateVars>>

deallocate(pd) == pd \in pds /\ pds' = pds \ {pd} /\ UNCHANGED next_handle

(* Nothing asks whether a region or a pair still names the domain. *)
destroy_pd(pd) ==
  /\ deallocate(pd)
  /\ UNCHANGED <<mrVars, cqVars, qpVars, stateVars>>

-----------------------------------------------------------------------------
(* Memory regions. *)

AddRegion(pd, region) ==
  LET lkey == next_key
      rkey == next_key + 1
  IN  /\ rkey <= MaxKey
      /\ Cardinality(DOMAIN mrs_by_lkey) < max_mrs
      /\ region.length > 0
      /\ mrs_by_lkey' = Put(mrs_by_lkey, lkey, [rkey |-> rkey, pd |-> pd, region |-> region])
      /\ mrs_by_rkey' = Put(mrs_by_rkey, rkey, lkey)
      /\ next_key' = next_key + 2

register_mr(pd, region) ==
  /\ pd \in pds
  /\ AddRegion(pd, region)
  /\ UNCHANGED <<pdVars, cqVars, qpVars, stateVars>>

RemoveRegion(lkey) ==
  /\ lkey \in DOMAIN mrs_by_lkey
  /\ mrs_by_rkey' = Without(mrs_by_rkey, mrs_by_lkey[lkey].rkey)
  /\ mrs_by_lkey' = Without(mrs_by_lkey, lkey)
  /\ UNCHANGED next_key

deregister_mr(lkey) ==
  /\ RemoveRegion(lkey)
  /\ UNCHANGED <<pdVars, cqVars, qpVars, stateVars>>

(* Mutant of InBounds: the end of the access is not looked at. *)
InBoundsStart(r, address, length) ==
  address >= r.base /\ (address - r.base) % AddressModulus <= r.length

(* The bounds check, in the width the code computes it with. *)
InBounds(r, address, length) ==
  address >= r.base /\ (address - r.base + length) % AddressModulus <= r.length

validate_access(r, address, length, is_write, is_remote) ==
  /\ InBounds(r, address, length)
  /\ is_remote /\ is_write => r.remote_write
  /\ is_remote /\ ~is_write => r.remote_read
  /\ ~is_remote /\ is_write => r.local_write
  /\ ~is_remote /\ ~is_write => r.local_read

validate_rkey(rkey, pd, address, length, is_write) ==
  /\ rkey \in DOMAIN mrs_by_rkey
  /\ LET mr == mrs_by_lkey[mrs_by_rkey[rkey]]
     IN  mr.pd = pd /\ validate_access(mr.region, address, length, is_write, TRUE)

-----------------------------------------------------------------------------
(* Completion queues. *)

create_cq(depth) ==
  /\ next_cq_number <= MaxNumber
  /\ Cardinality(DOMAIN cqs) < max_cqs
  /\ cqs' = Put(cqs, next_cq_number, [depth |-> depth, cqes |-> <<>>])
  /\ next_cq_number' = next_cq_number + 1
  /\ UNCHANGED <<pdVars, mrVars, qpVars, stateVars>>

(* Mutant of destroy_cq: only the send side is asked. *)
destroy_cqSendOnly(cq) ==
  /\ \A q \in DOMAIN qps : cq # qps[q].send_cq
  /\ cq \in DOMAIN cqs
  /\ cqs' = Without(cqs, cq)
  /\ UNCHANGED <<next_cq_number, pdVars, mrVars, qpVars, stateVars>>

destroy_cq(cq) ==
  /\ \A q \in DOMAIN qps : cq # qps[q].send_cq /\ cq # qps[q].recv_cq
  /\ cq \in DOMAIN cqs
  /\ cqs' = Without(cqs, cq)
  /\ UNCHANGED <<next_cq_number, pdVars, mrVars, qpVars, stateVars>>

poll(cq, max_cqes) ==
  LET held == cqs[cq].cqes
      polled == IF max_cqes < Len(held) THEN max_cqes ELSE Len(held)
  IN  cqs' = [cqs EXCEPT ![cq].cqes = SubSeq(held, polled + 1, Len(held))]

poll_cq(cq, max_cqes) ==
  /\ cq \in DOMAIN cqs
  /\ poll(cq, max_cqes)
  /\ UNCHANGED <<next_cq_number, pdVars, mrVars, qpVars, stateVars>>

(* A full queue drops the completion. *)
post(cq, q) ==
  cqs' = IF Len(cqs[cq].cqes) >= cqs[cq].depth THEN cqs
         ELSE [cqs EXCEPT ![cq].cqes = Append(@, q)]

deliver_cqe(cq, q) == IF cq \in DOMAIN cqs THEN post(cq, q) ELSE UNCHANGED cqs

-----------------------------------------------------------------------------
(* Queue pairs. *)

NewQpNumber == next_qp_number

create_qp(pd, send_cq, recv_cq) ==
  /\ next_qp_number <= MaxNumber
  /\ Cardinality(DOMAIN qps) < max_qps
  /\ pd \in pds
  /\ {send_cq, recv_cq} \subseteq DOMAIN cqs
  /\ qps' = Put(qps, NewQpNumber, [pd |-> pd, send_cq |-> send_cq, recv_cq |-> recv_cq])
  /\ next_qp_number' = NewQpNumber + 1
  /\ UNCHANGED <<pdVars, mrVars, cqVars, stateVars>>

(* The receive states of SEND and WRITE stay behind. *)
destroy_qp(q) ==
  /\ q \in DOMAIN qps
  /\ requests' = requests \ {q}
  /\ qps' = Without(qps, q)
  /\ UNCHANGED <<next_qp_number, streams, pdVars, mrVars, cqVars>>

(* A posted request or an arriving packet finds its pair by number, leaves  *)
(* state of it with the processors and may complete a send or a receive     *)
(* request (RcTransport has the details).                                   *)
Transfer(q) ==
  /\ q \in DOMAIN qps
  /\ \/ /\ requests' = requests \cup {q} /\ UNCHANGED streams
        /\ deliver_cqe(qps[q].send_cq, q) \/ UNCHANGED cqs
     \/ /\ streams' = streams \cup {q} /\ UNCHANGED requests
        /\ deliver_cqe(qps[q].recv_cq, q) \/ UNCHANGED cqs
  /\ UNCHANGED <<next_cq_number, pdVars, mrVars, qpVars>>

-----------------------------------------------------------------------------
Cleared ==
  /\ pds' = {} /\ next_handle' = 1
  /\ mrs_by_lkey' = Empty /\ mrs_by_rkey' = Empty /\ next_key' = FirstKey
  /\ cqs' = Empty /\ next_cq_number' = 1
  /\ qps' = Empty /\ next_qp_number' = 1
  /\ requests' = {}

(* Mutant of engine_reset: the SEND and WRITE processors are forgotten. *)
engine_resetKeepsStreams == Cleared /\ UNCHANGED streams

engine_reset == Cleared /\ streams' = {}

DriverTransfer == \E q \in DOMAIN qps : Transfer(q)

(* Every RDMA call of the driver is refused without a device. *)
DriverCall ==
  /\ initialized
  /\ UNCHANGED initialized
  /\ \/ create_pd
     \/ \E pd \in pds : destroy_pd(pd)
     \/ \E pd \in pds, r \in Regions : register_mr(pd, r)
     \/ \E k \in DOMAIN mrs_by_lkey : deregister_mr(k)
     \/ \E d \in CqDepths : create_cq(d)
     \/ \E c \in DOMAIN cqs : destroy_cq(c)
     \/ \E c \in DOMAIN cqs : poll_cq(c, 1)
     \/ \E pd \in pds, c1, c2 \in DOMAIN cqs : create_qp(pd, c1, c2)
     \/ \E q \in DOMAIN qps : destroy_qp(q)
     \/ DriverTransfer
     \/ engine_reset

driver_init ==
  /\ ~initialized /\ initialized' = TRUE
  /\ UNCHANGED <<pdVars, mrVars, cqVars, qpVars, stateVars>>

(* The device goes, and the engine with it. *)
driver_reset == initialized /\ initialized' = FALSE /\ Cleared /\ streams' = {}

ResourcesNext == DriverCall \/ driver_init \/ driver_reset

ResourcesSpec == ResourcesInit /\ [][ResourcesNext]_resourcesVars

-----------------------------------------------------------------------------
Handles == Nat \ {0}

(* The tables hold records of their type, and a completion queue at most    *)
(* its depth.                                                               *)
ResourcesTypeOK ==
  /\ initialized \in BOOLEAN
  /\ pds \subseteq Handles /\ next_handle \in Handles
  /\ next_key \in Nat /\ next_cq_number \in Handles /\ next_qp_number \in Handles
  /\ DOMAIN mrs_by_lkey \subseteq Nat /\ DOMAIN mrs_by_rkey \subseteq Nat
  /\ mrs_by_lkey \in [DOMAIN mrs_by_lkey -> [rkey : Nat, pd : Handles, region : Regions]]
  /\ mrs_by_rkey \in [DOMAIN mrs_by_rkey -> Nat]
  /\ DOMAIN cqs \subseteq Handles /\ cqs \in [DOMAIN cqs -> [depth : Nat, cqes : Seq(Handles)]]
  /\ \A c \in DOMAIN cqs : Len(cqs[c].cqes) <= cqs[c].depth
  /\ DOMAIN qps \subseteq Handles
  /\ qps \in [DOMAIN qps -> [pd : Handles, send_cq : Handles, recv_cq : Handles]]
  /\ requests \subseteq Handles /\ streams \subseteq Handles

(* A completion of a live pair always has a queue to go to: while a pair    *)
(* exists both its completion queues do (create_qp, destroy_cq).            *)
QpCqsExist == \A q \in DOMAIN qps : {qps[q].send_cq, qps[q].recv_cq} \subseteq DOMAIN cqs

(* The rkey map holds pointers into the lkey map: each points to a region   *)
(* that still exists and carries that rkey, and every region is reached.    *)
KeysAgree ==
  /\ \A r \in DOMAIN mrs_by_rkey :
       mrs_by_rkey[r] \in DOMAIN mrs_by_lkey /\ mrs_by_lkey[mrs_by_rkey[r]].rkey = r
  /\ \A k \in DOMAIN mrs_by_lkey :
       mrs_by_lkey[k].rkey \in DOMAIN mrs_by_rkey /\ mrs_by_rkey[mrs_by_lkey[k].rkey] = k

Entries(c) == {cqs[c].cqes[i] : i \in DOMAIN cqs[c].cqes}

(* A completion that names a live pair waits in one of that pair's own      *)
(* queues: it was never made for an earlier pair of the same number.        *)
CompletionsNameTheirQp ==
  \A c \in DOMAIN cqs : \A q \in Entries(c) :
    q \in DOMAIN qps => c \in {qps[q].send_cq, qps[q].recv_cq}

(* What one table says of another is so: completion queues of pairs, rkeys  *)
(* of regions, completions of pairs.                                        *)
ReferencesIntact == QpCqsExist /\ KeysAgree /\ CompletionsNameTheirQp

(* A queue pair starts clean: what processors, completion queues and        *)
(* regions keep belongs to numbers handed out before, through destruction   *)
(* of pairs (which leaves receive states behind) and resets.                *)
NumbersFresh ==
  /\ \A q \in requests \cup streams \cup DOMAIN qps : q < next_qp_number
  /\ \A c \in DOMAIN cqs : c < next_cq_number /\ \A q \in Entries(c) : q < next_qp_number
  /\ \A k \in DOMAIN mrs_by_lkey \cup DOMAIN mrs_by_rkey : k < next_key
  /\ \A pd \in pds : pd < next_handle
  /\ \A k \in DOMAIN mrs_by_lkey : mrs_by_lkey[k].pd < next_handle
  /\ \A q \in DOMAIN qps : qps[q].pd < next_handle

Bytes(address, length) == address..(address + length - 1)

(* The live regions that grant the access to whoever has the key and the    *)
(* domain; that the domain itself is still there is never asked.            *)
Grantors(rkey, pd, is_write) ==
  {mrs_by_lkey[k].region : k \in
     {n \in DOMAIN mrs_by_lkey :
        /\ mrs_by_lkey[n].rkey = rkey /\ mrs_by_lkey[n].pd = pd
        /\ IF is_write THEN mrs_by_lkey[n].region.remote_write
                       ELSE mrs_by_lkey[n].region.remote_read}}

Holds(r, address, length) == Bytes(address, length) \subseteq Bytes(r.base, r.length)

(* The sum the bounds check computes does not fit its 64 bits. *)
SumWraps(r, address, length) == address - r.base + length >= AddressModulus

(* Of all addresses and lengths of 64 bits, the last byte of memory and     *)
(* beyond included, validate_rkey lets through every access that a region   *)
(* of the pair's own domain grants and holds, and no other, save those of   *)
(* which offset and length add up to 2^64 or more: these are judged by what *)
(* is left of the sum, and some of them pass.                               *)
RemoteAccessIffGranted ==
  \A q \in DOMAIN qps, rkey \in DOMAIN mrs_by_rkey, is_write \in BOOLEAN :
    \A address \in 0..(AddressModulus - 1), length \in 1..(AddressModulus - 1) :
      LET allowed == validate_rkey(rkey, qps[q].pd, address, length, is_write)
          grantors == Grantors(rkey, qps[q].pd, is_write)
      IN  /\ (\E r \in grantors : Holds(r, address, length)) => allowed
          /\ allowed => \E r \in grantors :
                          Holds(r, address, length) \/ SumWraps(r, address, length)
=============================================================================
