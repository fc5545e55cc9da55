---------------------------- MODULE QueueManager ----------------------------
(***************************************************************************)
(* The weighted round-robin scheduler over the Ethernet queue pairs        *)
(* (src/src/queue_manager.cpp).  A queue pair is what the scheduler sees   *)
(* of it: its backlog and whether its process_once reports work.           *)
(***************************************************************************)
EXTENDS Integers

CONSTANTS N,            \* number of queue pairs
          Weight,       \* weights_: at least 1 (a configured 0 becomes 1)
          MaxBacklog,   \* bound on the descriptors waiting in one queue
          Fallible      \* the queues that may report none with work waiting

ASSUME NAssumption == N \in Nat \ {0}

Queues == 0..(N - 1)

ASSUME WeightAssumption == Weight \in [Queues -> Nat \ {0}]
ASSUME BacklogAssumption == MaxBacklog \in Nat /\ Fallible \subseteq Queues

VARIABLES backlog,            \* descriptors waiting in each queue's TX ring
          scheduler_index, scheduler_credit,
          waited              \* ghost: services of others since a queue's turn

vars == <<backlog, scheduler_index, scheduler_credit, waited>>

Init ==
  /\ backlog = [q \in Queues |-> 0]
  /\ scheduler_index = 0 /\ scheduler_credit = Weight[0]
  /\ waited = [q \in Queues |-> [r \in Queues |-> 0]]

submit(q) ==
  /\ backlog[q] < MaxBacklog
  /\ backlog' = [backlog EXCEPT ![q] = @ + 1]
  /\ UNCHANGED <<scheduler_index, scheduler_credit, waited>>

Succ(i) == (i + 1) % N

(* The queues passed over before q is reached, from scheduler_index on. *)
Distance(q) ==
  IF q >= scheduler_index THEN q - scheduler_index ELSE q - scheduler_index + N

Before(q) == {r \in Queues : Distance(r) < Distance(q)}

(* Queues of S report no work: they have none, or their memory fails, which *)
(* may cost them the descriptor they took (QueuePair::process_segments).    *)
Passed(S, lost) ==
  /\ \A r \in S : backlog[r] = 0 \/ r \in Fallible
  /\ lost \subseteq {r \in S : backlog[r] > 0}

(* Mutant of Credit: a service costs nothing. *)
CreditRestored(q) == Weight[q]

(* The credit q is served with: a skip on the way to it restores it. *)
Credit(q) == IF q = scheduler_index THEN scheduler_credit ELSE Weight[q]

(* Mutant of Reached: the round is one queue short. *)
ReachedShort(q, lost) == Distance(q) < N - 1 /\ backlog[q] > 0 /\ Passed(Before(q), lost)

(* A round from scheduler_index on comes to q, and q has work. *)
Reached(q, lost) == backlog[q] > 0 /\ Passed(Before(q), lost)

(* q does a unit of work after the queues before it reported none; a skip  *)
(* gives the next queue its full credit, a service costs one credit.       *)
Serve(q) ==
  LET credit == Credit(q)
  IN  \E lost \in SUBSET Queues :
      /\ Reached(q, lost)
      /\ backlog' = [r \in Queues |-> IF r \in lost \cup {q} THEN backlog[r] - 1 ELSE backlog[r]]
      /\ scheduler_index' = IF credit > 1 THEN q ELSE Succ(q)
      /\ scheduler_credit' = IF credit > 1 THEN credit - 1 ELSE Weight[Succ(q)]
      /\ waited' = [p \in Queues |->
           IF p = q \/ p \in Before(q) THEN [r \in Queues |-> 0]
           ELSE [waited[p] EXCEPT ![q] = @ + 1]]

(* No queue reports work: the scheduler goes round and ends where it began, *)
(* with that queue's full credit.                                           *)
Idle ==
  \E lost \in SUBSET Queues :
    /\ Passed(Queues, lost)
    /\ backlog' = [r \in Queues |-> IF r \in lost THEN backlog[r] - 1 ELSE backlog[r]]
    /\ scheduler_credit' = Weight[scheduler_index]
    /\ waited' = [q \in Queues |-> [r \in Queues |-> 0]]
    /\ UNCHANGED scheduler_index

process_once == (\E q \in Queues : Serve(q)) \/ Idle

reset ==
  /\ backlog' = [q \in Queues |-> 0]
  /\ scheduler_index' = 0 /\ scheduler_credit' = Weight[0]
  /\ waited' = [q \in Queues |-> [r \in Queues |-> 0]]

Next == (\E q \in Queues : submit(q)) \/ process_once \/ reset

Spec == Init /\ [][Next]_vars

(* The device loop keeps calling process_once. *)
FairSpec == Spec /\ WF_vars(process_once)
-----------------------------------------------------------------------------
(* The variables have their types. *)
TypeOK ==
  /\ backlog \in [Queues -> 0..MaxBacklog]
  /\ scheduler_index \in Queues
  /\ scheduler_credit \in 1..Weight[scheduler_index]
  /\ waited \in [Queues -> [Queues -> Nat]]

(* Fairness of the schedule: between two turns of a queue (served, or       *)
(* passed over because it had no work) every other queue is served at most  *)
(* its weight, however often credits are restored by skips.                 *)
WeightedShare == \A q, r \in Queues : q # r => waited[q][r] <= Weight[r]

(* What makes WeightedShare inductive: of the queues between the scheduler  *)
(* and q, the next in turn has used what is missing of its credit, and the  *)
(* others have not been served since q had its turn.                        *)
ShareInv ==
  \A q, r \in Queues :
    /\ q # r => waited[q][r] <= Weight[r]
    /\ Distance(r) < Distance(q) =>
         waited[q][r] <= IF r = scheduler_index THEN Weight[r] - scheduler_credit ELSE 0

(* No starvation: while process_once keeps being called, a full queue does  *)
(* not stay full, whatever weights, loads and failures the others have.     *)
NoStarvation == \A q \in Queues \ Fallible : backlog[q] = MaxBacklog ~> backlog[q] < MaxBacklog
=============================================================================
