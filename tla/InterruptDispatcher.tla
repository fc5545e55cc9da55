------------------------ MODULE InterruptDispatcher -------------------------
(***************************************************************************)
(* The interrupt dispatcher (src/src/interrupt_dispatcher.cpp) over the    *)
(* MSI-X table and queue mapping (src/src/msix.cpp): completions of queues *)
(* are counted per vector and delivered in batches, when a count reaches   *)
(* the packet threshold, when a timer expires, or when software flushes.   *)
(*                                                                         *)
(* An absent entry of pending_counts_ is a count of 0 (the code erases an  *)
(* entry when it fires, and counts it from 1); an absent entry of another  *)
(* map is None.  Event counters kept for statistics are left out.          *)
(***************************************************************************)
EXTENDS Integers, FiniteSets

CONSTANTS CompletionQueues, Vectors,
          Unbacked,          \* a vector number beyond the MSI-X table
          PacketThresholds,  \* the packet thresholds a queue may be given
          PacketThreshold,   \* coalesce_.packet_threshold
          TimerThreshold,    \* coalesce_.timer_threshold_us
          Elapsed,           \* the elapsed times a timer tick may report
          TimeModulus,       \* the timers' width: 2^32 in the code
          AdaptiveConfigs,   \* the adaptive configurations software may set
          None

ASSUME VectorAssumption == Unbacked \notin Vectors
ASSUME ThresholdAssumption ==
  /\ PacketThreshold \in Nat /\ TimerThreshold \in Nat
  /\ PacketThresholds \subseteq Nat
  /\ Elapsed \subseteq Nat /\ TimeModulus \in Nat \ {0}
  /\ None \notin Nat
ASSUME AdaptiveAssumption ==
  \A c \in AdaptiveConfigs :
    /\ c.enabled \in BOOLEAN
    /\ c.min_threshold \in Nat /\ c.max_threshold \in Nat
    /\ c.low_batch_size \in Nat /\ c.high_batch_size \in Nat
    /\ c.sample_interval \in Nat

VARIABLES enabled, masked,      \* MsixTable: the flags of each vector
          mapping,              \* MsixMapping: the vector of each queue
          pending_counts,       \* completions counted, not yet delivered
          pending_time_us,      \* time since the last one, or None
          per_queue_coalesce,   \* packet threshold of a queue, or None
          adaptive,             \* adaptive_
          adaptive_state,       \* AdaptiveState of a vector, or None
          owed                  \* ghost: accepted completions no delivered batch reported

tableVars == <<enabled, masked, mapping>>
configVars == <<per_queue_coalesce, adaptive>>
dispatcherVars == <<tableVars, pending_counts, pending_time_us, configVars, adaptive_state, owed>>

(* The start of a sample period; operator[] default-constructs one with 1. *)
SampleStart(t) == [interrupt_count |-> 0, total_batch_size |-> 0, current_threshold |-> t]

DispatcherInit ==
  /\ enabled \in [Vectors -> BOOLEAN] /\ masked \in [Vectors -> BOOLEAN]
  /\ \E v \in Vectors : mapping = [q \in CompletionQueues |-> v]
  /\ pending_counts = [v \in Vectors |-> 0]
  /\ pending_time_us = [v \in Vectors |-> None]
  /\ per_queue_coalesce = [q \in CompletionQueues |-> None]
  /\ adaptive \in {c \in AdaptiveConfigs : ~c.enabled}
  /\ adaptive_state = [v \in Vectors |-> None]
  /\ owed = [v \in Vectors |-> 0]

Deliverable(v) == enabled[v] /\ ~masked[v]

get_coalesce_config(q) ==
  IF per_queue_coalesce[q] = None THEN PacketThreshold ELSE per_queue_coalesce[q]

(* Mutant of Adjust: the threshold is raised past its cap. *)
AdjustUncapped(cur, avg) ==
  IF avg >= adaptive.high_batch_size THEN cur + 1
  ELSE IF avg <= adaptive.low_batch_size /\ cur > adaptive.min_threshold THEN cur - 1
  ELSE cur

(* The threshold moves by one towards the load, once per sample period. *)
Adjust(cur, avg) ==
  IF avg >= adaptive.high_batch_size /\ cur < adaptive.max_threshold THEN cur + 1
  ELSE IF avg <= adaptive.low_batch_size /\ cur > adaptive.min_threshold THEN cur - 1
  ELSE cur

update_adaptive_threshold(st, batch) ==
  LET old == IF st = None THEN SampleStart(1) ELSE st
      n == old.interrupt_count + 1
      total == old.total_batch_size + batch
  IN  IF ~adaptive.enabled THEN st
      ELSE IF n < adaptive.sample_interval
      THEN [interrupt_count |-> n, total_batch_size |-> total,
            current_threshold |-> old.current_threshold]
      ELSE SampleStart(Adjust(old.current_threshold, total \div n))

(* Mutant of try_fire: a suppressed vector loses its count too. *)
try_fireErases(S, counts, states, debts) ==
  /\ pending_counts' = [v \in Vectors |-> IF v \in S THEN 0 ELSE counts[v]]
  /\ adaptive_state' = states
  /\ owed' = [v \in Vectors |-> IF v \in S /\ Deliverable(v) THEN debts[v] - counts[v] ELSE debts[v]]

(* try_fire of every vector of S, from the counts, adaptive states and      *)
(* debts given: a suppressed vector keeps its count, a fired one hands its  *)
(* batch (1 when nothing is pending) to the deliver callback.               *)
try_fire(S, counts, states, debts) ==
  LET fired == {v \in S : Deliverable(v)}
      batch(v) == IF counts[v] = 0 THEN 1 ELSE counts[v]
      reported(v) == IF counts[v] = 0 THEN 0 ELSE batch(v)
  IN  /\ pending_counts' = [v \in Vectors |-> IF v \in fired THEN 0 ELSE counts[v]]
      /\ adaptive_state' = [v \in Vectors |->
           IF v \in fired THEN update_adaptive_threshold(states[v], batch(v)) ELSE states[v]]
      /\ owed' = [v \in Vectors |-> IF v \in fired THEN debts[v] - reported(v) ELSE debts[v]]

(* The threshold on_completion compares with: the adaptive one only once    *)
(* the vector has an adaptive state.                                        *)
Threshold(q, v) ==
  IF adaptive.enabled /\ adaptive_state[v] # None
  THEN adaptive_state[v].current_threshold
  ELSE get_coalesce_config(q)

(* A disabled or masked vector drops the event: it is not counted. *)
Suppressed(v) ==
  /\ v # Unbacked => ~Deliverable(v)
  /\ UNCHANGED <<pending_counts, pending_time_us, adaptive_state, owed>>

(* Mutant of Due: the comparison is strict. *)
DueLate(n, q, v) == n > Threshold(q, v)

Due(n, q, v) == n >= Threshold(q, v)

Accepted(q, v) ==
  LET counts == [pending_counts EXCEPT ![v] = @ + 1]
      debts  == [owed EXCEPT ![v] = @ + 1]
      states == IF adaptive.enabled /\ adaptive_state[v] = None
                THEN [adaptive_state EXCEPT ![v] = SampleStart(get_coalesce_config(q))]
                ELSE adaptive_state
      fire   == Due(counts[v], q, v)
  IN  /\ v # Unbacked /\ Deliverable(v)
      /\ try_fire(IF fire THEN {v} ELSE {}, counts, states, debts)
      /\ pending_time_us' = [pending_time_us EXCEPT ![v] = IF fire THEN None ELSE 0]

on_completion(q) ==
  /\ Suppressed(mapping[q]) \/ Accepted(q, mapping[q])
  /\ UNCHANGED <<tableVars, configVars>>

(* Mutant of flush: the timer keeps running. *)
flushKeepsTimer(v) ==
  /\ try_fire({v}, pending_counts, adaptive_state, owed)
  /\ UNCHANGED <<pending_time_us, tableVars, configVars>>

flush(v) ==
  /\ try_fire({v}, pending_counts, adaptive_state, owed)
  /\ pending_time_us' = [pending_time_us EXCEPT ![v] = None]
  /\ UNCHANGED <<tableVars, configVars>>

flush_all ==
  LET keys == {v \in Vectors : pending_counts[v] > 0}
  IN  /\ try_fire(keys, pending_counts, adaptive_state, owed)
      /\ pending_time_us' = [v \in Vectors |-> IF v \in keys THEN None ELSE pending_time_us[v]]
      /\ UNCHANGED <<tableVars, configVars>>

(* Mutant of Timed: an expired timer is not started again. *)
TimedOnce(v) == pending_time_us[v]

(* Every pending vector is timed before time advances, so that a vector     *)
(* whose timer expired while it was suppressed is timed again.              *)
Timed(v) == IF pending_counts[v] > 0 /\ pending_time_us[v] = None THEN 0 ELSE pending_time_us[v]

on_timer_tick(elapsed) ==
  LET timed == {v \in Vectors : Timed(v) # None}
      now(v) == (Timed(v) + elapsed) % TimeModulus
      expired == {v \in timed : now(v) >= TimerThreshold}
  IN  /\ TimerThreshold > 0 /\ \E v \in Vectors : pending_counts[v] > 0
      /\ try_fire(expired, pending_counts, adaptive_state, owed)
      /\ pending_time_us' = [v \in Vectors |->
                               IF v \in timed \ expired THEN now(v) ELSE None]
      /\ UNCHANGED <<tableVars, configVars>>

counterVars == <<pending_counts, pending_time_us, owed>>

set_queue_vector(q, v) ==
  /\ mapping' = [mapping EXCEPT ![q] = v]
  /\ UNCHANGED <<enabled, masked, configVars, adaptive_state, counterVars>>

mask_vector(v, b) ==
  /\ masked' = [masked EXCEPT ![v] = b]
  /\ UNCHANGED <<enabled, mapping, configVars, adaptive_state, counterVars>>

enable_vector(v, b) ==
  /\ enabled' = [enabled EXCEPT ![v] = b]
  /\ UNCHANGED <<masked, mapping, configVars, adaptive_state, counterVars>>

(* set_queue_coalesce_config, or clear_queue_coalesce_config with None. *)
set_queue_coalesce_config(q, t) ==
  /\ per_queue_coalesce' = [per_queue_coalesce EXCEPT ![q] = t]
  /\ UNCHANGED <<tableVars, adaptive, adaptive_state, counterVars>>

set_adaptive_config(c) ==
  /\ adaptive' = c
  /\ adaptive_state' = [v \in Vectors |->
       IF c.enabled /\ adaptive_state[v] # None
       THEN SampleStart(PacketThreshold)
       ELSE adaptive_state[v]]
  /\ UNCHANGED <<tableVars, per_queue_coalesce, counterVars>>

DispatcherNext ==
  \/ \E q \in CompletionQueues : on_completion(q)
  \/ \E v \in Vectors : flush(v)
  \/ flush_all
  \/ \E e \in Elapsed : on_timer_tick(e)
  \/ \E q \in CompletionQueues, v \in Vectors \cup {Unbacked} : set_queue_vector(q, v)
  \/ \E v \in Vectors, b \in BOOLEAN : mask_vector(v, b) \/ enable_vector(v, b)
  \/ \E q \in CompletionQueues, t \in PacketThresholds \cup {None} : set_queue_coalesce_config(q, t)
  \/ \E c \in AdaptiveConfigs : set_adaptive_config(c)

DispatcherSpec == DispatcherInit /\ [][DispatcherNext]_dispatcherVars

(* The host's clock keeps ticking: the only fairness the dispatcher needs. *)
FairDispatcherSpec == DispatcherSpec /\ WF_dispatcherVars(\E e \in Elapsed : on_timer_tick(e))
-----------------------------------------------------------------------------
AdaptiveStates == [interrupt_count : Nat, total_batch_size : Nat, current_threshold : Nat]

(* The maps hold what their types say. *)
DispatcherTyped ==
  /\ enabled \in [Vectors -> BOOLEAN] /\ masked \in [Vectors -> BOOLEAN]
  /\ mapping \in [CompletionQueues -> Vectors \cup {Unbacked}]
  /\ pending_counts \in [Vectors -> Nat]
  /\ pending_time_us \in [Vectors -> Nat \cup {None}]
  /\ per_queue_coalesce \in [CompletionQueues -> Nat \cup {None}]
  /\ adaptive \in AdaptiveConfigs
  /\ adaptive_state \in [Vectors -> AdaptiveStates \cup {None}]
  /\ owed \in [Vectors -> Int]

(* Conservation: the completions a vector accepted and has not yet reported *)
(* in a delivered batch are exactly the ones pending_counts_ holds, through *)
(* thresholds, timers, flushes, masking and remapping: none is reported     *)
(* twice, none is forgotten.                                                *)
Conservation == \A v \in Vectors : owed[v] = pending_counts[v]

(* Only a vector with something pending is timed, so an expiring timer      *)
(* never interrupts the host for nothing (a manual flush may).              *)
TimedOnlyIfPending == \A v \in Vectors : pending_time_us[v] # None => pending_counts[v] > 0

(* The packet thresholds software can configure: the default, the ones of   *)
(* a queue and the caps of the adaptive moderation.                         *)
Thresholds ==
  {PacketThreshold} \cup PacketThresholds \cup {c.max_threshold : c \in AdaptiveConfigs}

(* No batch outgrows the configuration: whatever is reconfigured, remapped, *)
(* masked or adapted while completions are pending, a threshold lowered     *)
(* under a pending count included, the count stays below the largest        *)
(* threshold software can configure.  A batch of that size is always out.   *)
BatchesBounded ==
  \A v \in Vectors : pending_counts[v] > 0 => \E t \in Thresholds : pending_counts[v] < t

(* A pending completion is delivered, or its vector is suppressed: a trickle *)
(* of completions that keeps restarting the timer reaches the threshold.     *)
PendingIsDelivered ==
  \A v \in Vectors : pending_counts[v] > 0 ~> (pending_counts[v] = 0 \/ ~Deliverable(v))
=============================================================================
