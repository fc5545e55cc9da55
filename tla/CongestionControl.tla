------------------------- MODULE CongestionControl -------------------------
(***************************************************************************)
(* Congestion notification between two RDMA engines                        *)
(* (CongestionControlManager of src/src/rocev2/congestion.cpp, called by   *)
(* src/src/rocev2/engine.cpp): every packet an engine processes counts as  *)
(* marked, a CNP answers the first one of each queue pair, and a queue     *)
(* pair that receives a CNP is slowed and recovers with time.              *)
(*                                                                         *)
(* The engine passes 0 for the current time of a CNP: an entry of          *)
(* cnp_timers_ only says that a CNP was sent, and a received one counts    *)
(* as received at time 0.  Times are kept as ages, up to the period they   *)
(* are compared with.  alpha, a double in the code, is a multiple of       *)
(* 1 / AlphaUnit, rounded either way.  DCQCN is enabled.                   *)
(***************************************************************************)
EXTENDS Integers, FiniteSets

CONSTANTS Engines, Numbers,   \* the engines and their queue pair numbers
          Dest,               \* [e, q] -> the number of q's peer
          initial_rate_mbps, min_rate_mbps,
          AlphaUnit, GainUnit,           \* alpha_g is 1 / GainUnit
          rate_increase_period_us, alpha_update_period_us, cnp_timer_us,
          Elapsed             \* the arguments of advance_time

ASSUME CongestionAssumption ==
  /\ \E a, b \in Engines : a # b /\ Engines = {a, b}
  /\ Dest \in [Engines \X Numbers -> Numbers]
  /\ {AlphaUnit, GainUnit} \subseteq Nat \ {0} /\ Elapsed \subseteq Nat
  /\ initial_rate_mbps \in Nat /\ min_rate_mbps \in 0..initial_rate_mbps
  /\ {rate_increase_period_us, alpha_update_period_us, cnp_timer_us} \subseteq Nat

VARIABLES live_qps,      \* of each engine, the numbers in use
          flow_states,   \* of each engine, a function on the slowed numbers
          cnp_timers,    \* of each engine, the numbers a CNP was sent for
          current_time_us,
          wire,          \* packets under way to each engine
          cnps           \* ghost: CNPs sent for a number, up to 2

congestionVars == <<live_qps, flow_states, cnp_timers, current_time_us, wire, cnps>>

Peer(e) == CHOOSE f \in Engines : f # e

Packets == [cnp : BOOLEAN, dest_qp : Numbers]

CongestionInit ==
  /\ live_qps = [e \in Engines |-> Numbers]
  /\ flow_states = [e \in Engines |-> [q \in {} |-> 0]]
  /\ cnp_timers = [e \in Engines |-> {}]
  /\ current_time_us = [e \in Engines |-> 0]
  /\ wire = [e \in Engines |-> {}]
  /\ cnps = [e \in Engines |-> [q \in Numbers |-> 0]]

AtMost(n, limit) == IF n < limit THEN n ELSE limit
AtLeast(n, limit) == IF n > limit THEN n ELSE limit

-----------------------------------------------------------------------------
(* The state of a flow, made when its first CNP arrives. *)

NewFlow ==
  [current_rate_mbps |-> initial_rate_mbps, target_rate_mbps |-> initial_rate_mbps,
   alpha |-> AlphaUnit, in_recovery |-> FALSE, rate_age |-> 0, alpha_age |-> 0]

get_flow_state(e, q) == IF q \in DOMAIN flow_states[e] THEN flow_states[e][q] ELSE NewFlow

(* Mutant of decrease_rate: the minimum is forgotten. *)
decrease_rateUnbounded(st) ==
  LET rate == (st.current_rate_mbps * (2 * AlphaUnit - st.alpha)) \div (2 * AlphaUnit)
  IN  [st EXCEPT !.current_rate_mbps = rate, !.target_rate_mbps = rate]

decrease_rate(st) ==
  LET rate == AtLeast((st.current_rate_mbps * (2 * AlphaUnit - st.alpha)) \div (2 * AlphaUnit),
                      min_rate_mbps)
  IN  [st EXCEPT !.current_rate_mbps = rate, !.target_rate_mbps = rate]

(* Mutant of recover_rate: recovery ends at the target. *)
recover_rateToTarget(st) ==
  LET target == AtMost(st.target_rate_mbps + initial_rate_mbps \div GainUnit, initial_rate_mbps)
      rate   == (st.current_rate_mbps + target + 1) \div 2
  IN  [st EXCEPT !.target_rate_mbps = target, !.current_rate_mbps = rate,
                 !.in_recovery = rate < target, !.rate_age = 0]

(* Mutant of recover_rate: the target stays where the CNP put it. *)
recover_rateNoIncrease(st) ==
  LET rate == (st.current_rate_mbps + st.target_rate_mbps + 1) \div 2
  IN  [st EXCEPT !.current_rate_mbps = rate,
                 !.in_recovery = rate < initial_rate_mbps, !.rate_age = 0]

recover_rate(st) ==
  LET target == AtMost(st.target_rate_mbps + initial_rate_mbps \div GainUnit, initial_rate_mbps)
      rate   == (st.current_rate_mbps + target + 1) \div 2
  IN  [st EXCEPT !.target_rate_mbps = target,
                 !.current_rate_mbps = AtMost(rate, initial_rate_mbps),
                 !.in_recovery = rate < initial_rate_mbps, !.rate_age = 0]

(* The new alphas, rounded down and up. *)
update_alpha(st, cnp_received) ==
  LET sum == (GainUnit - 1) * st.alpha + (IF cnp_received THEN AlphaUnit ELSE 0)
  IN  {[st EXCEPT !.alpha = AtMost(a, AlphaUnit), !.alpha_age = 0] :
         a \in {sum \div GainUnit, (sum + GainUnit - 1) \div GainUnit}}

(* What advance_time does to a flow of an engine whose clock is now. *)
Older(st, elapsed) ==
  [st EXCEPT !.rate_age = AtMost(@ + elapsed, rate_increase_period_us),
             !.alpha_age = AtMost(@ + elapsed, alpha_update_period_us)]

Risen(st) ==
  IF st.in_recovery /\ st.rate_age >= rate_increase_period_us THEN recover_rate(st) ELSE st

Decayed(st, now) ==
  IF st.alpha_age >= alpha_update_period_us
  THEN update_alpha(st, now < alpha_update_period_us) ELSE {st}

-----------------------------------------------------------------------------
(* A queue pair sends its peer a packet, a request or the answer to one. *)
post_send(e, q) ==
  /\ q \in live_qps[e]
  /\ wire' = [wire EXCEPT ![Peer(e)] = @ \cup {[cnp |-> FALSE, dest_qp |-> Dest[e, q]]}]
  /\ UNCHANGED <<live_qps, flow_states, cnp_timers, current_time_us, cnps>>

(* Mutant of RateLimited: the timer is not looked at. *)
RateLimitedNever(e, q) == FALSE

RateLimited(e, q) == q \in cnp_timers[e] /\ 0 < cnp_timer_us

(* The CNP is made out to the number of the pair that received the packet. *)
generate_cnp(e, q, left) ==
  IF RateLimited(e, q)
  THEN wire' = [wire EXCEPT ![e] = left] /\ UNCHANGED <<cnp_timers, cnps>>
  ELSE /\ cnp_timers' = [cnp_timers EXCEPT ![e] = @ \cup {q}]
       /\ wire' = [wire EXCEPT ![e] = left, ![Peer(e)] = @ \cup {[cnp |-> TRUE, dest_qp |-> q]}]
       /\ cnps' = [cnps EXCEPT ![e][q] = AtMost(@ + 1, 2)]

handle_cnp_received(e, q) ==
  LET slowed == [decrease_rate(get_flow_state(e, q)) EXCEPT !.in_recovery = TRUE]
  IN  flow_states' = [flow_states EXCEPT ![e] =
        [n \in DOMAIN @ \cup {q} |-> IF n = q THEN slowed ELSE @[n]]]

(* Any packet for a pair that exists counts as marked, CNPs included; what  *)
(* is left on the wire is left.                                             *)
process_incoming_packet(e, p, left) ==
  /\ IF p.dest_qp \in live_qps[e]
     THEN /\ generate_cnp(e, p.dest_qp, left)
          /\ IF p.cnp THEN handle_cnp_received(e, p.dest_qp) ELSE UNCHANGED flow_states
     ELSE wire' = [wire EXCEPT ![e] = left] /\ UNCHANGED <<flow_states, cnp_timers, cnps>>
  /\ UNCHANGED <<live_qps, current_time_us>>

(* The network may deliver a packet again. *)
Deliver(e) ==
  \E p \in wire[e] : \E left \in {wire[e], wire[e] \ {p}} : process_incoming_packet(e, p, left)

DeliverLast(e) == \E p \in wire[e] : process_incoming_packet(e, p, wire[e] \ {p})

Lose(e) ==
  \E p \in wire[e] :
    /\ wire' = [wire EXCEPT ![e] = @ \ {p}]
    /\ UNCHANGED <<live_qps, flow_states, cnp_timers, current_time_us, cnps>>

advance_time(e, elapsed) ==
  LET now == AtMost(current_time_us[e] + elapsed, alpha_update_period_us)
  IN  /\ current_time_us' = [current_time_us EXCEPT ![e] = now]
      /\ \E risen \in {[q \in DOMAIN flow_states[e] |-> Risen(Older(flow_states[e][q], elapsed))]} :
         \E next \in [DOMAIN risen -> UNION {Decayed(risen[q], now) : q \in DOMAIN risen}] :
           /\ \A q \in DOMAIN risen : next[q] \in Decayed(risen[q], now)
           /\ flow_states' = [flow_states EXCEPT ![e] = next]
      /\ UNCHANGED <<live_qps, cnp_timers, wire, cnps>>

(* clear_flow_state, when a pair is destroyed. *)
engine_destroy_qp(e, q) ==
  /\ q \in live_qps[e]
  /\ live_qps' = [live_qps EXCEPT ![e] = @ \ {q}]
  /\ flow_states' = [flow_states EXCEPT ![e] =
       [n \in DOMAIN @ \ {q} |-> @[n]]]
  /\ cnp_timers' = [cnp_timers EXCEPT ![e] = @ \ {q}]
  /\ cnps' = [cnps EXCEPT ![e][q] = 0]
  /\ UNCHANGED <<current_time_us, wire>>

(* The engine is reset, and the driver creates the same pairs again; what   *)
(* was queued for sending and is dropped is lost (Lose).                    *)
reset(e) ==
  /\ live_qps' = [live_qps EXCEPT ![e] = Numbers]
  /\ flow_states' = [flow_states EXCEPT ![e] = [q \in {} |-> 0]]
  /\ cnp_timers' = [cnp_timers EXCEPT ![e] = {}]
  /\ current_time_us' = [current_time_us EXCEPT ![e] = 0]
  /\ cnps' = [cnps EXCEPT ![e] = [q \in Numbers |-> 0]]
  /\ UNCHANGED wire

CongestionNext ==
  \E e \in Engines :
    \/ \E q \in Numbers : post_send(e, q) \/ engine_destroy_qp(e, q)
    \/ Deliver(e)
    \/ Lose(e)
    \/ \E elapsed \in Elapsed : advance_time(e, elapsed)
    \/ reset(e)

CongestionSpec == CongestionInit /\ [][CongestionNext]_congestionVars

(* Time passes on both sides, and the network is done with a packet at last. *)
FairCongestionSpec ==
  /\ CongestionSpec
  /\ \A e \in Engines : /\ WF_congestionVars(\E elapsed \in Elapsed : advance_time(e, elapsed))
                        /\ WF_congestionVars(DeliverLast(e))

-----------------------------------------------------------------------------
Flows == [current_rate_mbps : min_rate_mbps..initial_rate_mbps,
          target_rate_mbps : min_rate_mbps..initial_rate_mbps,
          alpha : 0..AlphaUnit, in_recovery : BOOLEAN,
          rate_age : 0..rate_increase_period_us, alpha_age : 0..alpha_update_period_us]

(* Rates stay between the minimum and the initial rate and alpha between 0  *)
(* and 1, whatever CNPs and timers do to a flow; only pairs that exist have *)
(* a flow or a CNP timer.                                                   *)
RatesBounded ==
  \A e \in Engines :
    /\ live_qps[e] \subseteq Numbers /\ wire[e] \subseteq Packets
    /\ DOMAIN flow_states[e] \cup cnp_timers[e] \subseteq live_qps[e]
    /\ \A q \in DOMAIN flow_states[e] : flow_states[e][q] \in Flows

(* A flow that is not recovering sends at the initial rate: no sequence of  *)
(* decreases and increases leaves it slow without recovery.                 *)
SlowedFlowsRecover ==
  \A e \in Engines : \A q \in DOMAIN flow_states[e] :
    flow_states[e][q].in_recovery \/ flow_states[e][q].current_rate_mbps = initial_rate_mbps

(* The engine sends one CNP for a queue pair between its creation and its   *)
(* end: generate_cnp is given time 0 for every packet.                      *)
OneCnpPerQp == \A e \in Engines, q \in Numbers : cnps[e][q] <= 1

(* CNPs do not feed on each other: a CNP counts as a marked packet itself,  *)
(* so each could be answered by another from the other side; yet when no    *)
(* more requests come and no engine is reset (which forgets its CNP         *)
(* timers), the wire falls silent, whatever the network repeated.           *)
CnpsDieOut ==
  \/ []<>(\E e \in Engines : \E p \in wire[e] : ~p.cnp)
  \/ []<><<\E e \in Engines : ~(cnp_timers[e] \subseteq cnp_timers'[e])>>_cnp_timers
  \/ <>[](\A e \in Engines : wire[e] = {})

Slow(e, q) == q \in DOMAIN flow_states[e] /\ flow_states[e][q].in_recovery

(* A slowed flow comes back to the initial rate, unless another CNP is on   *)
(* its way to it: the rounding of averages never stops it.  The increment   *)
(* of recover_rate must not itself round to 0 (initial_rate_mbps is at      *)
(* least GainUnit), or the target never rises.                              *)
RateComesBack ==
  \A e \in Engines, q \in Numbers :
    Slow(e, q) ~> (~Slow(e, q) \/ [cnp |-> TRUE, dest_qp |-> q] \in wire[e])
=============================================================================
