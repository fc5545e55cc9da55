---------------------------- MODULE FlowControl ----------------------------
(***************************************************************************)
(* Flow control of a port (src/src/flow_control.cpp): the pause frames of  *)
(* a congested port and the timers of the peer that honours them, the      *)
(* monitor of a queue that does not drain, and the low-power states of an  *)
(* idle link.                                                              *)
(*                                                                         *)
(* FlowControlManager and PFCManager do the same, one for the whole link   *)
(* and one for each priority: Classic is the link's place beside           *)
(* Priorities.  The port announces, the peer honours; in the code every    *)
(* manager has both roles, which share nothing.  The queue depths, the     *)
(* clock and the wire between the ports are external.                      *)
(***************************************************************************)
EXTENDS Integers, Sequences

CONSTANTS Priorities, Classic,
          Announces, Honours,     \* where either side has pausing enabled
          pause_threshold, default_pause_time,   \* of each class
          resume_threshold,                      \* of Classic
          Depths,                 \* queue depths reported
          hol_timeout_quanta,
          idle_threshold_quanta, wake_time_quanta, sleep_time_quanta,
          Quanta,                 \* what one call reports as elapsed
          QuantaModulus,          \* 2^16 in the code
          MaxFrames               \* bound on the frames under way

Classes == Priorities \cup {Classic}

ASSUME FlowControlAssumption ==
  /\ Classic \notin Priorities /\ Announces \subseteq Classes /\ Honours \subseteq Classes
  /\ QuantaModulus \in Nat \ {0} /\ Quanta \subseteq 1..(QuantaModulus - 1)
  /\ pause_threshold \in [Classes -> Nat] /\ resume_threshold \in Nat
  /\ default_pause_time \in [Classes -> 0..(QuantaModulus - 1)]
  /\ Depths \subseteq Nat
  /\ {hol_timeout_quanta, idle_threshold_quanta, wake_time_quanta, sleep_time_quanta}
       \subseteq 0..(QuantaModulus - 1)

VARIABLES pause_sent,     \* of the port, per class
          link,           \* frames under way to the peer
          pause_timer,    \* of the peer, per class
          current_depth, previous_depth, quanta_since_drain, hol_blocked,
          stalled,        \* ghost: quanta since the queue last drained
          state, idle_timer, transition_timer,
          idle            \* ghost: idle quanta since the last traffic

pauseVars   == <<pause_sent, link, pause_timer>>
monitorVars == <<current_depth, previous_depth, quanta_since_drain, hol_blocked, stalled>>
powerVars   == <<state, idle_timer, transition_timer, idle>>
vars == <<pauseVars, monitorVars, powerVars>>

Init ==
  /\ pause_sent = [c \in Classes |-> FALSE] /\ link = <<>>
  /\ pause_timer = [c \in Classes |-> 0]
  /\ current_depth = 0 /\ previous_depth = 0 /\ quanta_since_drain = 0
  /\ hol_blocked = FALSE /\ stalled = 0
  /\ state = "Active" /\ idle_timer = 0 /\ transition_timer = 0 /\ idle = 0

(* The ghosts saturate: beyond the limit nothing distinguishes them. *)
UpTo(n, limit) == IF n < limit THEN n ELSE limit

-----------------------------------------------------------------------------
(* The port announces that a class is congested, or no longer is. *)

Rising(c, depth) == depth >= pause_threshold[c] /\ ~pause_sent[c]

ResumeBelow(c) == IF c = Classic THEN resume_threshold ELSE pause_threshold[c] \div 2

Falling(c, depth) == depth < ResumeBelow(c) /\ pause_sent[c]

(* Frames on the wire: the classes a frame is about, and their times. *)

PauseFrame(time) ==
  [opcode |-> "Pause", enabled_priorities |-> {Classic}, pause_times |-> [c \in {Classic} |-> time]]

(* Mutant of PFCFrame: only the classes that pause are in the bitmap. *)
PFCFramePausing(times) ==
  [opcode |-> "PFC", enabled_priorities |-> {c \in DOMAIN times : times[c] > 0},
   pause_times |-> [c \in Priorities |-> IF c \in DOMAIN times THEN times[c] ELSE 0]]

PFCFrame(times) ==
  [opcode |-> "PFC", enabled_priorities |-> DOMAIN times,
   pause_times |-> [c \in Priorities |-> IF c \in DOMAIN times THEN times[c] ELSE 0]]

(* Of the classes S the port announces, those that became congested or      *)
(* recovered, and what it asks of each.                                     *)
Changed(S, depths) == {c \in S \cap Announces : Rising(c, depths[c]) \/ Falling(c, depths[c])}

Asked(c, depth) == IF Rising(c, depth) THEN default_pause_time[c] ELSE 0

Announce(about, frame) ==
  /\ about # {}
  /\ Len(link) < MaxFrames
  /\ pause_sent' = [c \in Classes |-> IF c \in about THEN ~pause_sent[c] ELSE pause_sent[c]]
  /\ link' = Append(link, frame)
  /\ UNCHANGED <<pause_timer, monitorVars, powerVars>>

generate_pause_frame(depth) ==
  Announce(Changed({Classic}, [c \in {Classic} |-> depth]), PauseFrame(Asked(Classic, depth)))

(* One frame is about every priority that changed. *)
generate_pfc_frame(depths) ==
  LET about == Changed(Priorities, depths)
  IN  Announce(about, PFCFrame([c \in about |-> Asked(c, depths[c])]))

(* Mutant of Obeyed: the configuration is not looked at. *)
ObeyedAll(frame) ==
  [c \in Classes |-> IF c \in frame.enabled_priorities THEN frame.pause_times[c] ELSE pause_timer[c]]

(* Each class named that the peer honours gets its new time, a resume's 0   *)
(* included.                                                                *)
Obeyed(frame) ==
  [c \in Classes |-> IF c \in Honours \cap frame.enabled_priorities
                     THEN frame.pause_times[c] ELSE pause_timer[c]]

(* Frames arrive in order and reach the manager of their opcode. *)
Receive(opcode) ==
  /\ link # <<>> /\ Head(link).opcode = opcode
  /\ pause_timer' = Obeyed(Head(link))
  /\ link' = Tail(link)
  /\ UNCHANGED <<pause_sent, monitorVars, powerVars>>

on_pause_frame_received == Receive("Pause")

on_pfc_frame_received == Receive("PFC")

(* Mutant of Ticked: the timer passes zero. *)
TickedWraps(timer, quanta) == IF timer > 0 THEN (timer - quanta) % QuantaModulus ELSE 0

Ticked(timer, quanta) == IF quanta >= timer THEN 0 ELSE timer - quanta

-----------------------------------------------------------------------------
(* The queue monitor. *)

(* Mutant of update_queue_depth: a drain clears the flag and not the time. *)
update_queue_depthKeepsTime(depth) ==
  /\ previous_depth' = current_depth /\ current_depth' = depth
  /\ IF depth < current_depth
     THEN hol_blocked' = FALSE /\ stalled' = 0 /\ UNCHANGED quanta_since_drain
     ELSE UNCHANGED <<quanta_since_drain, hol_blocked, stalled>>
  /\ UNCHANGED <<pauseVars, powerVars>>

update_queue_depth(depth) ==
  /\ previous_depth' = current_depth /\ current_depth' = depth
  /\ IF depth < current_depth
     THEN quanta_since_drain' = 0 /\ hol_blocked' = FALSE /\ stalled' = 0
     ELSE UNCHANGED <<quanta_since_drain, hol_blocked, stalled>>
  /\ UNCHANGED <<pauseVars, powerVars>>

monitor_tick(quanta) ==
  LET since == (quanta_since_drain + quanta) % QuantaModulus
  IN  /\ IF current_depth >= previous_depth /\ current_depth > 0
         THEN /\ quanta_since_drain' = since
              /\ hol_blocked' = (hol_blocked \/ since >= hol_timeout_quanta)
         ELSE UNCHANGED <<quanta_since_drain, hol_blocked>>
      /\ stalled' = IF current_depth = 0 THEN 0 ELSE UpTo(stalled + quanta, hol_timeout_quanta)
      /\ UNCHANGED <<current_depth, previous_depth>>

-----------------------------------------------------------------------------
(* Energy-efficient Ethernet. *)

(* Entering Active restarts the idle timer; every change the transition's. *)
transition_to(new_state, idle_now) ==
  /\ state' = new_state
  /\ transition_timer' = 0
  /\ idle_timer' = IF new_state = "Active" THEN 0 ELSE idle_now

(* Mutant of on_traffic_activity: a sleep under way is not cancelled. *)
on_traffic_activityLate ==
  /\ idle' = 0
  /\ IF state = "LPI" THEN transition_to("WakeTransit", 0)
     ELSE idle_timer' = 0 /\ UNCHANGED <<state, transition_timer>>
  /\ UNCHANGED <<pauseVars, monitorVars>>

on_traffic_activity ==
  /\ idle' = 0
  /\ CASE state = "LPI"          -> transition_to("WakeTransit", 0)
       [] state = "SleepTransit" -> transition_to("Active", 0)
       [] OTHER -> idle_timer' = 0 /\ UNCHANGED <<state, transition_timer>>
  /\ UNCHANGED <<pauseVars, monitorVars>>

on_idle_period(quanta) ==
  LET idle_now == (idle_timer + quanta) % QuantaModulus
  IN  /\ state = "Active"
      /\ idle' = UpTo(idle + quanta, idle_threshold_quanta)
      /\ IF idle_now >= idle_threshold_quanta THEN transition_to("SleepTransit", idle_now)
         ELSE idle_timer' = idle_now /\ UNCHANGED <<state, transition_timer>>
      /\ UNCHANGED <<pauseVars, monitorVars>>

(* Mutant of Transit: the time of a tick replaces the time spent. *)
TransitForgets(quanta, limit, new_state) ==
  IF quanta >= limit THEN transition_to(new_state, idle_timer)
  ELSE transition_timer' = quanta /\ UNCHANGED <<state, idle_timer>>

(* A transition ends when its time is up. *)
Transit(quanta, limit, new_state) ==
  LET spent == (transition_timer + quanta) % QuantaModulus
  IN  IF spent >= limit THEN transition_to(new_state, idle_timer)
      ELSE transition_timer' = spent /\ UNCHANGED <<state, idle_timer>>

power_tick(quanta) ==
  /\ CASE state = "WakeTransit"  -> Transit(quanta, wake_time_quanta, "Active")
       [] state = "SleepTransit" -> Transit(quanta, sleep_time_quanta, "LPI")
       [] OTHER -> UNCHANGED <<state, idle_timer, transition_timer>>
  /\ UNCHANGED idle

-----------------------------------------------------------------------------
(* One clock drives the tick of every manager. *)
tick(quanta) ==
  /\ pause_timer' = [c \in Classes |-> Ticked(pause_timer[c], quanta)]
  /\ monitor_tick(quanta)
  /\ power_tick(quanta)
  /\ UNCHANGED <<pause_sent, link>>

Next ==
  \/ \E depth \in Depths : generate_pause_frame(depth) \/ update_queue_depth(depth)
  \/ \E depths \in [Priorities -> Depths] : generate_pfc_frame(depths)
  \/ on_pause_frame_received
  \/ on_pfc_frame_received
  \/ on_traffic_activity
  \/ \E quanta \in Quanta : on_idle_period(quanta) \/ tick(quanta)

Spec == Init /\ [][Next]_vars

(* Time passes. *)
FairSpec == Spec /\ WF_vars(\E quanta \in Quanta : tick(quanta))

-----------------------------------------------------------------------------
Times == 0..(QuantaModulus - 1)

(* The variables have their types; a peer's timer runs only for a class it  *)
(* honours and never longer than the port asks for.                         *)
TypeOK ==
  /\ pause_sent \in [Classes -> BOOLEAN]
  /\ \A c \in Classes : pause_timer[c] \in 0..(IF c \in Honours THEN default_pause_time[c] ELSE 0)
  /\ {current_depth, previous_depth} \subseteq Depths \cup {0}
  /\ {quanta_since_drain, idle_timer, transition_timer} \subseteq Times
  /\ hol_blocked \in BOOLEAN
  /\ state \in {"Active", "LPI", "WakeTransit", "SleepTransit"}

(* A port that has announced the end of a congestion, and whose frames have *)
(* all arrived, holds nobody back: pauses and resumes alternate per class,  *)
(* also when one frame is about several.                                    *)
ResumedPeerSends ==
  \A c \in Classes :
    (~pause_sent[c] /\ \A i \in DOMAIN link : c \notin link[i].enabled_priorities)
      => pause_timer[c] = 0

(* Head-of-line blocking is reported only of a queue that is not empty and  *)
(* has not drained for the whole timeout (BackpressureMonitor), also where  *)
(* the 16-bit time since the last drain wraps.                              *)
HolMeansStalled == hol_blocked => current_depth > 0 /\ stalled >= hol_timeout_quanta

(* The link sleeps only after the whole idle threshold without traffic, and *)
(* traffic in the middle of a transition counts (EEEManager).               *)
SleepsOnlyWhenIdle == state \in {"SleepTransit", "LPI"} => idle >= idle_threshold_quanta

(* While time passes every pause ends, however the port announces, and a    *)
(* link that wakes becomes active.  Only the 16-bit time of the transition  *)
(* stands in the way: a link that wakes for ever is one whose ticks take    *)
(* this time past its width over and over, from below the wake time to      *)
(* below it.                                                                *)
LinkComesBack ==
  /\ \A c \in Classes : pause_timer[c] > 0 ~> pause_timer[c] = 0
  /\ <>[](state = "WakeTransit") => []<><<transition_timer' < transition_timer>>_transition_timer
=============================================================================
