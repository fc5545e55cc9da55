----------------------------- MODULE LinkProofs -----------------------------
(***************************************************************************)
(* The protocols that slow a sender down and let it go again, for any      *)
(* thresholds, times and rates: pause frames, the queue monitor and the    *)
(* low-power states of a port (FlowControl), and congestion notification   *)
(* between two engines (CongestionControl).  And the tables of an engine,  *)
(* for any limits, depths, regions and address width (RdmaResources):      *)
(* references between them stay intact, numbers are never those of         *)
(* something that left traces behind, and a remote access is let through   *)
(* exactly when a region grants it.                                        *)
(***************************************************************************)
EXTENDS FlowControl, CongestionControl, RdmaResources, TLAPS

(* Leaves are for Zenon; the ones with arithmetic, sequences or records in   *)
(* them name SMT.                                                           *)
USE Zenon

-----------------------------------------------------------------------------
(* FlowControl: the pause frames. *)

About(c, i) == c \in link[i].enabled_priorities

Frames == [opcode : {"Pause", "PFC"}, enabled_priorities : SUBSET Classes,
           pause_times : [{Classic} -> Times] \cup [Priorities -> Times]]

(* What a frame under way asks for is within what the port may ask. *)
FrameOK(frame) ==
  frame \in Frames
    /\ \A c \in frame.enabled_priorities : frame.pause_times[c] \in 0..default_pause_time[c]

(* The last frame under way about a class that is not paused is a resume;   *)
(* where there is none, the peer's timer does not run.                      *)
Released(c) ==
  \/ \E i \in 1..Len(link) : /\ About(c, i) /\ link[i].pause_times[c] = 0
                             /\ \A j \in 1..Len(link) : j > i => ~About(c, j)
  \/ (\A i \in 1..Len(link) : ~About(c, i)) /\ pause_timer[c] = 0

PauseInv ==
  /\ pause_sent \in [Classes -> BOOLEAN]
  /\ pause_timer \in [Classes -> Nat]
  /\ \A c \in Classes : pause_timer[c] \in 0..(IF c \in Honours THEN default_pause_time[c] ELSE 0)
  /\ link \in Seq(Frames) /\ \A i \in 1..Len(link) : FrameOK(link[i])
  /\ \A c \in Classes : ~pause_sent[c] => Released(c)

(* A class that changes from paused to not paused is asked for no time. *)
LEMMA Toggled ==
  ASSUME PauseInv, NEW c \in Classes, NEW S, NEW depths, c \in Changed(S, depths)
  PROVE  /\ Asked(c, depths[c]) \in 0..default_pause_time[c]
         /\ default_pause_time[c] \in Times
         /\ pause_sent[c] => Asked(c, depths[c]) = 0
<1>1. default_pause_time[c] \in Times
  BY FlowControlAssumption DEF Times
<1> QED
  BY SMT, <1>1, FlowControlAssumption DEF Asked, Rising, Times

(* A frame that asks each class it is about for what it is to be asked for  *)
(* leaves a resume behind every pause that ends.                            *)
LEMMA AnnounceStep ==
  ASSUME PauseInv, NEW about \in SUBSET Classes, NEW frame, Announce(about, frame), FrameOK(frame),
         frame.enabled_priorities = about,
         \A c \in about : pause_sent[c] => frame.pause_times[c] = 0
  PROVE  PauseInv'
<1>1. /\ pause_sent' = [c \in Classes |-> IF c \in about THEN ~pause_sent[c] ELSE pause_sent[c]]
      /\ link' = Append(link, frame) /\ pause_timer' = pause_timer
  BY DEF Announce
<1>2. pause_sent' \in [Classes -> BOOLEAN]
  BY <1>1, Zenon DEF PauseInv
<1>3. /\ link \in Seq(Frames) /\ frame \in Frames /\ link' \in Seq(Frames) /\ Len(link') = Len(link) + 1
      /\ \A i \in 1..Len(link) : link'[i] = link[i]
      /\ link'[Len(link) + 1] = frame
  BY SMT, <1>1 DEF PauseInv, FrameOK
<1>4. \A i \in 1..Len(link') : FrameOK(link'[i])
  BY SMT, <1>3 DEF PauseInv
<1>5. ASSUME NEW c \in Classes, ~pause_sent'[c] PROVE Released(c)'
  <2>1. CASE c \in about
    <3>1. pause_sent[c]
      BY <1>1, <1>5, <2>1, Zenon
    <3> QED
      BY SMT, <1>3, <2>1, <3>1 DEF Released, About
  <2>2. CASE c \notin about
    <3>1. ~pause_sent[c]
      BY <1>1, <1>5, <2>2
    <3>2. Released(c)
      BY <3>1 DEF PauseInv
    <3> QED
      BY SMT, <1>1, <1>3, <2>2, <3>2 DEF Released, About
  <2> QED
    BY <2>1, <2>2
<1> QED
  BY <1>1, <1>2, <1>3, <1>4, <1>5 DEF PauseInv

(* Both kinds of frames do. *)
LEMMA GenerateStep ==
  ASSUME PauseInv,
         \/ \E depth \in Depths : generate_pause_frame(depth)
         \/ \E depths \in [Priorities -> Depths] : generate_pfc_frame(depths)
  PROVE  PauseInv'
<1>1. ASSUME NEW depth \in Depths, generate_pause_frame(depth) PROVE PauseInv'
  <2>1. PICK depths, about, frame :
          /\ depths = [c \in {Classic} |-> depth]
          /\ about = Changed({Classic}, depths)
          /\ frame = PauseFrame(Asked(Classic, depth))
    OBVIOUS
  <2>2. Announce(about, frame)
    BY <1>1, <2>1 DEF generate_pause_frame
  <2>3. about = {Classic} /\ Classic \in Classes /\ depths[Classic] = depth
    BY <2>1, <2>2 DEF Announce, Changed, Classes
  <2>4. /\ Asked(Classic, depth) \in 0..default_pause_time[Classic]
        /\ default_pause_time[Classic] \in Times
        /\ pause_sent[Classic] => Asked(Classic, depth) = 0
    BY <2>1, <2>3, Toggled
  <2>5. Asked(Classic, depth) \in Times
    BY SMT, <2>4, FlowControlAssumption DEF Times
  <2>6. FrameOK(frame)
    BY <2>1, <2>3, <2>4, <2>5 DEF FrameOK, Frames, PauseFrame
  <2>7. frame.enabled_priorities = about /\ frame.pause_times[Classic] = Asked(Classic, depth)
    BY <2>1, <2>3 DEF PauseFrame
  <2> QED
    BY <2>2, <2>3, <2>4, <2>6, <2>7, AnnounceStep
<1>2. ASSUME NEW depths \in [Priorities -> Depths], generate_pfc_frame(depths) PROVE PauseInv'
  <2>1. PICK about, times, frame :
          /\ about = Changed(Priorities, depths)
          /\ times = [c \in about |-> Asked(c, depths[c])]
          /\ frame = PFCFrame(times)
    OBVIOUS
  <2>2. Announce(about, frame)
    BY <1>2, <2>1 DEF generate_pfc_frame
  <2>3. about \subseteq Priorities /\ Priorities \subseteq Classes /\ DOMAIN times = about
    BY <2>1 DEF Changed, Classes
  <2>4. \A c \in about : /\ times[c] \in 0..default_pause_time[c]
                         /\ default_pause_time[c] \in Times
                         /\ pause_sent[c] => times[c] = 0
    BY <2>1, <2>3, Toggled
  <2>5. \A c \in about : times[c] \in Times
    BY SMT, <2>4, FlowControlAssumption DEF Times
  <2>6. 0 \in Times
    BY SMT, FlowControlAssumption DEF Times
  <2>7. PICK asked : asked = [c \in Priorities |-> IF c \in about THEN times[c] ELSE 0]
    OBVIOUS
  <2>8. asked \in [Priorities -> Times] /\ \A c \in about : asked[c] = times[c]
    BY <2>3, <2>5, <2>6, <2>7
  <2>9. frame = [opcode |-> "PFC", enabled_priorities |-> about, pause_times |-> asked]
    BY <2>1, <2>3, <2>7 DEF PFCFrame
  <2>10. /\ frame \in Frames
         /\ frame.enabled_priorities = about /\ \A c \in about : frame.pause_times[c] = times[c]
    BY <2>3, <2>8, <2>9 DEF Frames
  <2>11. FrameOK(frame)
    BY <2>4, <2>10 DEF FrameOK
  <2> QED
    BY <2>2, <2>3, <2>4, <2>10, <2>11, AnnounceStep
<1> QED
  BY <1>1, <1>2

(* A frame that arrives sets the timers of the classes the peer honours; if *)
(* it was the last about a class, the class has been told to go on.         *)
LEMMA ReceiveStep ==
  ASSUME PauseInv, NEW opcode, Receive(opcode)
  PROVE  PauseInv'
<1>1. /\ link # <<>> /\ link' = Tail(link) /\ pause_sent' = pause_sent
      /\ pause_timer' = Obeyed(link[1])
  BY SMT DEF Receive, PauseInv
<1>2. /\ link \in Seq(Frames) /\ Len(link) > 0 /\ link' \in Seq(Frames) /\ Len(link') = Len(link) - 1
      /\ \A i \in 1..Len(link') : link'[i] = link[i + 1]
      /\ Len(link) \in Nat
  BY SMT, <1>1 DEF PauseInv
<1>3. FrameOK(link[1])
  BY SMT, <1>2 DEF PauseInv
<1>4. \A c \in Classes : default_pause_time[c] \in Nat
  BY SMT, FlowControlAssumption
<1>5. \A c \in Classes :
        pause_timer'[c] = IF c \in Honours /\ About(c, 1) THEN link[1].pause_times[c] ELSE pause_timer[c]
  BY <1>1 DEF Obeyed, About
<1>6. /\ pause_timer' \in [Classes -> Nat]
      /\ \A c \in Classes : pause_timer'[c] \in 0..(IF c \in Honours THEN default_pause_time[c] ELSE 0)
  <2>1. \A c \in Classes : pause_timer'[c] \in 0..(IF c \in Honours THEN default_pause_time[c] ELSE 0)
    BY <1>3, <1>5 DEF FrameOK, PauseInv, About
  <2>2. \A c \in Classes : pause_timer'[c] \in Nat
    BY SMT, <1>4, <2>1
  <2> QED
    BY <1>1, <2>1, <2>2 DEF Obeyed
<1>7. ASSUME NEW c \in Classes, ~pause_sent'[c] PROVE Released(c)'
  <2>1. Released(c)
    BY <1>1, <1>7 DEF PauseInv
  <2>2. CASE (\A i \in 1..Len(link) : ~About(c, i)) /\ pause_timer[c] = 0
    <3>1. 1 \in 1..Len(link) /\ \A i \in 1..Len(link') : i + 1 \in 1..Len(link)
      BY SMT, <1>2
    <3>2. \A i \in 1..Len(link') : ~About(c, i)'
      BY <1>2, <2>2, <3>1 DEF About
    <3>3. pause_timer'[c] = 0
      BY <1>5, <2>2, <3>1
    <3> QED
      BY <3>2, <3>3 DEF Released
  <2>3. ASSUME NEW i \in 1..Len(link), About(c, i), link[i].pause_times[c] = 0,
               \A j \in 1..Len(link) : j > i => ~About(c, j)
        PROVE  Released(c)'
    <3>1. CASE i = 1
      <4>1. pause_timer'[c] = 0
        <5>1. CASE c \in Honours
          BY <1>5, <2>3, <3>1, <5>1
        <5>2. CASE c \notin Honours
          BY SMT, <1>5, <5>2 DEF PauseInv
        <5> QED
          BY <5>1, <5>2
      <4>2. \A j \in 1..Len(link') : ~About(c, j)'
        BY SMTT(20), <1>2, <2>3, <3>1 DEF About
      <4> QED
        BY <4>1, <4>2 DEF Released
    <3>2. CASE i > 1
      <4>1. i - 1 \in 1..Len(link') /\ link'[i - 1] = link[i]
        BY SMT, <1>2, <3>2
      <4>2. \A j \in 1..Len(link') : j > i - 1 => ~About(c, j)'
        BY SMT, <1>2, <2>3, <3>2 DEF About
      <4> QED
        BY <2>3, <4>1, <4>2 DEF Released, About
    <3> QED
      BY SMT, <3>1, <3>2
  <2> QED
    BY <2>1, <2>2, <2>3 DEF Released
<1>8. \A i \in 1..Len(link') : FrameOK(link'[i])
  BY SMT, <1>2 DEF PauseInv
<1> QED
  BY <1>1, <1>2, <1>6, <1>7, <1>8 DEF PauseInv

(* Time only shortens what a timer has left. *)
LEMMA TimersStep ==
  ASSUME PauseInv, NEW quanta \in Quanta,
         pause_timer' = [c \in Classes |-> Ticked(pause_timer[c], quanta)],
         UNCHANGED <<pause_sent, link>>
  PROVE  PauseInv'
<1>1. quanta \in Nat
  BY SMT, FlowControlAssumption
<1>2. \A c \in Classes : /\ pause_timer[c] \in Nat /\ pause_timer'[c] \in Nat
                         /\ pause_timer'[c] <= pause_timer[c]
  BY SMT, <1>1 DEF PauseInv, Ticked
<1>3. /\ pause_timer' \in [Classes -> Nat]
      /\ \A c \in Classes : pause_timer'[c] \in 0..(IF c \in Honours THEN default_pause_time[c] ELSE 0)
  <2>1. \A c \in Classes : default_pause_time[c] \in Nat
    BY SMT, FlowControlAssumption
  <2> QED
    BY SMT, <1>2, <2>1 DEF PauseInv
<1>4. \A c \in Classes : Released(c) => Released(c)'
  BY SMT, <1>2 DEF Released, About
<1> QED
  BY <1>3, <1>4 DEF PauseInv

-----------------------------------------------------------------------------
(* FlowControl: the queue monitor and the low-power states. *)

(* The time the monitor counts, 16 bits of it, is never more than the queue *)
(* has really been standing, and an empty queue starts from nothing.        *)
MonitorInv ==
  /\ current_depth \in Depths \cup {0} /\ previous_depth \in Depths \cup {0}
  /\ quanta_since_drain \in Times /\ hol_blocked \in BOOLEAN
  /\ stalled \in 0..hol_timeout_quanta
  /\ UpTo(quanta_since_drain, hol_timeout_quanta) <= stalled
  /\ current_depth = 0 => quanta_since_drain = 0
  /\ HolMeansStalled

(* So is the time the link counts as idle. *)
PowerInv ==
  /\ state \in {"Active", "LPI", "WakeTransit", "SleepTransit"}
  /\ idle_timer \in Times /\ transition_timer \in Times
  /\ idle \in 0..idle_threshold_quanta
  /\ state = "Active" => UpTo(idle_timer, idle_threshold_quanta) <= idle
  /\ SleepsOnlyWhenIdle

(* The limits are times. *)
LEMMA Limits ==
  /\ Times \subseteq Nat /\ 0 \in Times
  /\ hol_timeout_quanta \in Nat /\ idle_threshold_quanta \in Nat
  /\ Depths \cup {0} \subseteq Nat
BY SMT, FlowControlAssumption DEF Times

(* A time that wraps is at most what was added up. *)
LEMMA Wrapped ==
  ASSUME NEW t \in Times, NEW quanta \in Quanta
  PROVE  /\ quanta \in Nat /\ t \in Nat
         /\ (t + quanta) % QuantaModulus \in Times
         /\ (t + quanta) % QuantaModulus <= t + quanta
<1>1. QuantaModulus \in Nat /\ QuantaModulus > 0 /\ quanta \in Nat /\ t \in Nat
  BY SMT, FlowControlAssumption DEF Times
<1>2. ASSUME NEW n \in Nat PROVE n % QuantaModulus \in Times /\ n % QuantaModulus <= n
  BY SMT, <1>1 DEF Times
<1> QED
  BY SMT, <1>1, <1>2

(* A queue reported shorter than before has drained. *)
LEMMA DepthStep ==
  ASSUME MonitorInv, NEW depth \in Depths, update_queue_depth(depth)
  PROVE  MonitorInv'
<1>1. /\ depth \in Nat /\ current_depth \in Nat
      /\ hol_timeout_quanta \in Nat /\ 0 \in Times /\ quanta_since_drain \in Nat
  BY Limits DEF MonitorInv
<1>2. CASE depth < current_depth
  <2>1. /\ previous_depth' = current_depth /\ current_depth' = depth
        /\ quanta_since_drain' = 0 /\ hol_blocked' = FALSE /\ stalled' = 0
    BY <1>2 DEF update_queue_depth
  <2>2. hol_blocked' \in BOOLEAN /\ ~hol_blocked'
    BY <2>1, Zenon
  <2> QED
    BY SMT, <1>1, <2>1, <2>2 DEF MonitorInv, HolMeansStalled, UpTo
<1>3. CASE ~(depth < current_depth)
  BY SMT, <1>1, <1>3 DEF update_queue_depth, MonitorInv, HolMeansStalled, UpTo
<1> QED
  BY <1>2, <1>3

(* The monitor counts only while the queue stands. *)
LEMMA MonitorStep ==
  ASSUME MonitorInv, NEW quanta \in Quanta, monitor_tick(quanta)
  PROVE  MonitorInv'
<1>1. PICK since : since = (quanta_since_drain + quanta) % QuantaModulus
  OBVIOUS
<1>2. /\ current_depth \in Nat /\ previous_depth \in Nat /\ hol_timeout_quanta \in Nat
      /\ quanta \in Nat /\ quanta_since_drain \in Nat /\ since \in Times /\ since \in Nat
      /\ since <= quanta_since_drain + quanta
  BY <1>1, Wrapped, Limits DEF MonitorInv
<1>3. /\ current_depth' = current_depth /\ previous_depth' = previous_depth
      /\ stalled' = IF current_depth = 0 THEN 0 ELSE UpTo(stalled + quanta, hol_timeout_quanta)
  BY DEF monitor_tick
<1>4. stalled' \in 0..hol_timeout_quanta /\ (current_depth > 0 => stalled' >= stalled)
  BY SMT, <1>2, <1>3 DEF MonitorInv, UpTo
<1>5. CASE current_depth >= previous_depth /\ current_depth > 0
  <2>1. PICK due \in BOOLEAN : due <=> since >= hol_timeout_quanta
    BY Zenon
  <2>2. quanta_since_drain' = since /\ hol_blocked' = (hol_blocked \/ due)
    BY <1>1, <1>5, <2>1 DEF monitor_tick
  <2>3. hol_blocked' \in BOOLEAN
    BY <2>2, Zenon DEF MonitorInv
  <2>4. UpTo(since, hol_timeout_quanta) <= stalled'
    BY SMT, <1>2, <1>3, <1>5 DEF MonitorInv, UpTo
  <2>5. hol_blocked' => hol_blocked \/ since >= hol_timeout_quanta
    BY <2>1, <2>2 DEF MonitorInv
  <2>6. HolMeansStalled'
    BY SMT, <1>2, <1>3, <1>4, <1>5, <2>4, <2>5 DEF MonitorInv, HolMeansStalled, UpTo
  <2> QED
    BY SMT, <1>2, <1>3, <1>4, <1>5, <2>2, <2>3, <2>4, <2>6 DEF MonitorInv
<1>6. CASE ~(current_depth >= previous_depth /\ current_depth > 0)
  <2>1. UNCHANGED <<quanta_since_drain, hol_blocked>>
    BY <1>6 DEF monitor_tick
  <2> QED
    BY SMT, <1>2, <1>3, <1>4, <2>1 DEF MonitorInv, HolMeansStalled, UpTo
<1> QED
  BY <1>5, <1>6

(* Traffic wakes the link, or keeps it from falling asleep. *)
LEMMA TrafficStep == ASSUME PowerInv, on_traffic_activity PROVE PowerInv'
<1>1. idle_threshold_quanta \in Nat /\ 0 \in Times
  BY SMT, FlowControlAssumption DEF Times
<1>2. idle' = 0
  BY DEF on_traffic_activity
<1>3. /\ idle_timer' = 0 /\ transition_timer' \in Times
      /\ state' \in {"Active", "WakeTransit"}
  BY <1>1 DEF on_traffic_activity, transition_to, PowerInv
<1> QED
  BY SMT, <1>1, <1>2, <1>3 DEF PowerInv, SleepsOnlyWhenIdle, UpTo

(* An idle link falls asleep when it was idle for long enough. *)
LEMMA IdleStep ==
  ASSUME PowerInv, NEW quanta \in Quanta, on_idle_period(quanta)
  PROVE  PowerInv'
<1>1. PICK idle_now : idle_now = (idle_timer + quanta) % QuantaModulus
  OBVIOUS
<1>2. /\ idle_threshold_quanta \in Nat /\ 0 \in Times /\ quanta \in Nat /\ idle_timer \in Nat
      /\ idle_now \in Times /\ idle_now \in Nat /\ idle_now <= idle_timer + quanta
  BY <1>1, Wrapped, Limits DEF PowerInv
<1>3. /\ state = "Active" /\ idle' = UpTo(idle + quanta, idle_threshold_quanta)
      /\ IF idle_now >= idle_threshold_quanta THEN transition_to("SleepTransit", idle_now)
         ELSE idle_timer' = idle_now /\ UNCHANGED <<state, transition_timer>>
  BY <1>1 DEF on_idle_period
<1>4. idle' \in 0..idle_threshold_quanta /\ UpTo(idle_now, idle_threshold_quanta) <= idle'
  BY SMT, <1>2, <1>3 DEF PowerInv, UpTo
<1> QED
  BY SMT, <1>2, <1>3, <1>4 DEF PowerInv, SleepsOnlyWhenIdle, UpTo, transition_to

(* Transitions end in time. *)
LEMMA PowerStep ==
  ASSUME PowerInv, NEW quanta \in Quanta, power_tick(quanta)
  PROVE  PowerInv'
<1>1. PICK spent : spent = (transition_timer + quanta) % QuantaModulus
  OBVIOUS
<1>2. idle_threshold_quanta \in Nat /\ 0 \in Times /\ spent \in Times
  BY <1>1, Wrapped, Limits DEF PowerInv
<1>3. idle' = idle
  BY DEF power_tick
<1>4. CASE state = "WakeTransit"
  <2>1. Transit(quanta, wake_time_quanta, "Active")
    BY <1>4 DEF power_tick
  <2> QED
    BY SMT, <1>1, <1>2, <1>3, <1>4, <2>1 DEF Transit, transition_to, PowerInv, SleepsOnlyWhenIdle, UpTo
<1>5. CASE state = "SleepTransit"
  <2>1. Transit(quanta, sleep_time_quanta, "LPI")
    BY <1>5 DEF power_tick
  <2> QED
    BY <1>1, <1>2, <1>3, <1>5, <2>1 DEF Transit, transition_to, PowerInv, SleepsOnlyWhenIdle
<1>6. CASE state \notin {"WakeTransit", "SleepTransit"}
  <2>1. UNCHANGED <<state, idle_timer, transition_timer>>
    BY <1>6 DEF power_tick
  <2> QED
    BY <1>3, <2>1 DEF PowerInv, SleepsOnlyWhenIdle, UpTo
<1> QED
  BY <1>4, <1>5, <1>6

-----------------------------------------------------------------------------
(* FlowControl: the managers of a port share a clock and nothing else. *)
FlowInv == PauseInv /\ MonitorInv /\ PowerInv

(* The invariants of the three hold when the port comes up. *)
LEMMA FlowInit == Init => FlowInv
<1> SUFFICES ASSUME Init PROVE FlowInv
  OBVIOUS
<1>1. PauseInv
  <2>1. pause_sent \in [Classes -> BOOLEAN]
    BY Zenon DEF Init
  <2>2. link \in Seq(Frames) /\ Len(link) = 0 /\ \A c \in Classes : pause_timer[c] = 0
    BY SMT DEF Init
  <2>3. \A c \in Classes : default_pause_time[c] \in Nat
    BY SMT, FlowControlAssumption
  <2> QED
    BY SMT, <2>1, <2>2, <2>3 DEF Init, PauseInv, Released
<1>2. MonitorInv
  <2>1. hol_blocked \in BOOLEAN /\ ~hol_blocked
    BY Zenon DEF Init
  <2> QED
    BY SMT, <2>1, Limits DEF Init, MonitorInv, HolMeansStalled, UpTo
<1>3. PowerInv
  BY SMT, Limits DEF Init, PowerInv, SleepsOnlyWhenIdle, UpTo
<1> QED
  BY <1>1, <1>2, <1>3 DEF FlowInv

(* Each call preserves the invariant of its manager and leaves the others   *)
(* alone; a tick reaches all three.                                         *)
LEMMA FlowStep == ASSUME FlowInv, [Next]_vars PROVE FlowInv'
<1>0. PauseInv /\ MonitorInv /\ PowerInv
  BY DEF FlowInv
<1>1. ASSUME UNCHANGED pauseVars PROVE PauseInv'
  BY <1>0, <1>1 DEF pauseVars, PauseInv, Released, About
<1>2. ASSUME UNCHANGED monitorVars PROVE MonitorInv'
  BY <1>0, <1>2 DEF monitorVars, MonitorInv, HolMeansStalled
<1>3. ASSUME UNCHANGED powerVars PROVE PowerInv'
  BY <1>0, <1>3 DEF powerVars, PowerInv, SleepsOnlyWhenIdle
<1>4. CASE \/ \E depth \in Depths : generate_pause_frame(depth)
           \/ \E depths \in [Priorities -> Depths] : generate_pfc_frame(depths)
  <2>1. UNCHANGED <<monitorVars, powerVars>>
    BY <1>4 DEF generate_pause_frame, generate_pfc_frame, Announce
  <2> QED
    BY <1>0, <1>2, <1>3, <1>4, <2>1, GenerateStep DEF FlowInv
<1>5. CASE on_pause_frame_received \/ on_pfc_frame_received
  <2>1. PICK opcode : Receive(opcode)
    BY <1>5 DEF on_pause_frame_received, on_pfc_frame_received
  <2>2. UNCHANGED <<monitorVars, powerVars>>
    BY <2>1 DEF Receive
  <2> QED
    BY <1>0, <1>2, <1>3, <2>1, <2>2, ReceiveStep DEF FlowInv
<1>6. CASE \E depth \in Depths : update_queue_depth(depth)
  <2>1. UNCHANGED <<pauseVars, powerVars>>
    BY <1>6 DEF update_queue_depth
  <2> QED
    BY <1>0, <1>1, <1>3, <1>6, <2>1, DepthStep DEF FlowInv
<1>7. CASE on_traffic_activity
  <2>1. UNCHANGED <<pauseVars, monitorVars>>
    BY <1>7 DEF on_traffic_activity
  <2> QED
    BY <1>0, <1>1, <1>2, <1>7, <2>1, TrafficStep DEF FlowInv
<1>8. CASE \E quanta \in Quanta : on_idle_period(quanta)
  <2>1. UNCHANGED <<pauseVars, monitorVars>>
    BY <1>8 DEF on_idle_period
  <2> QED
    BY <1>0, <1>1, <1>2, <1>8, <2>1, IdleStep DEF FlowInv
<1>9. CASE \E quanta \in Quanta : tick(quanta)
  BY <1>0, <1>9, TimersStep, MonitorStep, PowerStep DEF FlowInv, tick
<1>10. CASE UNCHANGED vars
  BY <1>1, <1>2, <1>3, <1>10 DEF vars, FlowInv
<1> QED
  BY <1>4, <1>5, <1>6, <1>7, <1>8, <1>9, <1>10 DEF Next

(* The invariant holds in every reachable state. *)
LEMMA FlowInvariance == Spec => []FlowInv
<1>1. FlowInv /\ [Next]_vars => FlowInv'
  BY FlowStep
<1> QED
  BY <1>1, FlowInit, PTL DEF Spec

(* For any thresholds and times, a peer is paused only in classes it        *)
(* honours and never longer than the port asks for.                         *)
THEOREM PausesBounded == Spec => []TypeOK
<1>1. FlowInv => TypeOK
  BY DEF FlowInv, PauseInv, MonitorInv, PowerInv, TypeOK
<1> QED
  BY <1>1, FlowInvariance, PTL

(* For any interleaving of pauses and resumes, of the link or of several    *)
(* priorities in one frame, a port that is no longer congested and whose    *)
(* frames have arrived holds nobody back.                                   *)
THEOREM ResumeTheorem == Spec => []ResumedPeerSends
<1>1. FlowInv => ResumedPeerSends
  <2> SUFFICES ASSUME FlowInv, NEW c \in Classes, ~pause_sent[c],
                      \A i \in DOMAIN link : c \notin link[i].enabled_priorities
               PROVE  pause_timer[c] = 0
    BY DEF ResumedPeerSends
  <2>1. Released(c) /\ link \in Seq(Frames)
    BY DEF FlowInv, PauseInv
  <2> QED
    BY SMT, <2>1 DEF Released, About
<1> QED
  BY <1>1, FlowInvariance, PTL

(* Head-of-line blocking is never reported of a queue that drained within   *)
(* the timeout, for any timeout and any width of the counter.               *)
THEOREM HolTheorem == Spec => []HolMeansStalled
<1>1. FlowInv => HolMeansStalled
  BY DEF FlowInv, MonitorInv
<1> QED
  BY <1>1, FlowInvariance, PTL

(* The link never sleeps before the whole idle threshold has passed without *)
(* traffic, for any threshold and transition times.                         *)
THEOREM SleepTheorem == Spec => []SleepsOnlyWhenIdle
<1>1. FlowInv => SleepsOnlyWhenIdle
  BY DEF FlowInv, PowerInv
<1> QED
  BY <1>1, FlowInvariance, PTL

-----------------------------------------------------------------------------
(* CongestionControl: the arithmetic of rates. *)

(* A product of natural numbers is one. *)
LEMMA Products == ASSUME NEW x \in Nat, NEW y \in Nat PROVE x * y \in Nat
BY SMT

(* So is a quotient, and it is rounded down. *)
LEMMA Quotients ==
  ASSUME NEW x \in Nat, NEW d \in Nat \ {0}
  PROVE  x \div d \in Nat /\ d * (x \div d) <= x
BY SMT

(* A share of at most one of a rate is at most the rate. *)
LEMMA Share ==
  ASSUME NEW x \in Nat, NEW d \in Nat \ {0}, NEW m \in 0..d
  PROVE  (x * m) \div d \in 0..x
<1>1. x * m \in Nat /\ x * m <= x * d
  BY SMT
<1>2. PICK k \in Nat : k = (x * m) \div d /\ d * k <= x * m
  BY <1>1, Quotients
<1>3. d * k <= d * x
  BY SMT, <1>1, <1>2
<1>4. k <= x
  BY SMT, <1>3
<1> QED
  BY SMT, <1>2, <1>4

(* The limits of a flow. *)
LEMMA FlowLimits ==
  /\ initial_rate_mbps \in Nat /\ min_rate_mbps \in Nat /\ min_rate_mbps <= initial_rate_mbps
  /\ AlphaUnit \in Nat \ {0} /\ GainUnit \in Nat \ {0}
  /\ rate_increase_period_us \in Nat /\ alpha_update_period_us \in Nat
BY SMT, CongestionAssumption

Recovering(st) == st.in_recovery \/ st.current_rate_mbps = initial_rate_mbps

(* A flow is made in bounds, and slowed within them. *)
LEMMA DecreaseBounds ==
  /\ NewFlow \in Flows
  /\ \A st \in Flows : [decrease_rate(st) EXCEPT !.in_recovery = TRUE] \in Flows
  /\ \A st \in Flows : Recovering([decrease_rate(st) EXCEPT !.in_recovery = TRUE])
<1>0. PICK yes \in BOOLEAN, no \in BOOLEAN : yes = TRUE /\ no = FALSE
  BY Zenon
<1>1. NewFlow \in Flows
  <2>1. NewFlow = [current_rate_mbps |-> initial_rate_mbps, target_rate_mbps |-> initial_rate_mbps,
                   alpha |-> AlphaUnit, in_recovery |-> no, rate_age |-> 0, alpha_age |-> 0]
    BY <1>0 DEF NewFlow
  <2> QED
    BY SMT, <2>1, FlowLimits DEF Flows
<1>2. ASSUME NEW st \in Flows
      PROVE  /\ [decrease_rate(st) EXCEPT !.in_recovery = TRUE] \in Flows
             /\ Recovering([decrease_rate(st) EXCEPT !.in_recovery = TRUE])
  <2>1. PICK part : part = (st.current_rate_mbps * (2 * AlphaUnit - st.alpha)) \div (2 * AlphaUnit)
    OBVIOUS
  <2>2. PICK rate : rate = AtLeast(part, min_rate_mbps)
    OBVIOUS
  <2>3. /\ st.current_rate_mbps \in Nat /\ st.current_rate_mbps <= initial_rate_mbps
        /\ 2 * AlphaUnit \in Nat \ {0} /\ 2 * AlphaUnit - st.alpha \in 0..(2 * AlphaUnit)
    BY SMT, FlowLimits DEF Flows
  <2>4. part \in 0..st.current_rate_mbps
    BY <2>1, <2>3, Share
  <2>5. rate \in min_rate_mbps..initial_rate_mbps
    BY SMT, <2>2, <2>3, <2>4, FlowLimits DEF AtLeast
  <2>6. PICK slow : slow = [st EXCEPT !.current_rate_mbps = rate, !.target_rate_mbps = rate]
    OBVIOUS
  <2>7. slow = decrease_rate(st)
    BY <2>1, <2>2, <2>6 DEF decrease_rate
  <2>8. slow \in Flows
    BY <2>5, <2>6 DEF Flows
  <2>9. PICK new : new = [slow EXCEPT !.in_recovery = yes]
    OBVIOUS
  <2>10. new \in Flows /\ new.in_recovery = yes
    BY <2>8, <2>9 DEF Flows
  <2> QED
    BY <1>0, <2>7, <2>9, <2>10 DEF Recovering
<1> QED
  BY <1>1, <1>2

(* A flow rises within its bounds, and recovery ends only at the top. *)
LEMMA RiseBounds ==
  ASSUME NEW st \in Flows, Recovering(st)
  PROVE  Risen(st) \in Flows /\ Recovering(Risen(st))
<1>1. PICK target : target = AtMost(st.target_rate_mbps + initial_rate_mbps \div GainUnit, initial_rate_mbps)
  OBVIOUS
<1>2. PICK rate : rate = (st.current_rate_mbps + target + 1) \div 2
  OBVIOUS
<1>3. PICK new : new = AtMost(rate, initial_rate_mbps)
  OBVIOUS
<1>4. PICK more : more = (rate < initial_rate_mbps)
  OBVIOUS
<1>5. /\ st.current_rate_mbps \in min_rate_mbps..initial_rate_mbps
      /\ st.target_rate_mbps \in min_rate_mbps..initial_rate_mbps
      /\ initial_rate_mbps \div GainUnit \in Nat
  BY FlowLimits, Quotients DEF Flows
<1>6. target \in min_rate_mbps..initial_rate_mbps
  BY SMT, <1>1, <1>5, FlowLimits DEF AtMost
<1>7. rate \in Nat /\ rate >= min_rate_mbps
  BY SMT, <1>2, <1>5, <1>6, FlowLimits
<1>8. new \in min_rate_mbps..initial_rate_mbps /\ (rate >= initial_rate_mbps => new = initial_rate_mbps)
  BY SMT, <1>3, <1>7, FlowLimits DEF AtMost
<1>9. PICK risen : risen = [st EXCEPT !.target_rate_mbps = target, !.current_rate_mbps = new,
                                      !.in_recovery = more, !.rate_age = 0]
  OBVIOUS
<1>10. risen = recover_rate(st)
  BY <1>1, <1>2, <1>3, <1>4, <1>9, Zenon DEF recover_rate
<1>11. risen = [current_rate_mbps |-> new, target_rate_mbps |-> target, alpha |-> st.alpha,
                in_recovery |-> more, rate_age |-> 0, alpha_age |-> st.alpha_age]
  BY <1>9 DEF Flows
<1>12. more \in BOOLEAN
  <2>1. (rate < initial_rate_mbps) \in BOOLEAN
    BY SMT, <1>7, FlowLimits
  <2> QED
    BY <1>4, <2>1, Zenon
<1>13. more \/ new = initial_rate_mbps
  <2>1. CASE rate < initial_rate_mbps
    BY <1>4, <2>1, Zenon
  <2>2. CASE rate >= initial_rate_mbps
    BY <1>8, <2>2
  <2> QED
    BY SMT, <1>7, <2>1, <2>2, FlowLimits
<1>14. risen \in Flows /\ Recovering(risen)
  BY SMT, <1>6, <1>8, <1>11, <1>12, <1>13, FlowLimits DEF Flows, Recovering
<1> QED
  BY <1>10, <1>14 DEF Risen

(* Growing older only touches ages. *)
LEMMA AgeBounds ==
  ASSUME NEW st \in Flows, Recovering(st), NEW elapsed \in Nat
  PROVE  Older(st, elapsed) \in Flows /\ Recovering(Older(st, elapsed))
<1>1. PICK rate_age, alpha_age :
        /\ rate_age = AtMost(st.rate_age + elapsed, rate_increase_period_us)
        /\ alpha_age = AtMost(st.alpha_age + elapsed, alpha_update_period_us)
  OBVIOUS
<1>2. rate_age \in 0..rate_increase_period_us /\ alpha_age \in 0..alpha_update_period_us
  BY SMT, <1>1, FlowLimits DEF AtMost, Flows
<1>3. PICK older : older = [st EXCEPT !.rate_age = rate_age, !.alpha_age = alpha_age]
  OBVIOUS
<1>4. older = Older(st, elapsed)
  BY <1>1, <1>3 DEF Older
<1>5. /\ older \in Flows /\ older.in_recovery = st.in_recovery
      /\ older.current_rate_mbps = st.current_rate_mbps
  BY <1>2, <1>3 DEF Flows
<1> QED
  BY <1>4, <1>5 DEF Recovering

(* An update of alpha, rounded either way, keeps it between 0 and 1. *)
LEMMA AlphaBounds ==
  ASSUME NEW st \in Flows, Recovering(st), NEW now, NEW new \in Decayed(st, now)
  PROVE  new \in Flows /\ Recovering(new)
<1>1. CASE new = st
  BY <1>1
<1>2. CASE new \in update_alpha(st, now < alpha_update_period_us)
  <2>1. PICK sum : sum = (GainUnit - 1) * st.alpha
                         + (IF now < alpha_update_period_us THEN AlphaUnit ELSE 0)
    OBVIOUS
  <2>2. PICK a \in {sum \div GainUnit, (sum + GainUnit - 1) \div GainUnit} :
          new = [st EXCEPT !.alpha = AtMost(a, AlphaUnit), !.alpha_age = 0]
    BY <1>2, <2>1 DEF update_alpha
  <2>3. sum \in Nat
    <3>1. GainUnit - 1 \in Nat /\ st.alpha \in Nat /\ AlphaUnit \in Nat
      BY SMT, FlowLimits DEF Flows
    <3>2. (GainUnit - 1) * st.alpha \in Nat
      BY <3>1, Products
    <3> QED
      BY SMT, <2>1, <3>1, <3>2
  <2>4. a \in Nat
    <3>1. sum + GainUnit - 1 \in Nat
      BY SMT, <2>3, FlowLimits
    <3> QED
      BY <2>2, <2>3, <3>1, FlowLimits, Quotients
  <2>5. PICK alpha \in 0..AlphaUnit : alpha = AtMost(a, AlphaUnit)
    BY SMT, <2>4, FlowLimits DEF AtMost
  <2>6. new = [current_rate_mbps |-> st.current_rate_mbps, target_rate_mbps |-> st.target_rate_mbps,
               alpha |-> alpha, in_recovery |-> st.in_recovery, rate_age |-> st.rate_age, alpha_age |-> 0]
    BY <2>2, <2>5 DEF Flows
  <2> QED
    BY SMT, <2>6, FlowLimits DEF Flows, Recovering
<1> QED
  BY <1>1, <1>2 DEF Decayed

-----------------------------------------------------------------------------
(* CongestionControl: the tables of the two engines. *)

(* The tables are about pairs that exist, and flows are in bounds. *)
FlowsInv ==
  /\ live_qps \in [Engines -> SUBSET Numbers] /\ wire \in [Engines -> SUBSET Packets]
  /\ cnp_timers \in [Engines -> SUBSET Numbers]
  /\ DOMAIN flow_states = Engines
  /\ \A e \in Engines :
       /\ DOMAIN flow_states[e] \subseteq live_qps[e] /\ cnp_timers[e] \subseteq live_qps[e]
       /\ \A q \in DOMAIN flow_states[e] :
            flow_states[e][q] \in Flows /\ Recovering(flow_states[e][q])

(* An entry of cnp_timers_ stands for the one CNP of its pair. *)
CnpInv ==
  /\ cnps \in [Engines -> [Numbers -> Nat]]
  /\ \A e \in Engines, q \in Numbers : cnps[e][q] <= IF q \in cnp_timers[e] THEN 1 ELSE 0

(* Each engine has the other for a peer. *)
LEMMA Peers == ASSUME NEW e \in Engines PROVE Peer(e) \in Engines /\ Peer(e) # e
BY SMT, CongestionAssumption DEF Peer

(* A CNP that is sent is on the way and in the table. *)
LEMMA CnpStep ==
  ASSUME FlowsInv, NEW e \in Engines, NEW q \in live_qps[e], NEW left \in SUBSET wire[e],
         generate_cnp(e, q, left)
  PROVE  /\ wire' \in [Engines -> SUBSET Packets]
         /\ cnp_timers' \in [Engines -> SUBSET Numbers]
         /\ \A f \in Engines : cnp_timers[f] \subseteq live_qps[f] => cnp_timers'[f] \subseteq live_qps[f]
         /\ cnp_timer_us > 0 /\ CnpInv => CnpInv'
<1>0. /\ q \in Numbers /\ Peer(e) \in Engines /\ Peer(e) # e /\ left \subseteq Packets
      /\ wire \in [Engines -> SUBSET Packets] /\ cnp_timers \in [Engines -> SUBSET Numbers]
  BY Peers DEF FlowsInv
<1>1. CASE RateLimited(e, q)
  <2>1. wire' = [wire EXCEPT ![e] = left] /\ UNCHANGED <<cnp_timers, cnps>>
    BY <1>1 DEF generate_cnp
  <2> QED
    BY <1>0, <2>1 DEF CnpInv
<1>2. CASE ~RateLimited(e, q)
  <2>1. /\ cnp_timers' = [cnp_timers EXCEPT ![e] = @ \cup {q}]
        /\ wire' = [wire EXCEPT ![e] = left, ![Peer(e)] = @ \cup {[cnp |-> TRUE, dest_qp |-> q]}]
        /\ cnps' = [cnps EXCEPT ![e][q] = AtMost(@ + 1, 2)]
    BY <1>2 DEF generate_cnp
  <2>2. [cnp |-> TRUE, dest_qp |-> q] \in Packets
    BY <1>0, Zenon DEF Packets
  <2>3. wire' \in [Engines -> SUBSET Packets]
    <3>1. PICK p \in Packets : p = [cnp |-> TRUE, dest_qp |-> q]
      BY <2>2
    <3>2. wire' = [wire EXCEPT ![e] = left, ![Peer(e)] = @ \cup {p}]
      BY <2>1, <3>1
    <3> QED
      BY <1>0, <3>2
  <2>4. cnp_timers' \in [Engines -> SUBSET Numbers]
    BY <1>0, <2>1
  <2>5. \A f \in Engines : cnp_timers[f] \subseteq live_qps[f] => cnp_timers'[f] \subseteq live_qps[f]
    BY <1>0, <2>1
  <2>6. ASSUME cnp_timer_us > 0, CnpInv PROVE CnpInv'
    <3>1. q \notin cnp_timers[e]
      BY <1>2, <2>6 DEF RateLimited
    <3>2. cnps[e][q] = 0 /\ cnps \in [Engines -> [Numbers -> Nat]]
      BY SMT, <1>0, <2>6, <3>1 DEF CnpInv
    <3>3. cnps' = [cnps EXCEPT ![e] = [cnps[e] EXCEPT ![q] = 1]]
      BY SMT, <1>0, <2>1, <3>2 DEF AtMost
    <3>4. cnps' \in [Engines -> [Numbers -> Nat]]
      BY <1>0, <3>2, <3>3
    <3>5. \A f \in Engines, n \in Numbers : cnps'[f][n] = IF f = e /\ n = q THEN 1 ELSE cnps[f][n]
      BY <1>0, <3>2, <3>3
    <3>6. \A f \in Engines, n \in Numbers :
            n \in cnp_timers'[f] <=> n \in cnp_timers[f] \/ (f = e /\ n = q)
      BY <1>0, <2>1
    <3> QED
      BY SMT, <2>6, <3>4, <3>5, <3>6 DEF CnpInv
  <2> QED
    BY <2>3, <2>4, <2>5, <2>6
<1> QED
  BY <1>1, <1>2

(* A packet that is processed may leave a CNP and slow a flow. *)
LEMMA PacketStep ==
  ASSUME FlowsInv, NEW e \in Engines, Deliver(e)
  PROVE  FlowsInv' /\ (cnp_timer_us > 0 /\ CnpInv => CnpInv')
<1>1. PICK p \in wire[e] : \E left \in SUBSET wire[e] :
        /\ IF p.dest_qp \in live_qps[e]
           THEN /\ generate_cnp(e, p.dest_qp, left)
                /\ IF p.cnp THEN handle_cnp_received(e, p.dest_qp) ELSE UNCHANGED flow_states
           ELSE wire' = [wire EXCEPT ![e] = left] /\ UNCHANGED <<flow_states, cnp_timers, cnps>>
        /\ UNCHANGED <<live_qps, current_time_us>>
  BY DEF Deliver, process_incoming_packet
<1>2. PICK left \in SUBSET wire[e] :
        /\ IF p.dest_qp \in live_qps[e]
           THEN /\ generate_cnp(e, p.dest_qp, left)
                /\ IF p.cnp THEN handle_cnp_received(e, p.dest_qp) ELSE UNCHANGED flow_states
           ELSE wire' = [wire EXCEPT ![e] = left] /\ UNCHANGED <<flow_states, cnp_timers, cnps>>
        /\ live_qps' = live_qps
  BY <1>1
<1>3. CASE p.dest_qp \in live_qps[e]
  <2>1. PICK q \in live_qps[e] : q = p.dest_qp
    BY <1>3
  <2>2. /\ wire' \in [Engines -> SUBSET Packets]
        /\ cnp_timers' \in [Engines -> SUBSET Numbers]
        /\ \A f \in Engines : cnp_timers[f] \subseteq live_qps[f] => cnp_timers'[f] \subseteq live_qps[f]
        /\ cnp_timer_us > 0 /\ CnpInv => CnpInv'
    BY <1>2, <1>3, <2>1, CnpStep
  <2>3. /\ DOMAIN flow_states' = Engines
        /\ \A f \in Engines :
             /\ DOMAIN flow_states'[f] \subseteq live_qps[f]
             /\ \A n \in DOMAIN flow_states'[f] :
                  flow_states'[f][n] \in Flows /\ Recovering(flow_states'[f][n])
    <3>1. CASE UNCHANGED flow_states
      BY <3>1 DEF FlowsInv
    <3>2. CASE handle_cnp_received(e, q)
      <4>1. PICK slowed : slowed = [decrease_rate(get_flow_state(e, q)) EXCEPT !.in_recovery = TRUE]
        OBVIOUS
      <4>2. get_flow_state(e, q) \in Flows
        BY DecreaseBounds DEF get_flow_state, FlowsInv
      <4>3. slowed \in Flows /\ Recovering(slowed)
        BY <4>1, <4>2, DecreaseBounds
      <4>4. PICK flows : flows = [n \in DOMAIN flow_states[e] \cup {q} |->
                                    IF n = q THEN slowed ELSE flow_states[e][n]]
        OBVIOUS
      <4>5. flow_states' = [flow_states EXCEPT ![e] = flows]
        BY <3>2, <4>1, <4>4 DEF handle_cnp_received
      <4>6. /\ DOMAIN flows \subseteq live_qps[e]
            /\ \A n \in DOMAIN flows : flows[n] \in Flows /\ Recovering(flows[n])
        BY <4>3, <4>4 DEF FlowsInv
      <4>7. /\ DOMAIN flow_states' = Engines /\ flow_states'[e] = flows
            /\ \A f \in Engines : f # e => flow_states'[f] = flow_states[f]
        BY <4>5 DEF FlowsInv
      <4> QED
        BY <4>6, <4>7 DEF FlowsInv
    <3> QED
      BY <1>2, <1>3, <2>1, <3>1, <3>2
  <2> QED
    BY <1>2, <2>2, <2>3 DEF FlowsInv
<1>4. CASE p.dest_qp \notin live_qps[e]
  <2>1. wire' = [wire EXCEPT ![e] = left] /\ UNCHANGED <<flow_states, cnp_timers, cnps>>
    BY <1>2, <1>4
  <2> QED
    BY <1>2, <2>1 DEF FlowsInv, CnpInv
<1> QED
  BY <1>3, <1>4

(* Time lets flows rise and alphas decay. *)
LEMMA TimeStep ==
  ASSUME FlowsInv, NEW e \in Engines, NEW elapsed \in Elapsed, advance_time(e, elapsed)
  PROVE  FlowsInv' /\ (CnpInv => CnpInv')
<1> DEFINE now == AtMost(current_time_us[e] + elapsed, alpha_update_period_us)
<1>1. PICK risen \in {[q \in DOMAIN flow_states[e] |-> Risen(Older(flow_states[e][q], elapsed))]} :
        \E next \in [DOMAIN risen -> UNION {Decayed(risen[q], now) : q \in DOMAIN risen}] :
          /\ \A q \in DOMAIN risen : next[q] \in Decayed(risen[q], now)
          /\ flow_states' = [flow_states EXCEPT ![e] = next]
  BY Zenon DEF advance_time
<1> HIDE DEF now
<1>2. risen = [q \in DOMAIN flow_states[e] |-> Risen(Older(flow_states[e][q], elapsed))]
  OBVIOUS
<1>3. PICK next \in [DOMAIN risen -> UNION {Decayed(risen[q], now) : q \in DOMAIN risen}] :
        /\ \A q \in DOMAIN risen : next[q] \in Decayed(risen[q], now)
        /\ flow_states' = [flow_states EXCEPT ![e] = next]
  BY <1>1
<1>4. UNCHANGED <<live_qps, cnp_timers, wire, cnps>>
  BY DEF advance_time
<1>5. elapsed \in Nat
  BY CongestionAssumption
<1>6. \A q \in DOMAIN risen : risen[q] \in Flows /\ Recovering(risen[q])
  BY <1>2, <1>5, AgeBounds, RiseBounds DEF FlowsInv
<1>7. DOMAIN next = DOMAIN flow_states[e]
  BY <1>2, <1>3
<1>8. \A q \in DOMAIN next : next[q] \in Flows /\ Recovering(next[q])
  BY <1>3, <1>6, AlphaBounds
<1>9. /\ DOMAIN flow_states' = Engines /\ flow_states'[e] = next
      /\ \A f \in Engines : f # e => flow_states'[f] = flow_states[f]
  BY <1>3 DEF FlowsInv
<1> QED
  BY <1>4, <1>7, <1>8, <1>9 DEF FlowsInv, CnpInv

(* A pair that goes takes its flow and its CNP with it. *)
LEMMA DestroyFlowStep ==
  ASSUME FlowsInv, NEW e \in Engines, NEW q \in Numbers, engine_destroy_qp(e, q)
  PROVE  FlowsInv' /\ (CnpInv => CnpInv')
<1>1. /\ live_qps' = [live_qps EXCEPT ![e] = @ \ {q}] /\ cnp_timers' = [cnp_timers EXCEPT ![e] = @ \ {q}]
      /\ cnps' = [cnps EXCEPT ![e][q] = 0] /\ wire' = wire
  BY DEF engine_destroy_qp
<1>2. PICK flows : flows = [n \in DOMAIN flow_states[e] \ {q} |-> flow_states[e][n]]
  OBVIOUS
<1>3. flow_states' = [flow_states EXCEPT ![e] = flows]
  BY <1>2 DEF engine_destroy_qp
<1>4. /\ DOMAIN flow_states' = Engines /\ flow_states'[e] = flows
      /\ \A f \in Engines : f # e => flow_states'[f] = flow_states[f]
  BY <1>3 DEF FlowsInv
<1>5. /\ live_qps' \in [Engines -> SUBSET Numbers] /\ cnp_timers' \in [Engines -> SUBSET Numbers]
      /\ live_qps'[e] = live_qps[e] \ {q} /\ cnp_timers'[e] = cnp_timers[e] \ {q}
      /\ \A f \in Engines : f # e => live_qps'[f] = live_qps[f] /\ cnp_timers'[f] = cnp_timers[f]
  BY <1>1 DEF FlowsInv
<1>6. FlowsInv'
  BY SMT, <1>1, <1>2, <1>4, <1>5 DEF FlowsInv
<1>7. ASSUME CnpInv PROVE CnpInv'
  <2>1. cnps' \in [Engines -> [Numbers -> Nat]]
    BY <1>1, <1>7 DEF CnpInv
  <2>2. \A f \in Engines, n \in Numbers : cnps'[f][n] = IF f = e /\ n = q THEN 0 ELSE cnps[f][n]
    BY <1>1, <1>7 DEF CnpInv
  <2> QED
    BY SMT, <1>5, <1>7, <2>1, <2>2 DEF CnpInv
<1> QED
  BY <1>6, <1>7

(* A reset engine knows nothing of its flows. *)
LEMMA ResetFlowStep ==
  ASSUME FlowsInv, NEW e \in Engines, reset(e)
  PROVE  FlowsInv' /\ (CnpInv => CnpInv')
<1>1. PICK none, zero : none = [q \in {} |-> 0] /\ zero = [q \in Numbers |-> 0]
  OBVIOUS
<1>2. /\ live_qps' = [live_qps EXCEPT ![e] = Numbers] /\ flow_states' = [flow_states EXCEPT ![e] = none]
      /\ cnp_timers' = [cnp_timers EXCEPT ![e] = {}] /\ cnps' = [cnps EXCEPT ![e] = zero]
      /\ wire' = wire
  BY <1>1 DEF reset
<1>3. DOMAIN none = {} /\ zero \in [Numbers -> Nat] /\ \A q \in Numbers : zero[q] = 0
  BY <1>1
<1>4. FlowsInv'
  BY <1>2, <1>3 DEF FlowsInv
<1>5. CnpInv => CnpInv'
  BY SMT, <1>2, <1>3 DEF FlowsInv, CnpInv
<1> QED
  BY <1>4, <1>5

(* Every step of either engine or of the network preserves the invariants. *)
LEMMA CongestionStep ==
  ASSUME FlowsInv, [CongestionNext]_congestionVars
  PROVE  FlowsInv' /\ (cnp_timer_us > 0 /\ CnpInv => CnpInv')
<1>1. ASSUME NEW e \in Engines, NEW q \in Numbers, post_send(e, q)
      PROVE  FlowsInv' /\ (CnpInv => CnpInv')
  <2>1. PICK p : p = [cnp |-> FALSE, dest_qp |-> Dest[e, q]]
    OBVIOUS
  <2>2. Dest[e, q] \in Numbers
    BY CongestionAssumption
  <2>3. p \in Packets
    BY <2>1, <2>2, Zenon DEF Packets
  <2>4. wire' = [wire EXCEPT ![Peer(e)] = @ \cup {p}]
    BY <1>1, <2>1 DEF post_send
  <2>5. UNCHANGED <<live_qps, flow_states, cnp_timers, cnps>>
    BY <1>1 DEF post_send
  <2>6. Peer(e) \in Engines
    BY Peers
  <2> QED
    BY <2>3, <2>4, <2>5, <2>6 DEF FlowsInv, CnpInv
<1>2. ASSUME NEW e \in Engines, Lose(e) PROVE FlowsInv' /\ (CnpInv => CnpInv')
  BY SMT, <1>2 DEF Lose, FlowsInv, CnpInv
<1>3. CASE UNCHANGED congestionVars
  BY <1>3 DEF congestionVars, FlowsInv, CnpInv
<1> QED
  BY <1>1, <1>2, <1>3, PacketStep, TimeStep, DestroyFlowStep, ResetFlowStep DEF CongestionNext

(* At the start there are no flows and no CNPs. *)
LEMMA CongestionStart == CongestionInit => FlowsInv /\ CnpInv
BY SMT DEF CongestionInit, FlowsInv, CnpInv

(* The tables of the engines stay in order. *)
LEMMA FlowsInvariance == CongestionSpec => []FlowsInv
<1>1. FlowsInv /\ [CongestionNext]_congestionVars => FlowsInv'
  BY CongestionStep
<1> QED
  BY <1>1, CongestionStart, PTL DEF CongestionSpec

(* For any rates, gains and periods, a flow stays within its bounds and its *)
(* alpha between 0 and 1, whatever order CNPs and time come in.             *)
THEOREM RatesTheorem == CongestionSpec => []RatesBounded
<1>1. FlowsInv => RatesBounded
  BY DEF FlowsInv, RatesBounded
<1> QED
  BY <1>1, FlowsInvariance, PTL

(* For any rates, gains and periods, a flow that does not recover is at the *)
(* initial rate.                                                            *)
THEOREM RecoveryTheorem == CongestionSpec => []SlowedFlowsRecover
<1>1. FlowsInv => SlowedFlowsRecover
  BY DEF FlowsInv, SlowedFlowsRecover, Recovering
<1> QED
  BY <1>1, FlowsInvariance, PTL

(* With a CNP timer that is not zero (50 us by default) the engine sends at *)
(* most one CNP for a queue pair, however many packets and CNPs reach it,   *)
(* are lost or come again, and however much time passes: CNPs, which are    *)
(* answered like any packet, are bounded by the pairs there are.            *)
THEOREM CnpTheorem == ASSUME cnp_timer_us > 0 PROVE CongestionSpec => []OneCnpPerQp
<1>1. FlowsInv /\ CnpInv /\ [CongestionNext]_congestionVars => FlowsInv' /\ CnpInv'
  BY CongestionStep
<1>2. CnpInv => OneCnpPerQp
  <2> SUFFICES ASSUME CnpInv, NEW e \in Engines, NEW q \in Numbers PROVE cnps[e][q] <= 1
    BY DEF OneCnpPerQp
  <2>1. cnps[e][q] \in Nat /\ cnps[e][q] <= IF q \in cnp_timers[e] THEN 1 ELSE 0
    BY DEF CnpInv
  <2> QED
    BY SMT, <2>1
<1> QED
  BY <1>1, <1>2, CongestionStart, PTL DEF CongestionSpec

-----------------------------------------------------------------------------
(* RdmaResources: the tables of an engine. *)

(* The inductive invariant.  NumbersFresh is what makes the others          *)
(* inductive: a new entry of a table replaces none and is named by nothing. *)
ResourcesInv == ResourcesTypeOK /\ QpCqsExist /\ KeysAgree /\ CompletionsNameTheirQp /\ NumbersFresh

(* Every number has a successor: the tables' counters only count up. *)
LEMMA NextNumber == \A n \in Handles : n + 1 \in Handles
BY SMT DEF Handles

(* The empty tables satisfy the invariant. *)
LEMMA ClearedInv ==
  ASSUME initialized' \in BOOLEAN, Cleared, streams' = {}
  PROVE  ResourcesInv'
<1>1. /\ DOMAIN mrs_by_lkey' = {} /\ DOMAIN mrs_by_rkey' = {}
      /\ DOMAIN cqs' = {} /\ DOMAIN qps' = {}
  BY DEF Cleared, Empty
<1>2. ResourcesTypeOK'
  <2>1. initialized' \in BOOLEAN
    OBVIOUS
  <2> QED
    BY SMT, <1>1, <2>1 DEF Cleared, Empty, ResourcesTypeOK, Handles, FirstKey
<1> QED
  BY <1>1, <1>2 DEF Cleared, ResourcesInv, QpCqsExist, KeysAgree, CompletionsNameTheirQp, NumbersFresh

(* Posting a completion changes one queue, by at most one entry at its end, *)
(* and keeps it within its depth.                                           *)
LEMMA DeliverEffect ==
  ASSUME ResourcesTypeOK, NEW c \in DOMAIN cqs, NEW q \in Handles, deliver_cqe(c, q)
  PROVE  /\ DOMAIN cqs' = DOMAIN cqs
         /\ cqs' \in [DOMAIN cqs -> [depth : Nat, cqes : Seq(Handles)]]
         /\ \A d \in DOMAIN cqs : Len(cqs'[d].cqes) <= cqs'[d].depth
         /\ \A d \in DOMAIN cqs : Entries(d)' \subseteq Entries(d) \cup (IF d = c THEN {q} ELSE {})
<1>1. cqs[c].cqes \in Seq(Handles) /\ cqs[c].depth \in Nat
  BY DEF ResourcesTypeOK
<1>2. CASE Len(cqs[c].cqes) >= cqs[c].depth
  BY SMT, <1>2 DEF deliver_cqe, post, ResourcesTypeOK, Entries
<1>3. CASE Len(cqs[c].cqes) < cqs[c].depth
  <2> DEFINE s == cqs[c].cqes
  <2>1. cqs' = [cqs EXCEPT ![c].cqes = Append(s, q)]
    BY SMT, <1>1, <1>3 DEF deliver_cqe, post
  <2>2. /\ Append(s, q) \in Seq(Handles) /\ Len(Append(s, q)) = Len(s) + 1
        /\ \A i \in 1..Len(s) : Append(s, q)[i] = s[i]
        /\ Append(s, q)[Len(s) + 1] = q
    BY SMT, <1>1
  <2>3. DOMAIN Append(s, q) = 1..(Len(s) + 1) /\ DOMAIN s = 1..Len(s) /\ Len(s) \in Nat
    BY SMT, <1>1, <2>2
  <2>4. \A d \in DOMAIN cqs : d # c => cqs'[d] = cqs[d]
    BY <2>1 DEF ResourcesTypeOK
  <2>5. cqs'[c].cqes = Append(s, q) /\ cqs'[c].depth = cqs[c].depth
    BY <2>1 DEF ResourcesTypeOK
  <2>6. Entries(c)' \subseteq Entries(c) \cup {q}
    BY SMT, <2>2, <2>3, <2>5 DEF Entries
  <2>7. \A d \in DOMAIN cqs : d # c => Entries(d)' = Entries(d)
    BY <2>1, <2>4 DEF Entries
  <2>8. cqs' \in [DOMAIN cqs -> [depth : Nat, cqes : Seq(Handles)]]
    BY <2>1, <2>2 DEF ResourcesTypeOK
  <2>9. \A d \in DOMAIN cqs : Len(cqs'[d].cqes) <= cqs'[d].depth
    BY SMTT(20), <1>1, <1>3, <2>2, <2>3, <2>4, <2>5 DEF ResourcesTypeOK
  <2> QED
    BY <2>6, <2>7, <2>8, <2>9
<1> QED
  BY SMT, <1>1, <1>2, <1>3

(* Polling leaves a suffix of the queue. *)
LEMMA PollEffect ==
  ASSUME ResourcesTypeOK, NEW c \in DOMAIN cqs, poll_cq(c, 1)
  PROVE  /\ DOMAIN cqs' = DOMAIN cqs
         /\ cqs' \in [DOMAIN cqs -> [depth : Nat, cqes : Seq(Handles)]]
         /\ \A d \in DOMAIN cqs : Len(cqs'[d].cqes) <= cqs'[d].depth
         /\ \A d \in DOMAIN cqs : Entries(d)' \subseteq Entries(d)
<1> DEFINE s == cqs[c].cqes
           n == IF 1 < Len(s) THEN 1 ELSE Len(s)
           t == SubSeq(s, n + 1, Len(s))
<1>1. s \in Seq(Handles) /\ cqs[c].depth \in Nat /\ Len(s) <= cqs[c].depth /\ Len(s) \in Nat
  BY SMT DEF ResourcesTypeOK
<1>2. n \in 0..Len(s)
  BY SMT, <1>1
<1>3. cqs' = [cqs EXCEPT ![c].cqes = t]
  BY DEF poll_cq, poll
<1> HIDE DEF n
<1>4. t \in Seq(Handles) /\ Len(t) = Len(s) - n
      /\ \A i \in 1..Len(t) : t[i] = s[n + i]
  BY SMT, <1>1, <1>2
<1>5. DOMAIN t = 1..Len(t) /\ DOMAIN s = 1..Len(s)
  BY SMT, <1>1, <1>4
<1> HIDE DEF t, s
<1>6. \A d \in DOMAIN cqs : d # c => cqs'[d] = cqs[d]
  BY <1>3 DEF ResourcesTypeOK
<1>7. cqs'[c].cqes = t /\ cqs'[c].depth = cqs[c].depth /\ cqs[c].cqes = s
  BY <1>3 DEF ResourcesTypeOK, s
<1>8. Entries(c)' \subseteq Entries(c)
  <2> SUFFICES ASSUME NEW i \in DOMAIN t PROVE \E j \in DOMAIN s : t[i] = s[j]
    BY SMT, <1>7 DEF Entries
  <2>1. n + i \in DOMAIN s /\ t[i] = s[n + i]
    BY SMT, <1>1, <1>2, <1>4, <1>5
  <2> QED
    BY <2>1
<1>9. \A d \in DOMAIN cqs : d # c => Entries(d)' = Entries(d)
  BY <1>6 DEF Entries
<1>10. cqs' \in [DOMAIN cqs -> [depth : Nat, cqes : Seq(Handles)]]
  BY <1>3, <1>4 DEF ResourcesTypeOK
<1>11. \A d \in DOMAIN cqs : Len(cqs'[d].cqes) <= cqs'[d].depth
  <2>1. Len(t) <= cqs[c].depth
    BY SMT, <1>1, <1>2, <1>4
  <2>2. ASSUME NEW d \in DOMAIN cqs, d # c PROVE Len(cqs'[d].cqes) <= cqs'[d].depth
    BY <2>2, <1>6 DEF ResourcesTypeOK
  <2> QED
    BY <2>1, <2>2, <1>7
<1> QED
  BY <1>8, <1>9, <1>10, <1>11

(* Nothing but a table's own entries and numbers changes with them: one     *)
(* lemma per operation.                                                     *)
LEMMA PdStep ==
  ASSUME ResourcesInv, initialized' \in BOOLEAN, create_pd \/ \E pd \in pds : destroy_pd(pd)
  PROVE  ResourcesInv'
<1>1. /\ UNCHANGED <<mrVars, cqVars, qpVars, stateVars>>
      /\ \/ next_handle' = next_handle + 1 /\ pds' = pds \cup {next_handle}
         \/ next_handle' = next_handle /\ pds' \subseteq pds
  BY DEF create_pd, destroy_pd, allocate, deallocate
<1>2. ResourcesTypeOK'
  <2>1. pds' \subseteq Handles /\ next_handle' \in Handles
    BY <1>1, NextNumber DEF ResourcesInv, ResourcesTypeOK
  <2> QED
    BY <1>1, <2>1 DEF ResourcesInv, ResourcesTypeOK, mrVars, cqVars, qpVars, stateVars
<1>3. NumbersFresh'
  <2>1. next_handle \in Nat
    BY DEF ResourcesInv, ResourcesTypeOK, Handles
  <2>2. \A pd \in pds' : pd < next_handle'
    <3>1. \A pd \in pds : pd \in Nat /\ pd < next_handle
      BY DEF ResourcesInv, NumbersFresh, ResourcesTypeOK, Handles
    <3> QED
      BY SMT, <1>1, <2>1, <3>1
  <2>3. \A n \in Nat : n < next_handle => n < next_handle'
    BY SMT, <1>1, <2>1
  <2> QED
    BY SMT, <1>1, <2>2, <2>3
       DEF ResourcesInv, NumbersFresh, ResourcesTypeOK, Handles, Entries, mrVars, cqVars, qpVars, stateVars
<1> QED
  BY SMT, <1>1, <1>2, <1>3
     DEF ResourcesInv, QpCqsExist, KeysAgree, CompletionsNameTheirQp, Entries, mrVars, cqVars, qpVars, stateVars

(* A new region has two keys that no region had before.                     *)
LEMMA RegisterStep ==
  ASSUME ResourcesInv, initialized' \in BOOLEAN, NEW pd \in pds, NEW r \in Regions, register_mr(pd, r)
  PROVE  ResourcesInv'
<1> DEFINE mr == [rkey |-> next_key + 1, pd |-> pd, region |-> r]
<1>1. /\ mrs_by_lkey' = Put(mrs_by_lkey, next_key, mr)
      /\ mrs_by_rkey' = Put(mrs_by_rkey, next_key + 1, next_key)
      /\ next_key' = next_key + 2
      /\ UNCHANGED <<pdVars, cqVars, qpVars, stateVars>>
  BY DEF register_mr, AddRegion
<1>2. /\ next_key \in Nat /\ next_key \notin DOMAIN mrs_by_lkey
      /\ next_key + 1 \notin DOMAIN mrs_by_rkey
      /\ pd \in Handles /\ pd < next_handle
  BY SMT DEF ResourcesInv, ResourcesTypeOK, NumbersFresh
<1>3. /\ DOMAIN mrs_by_lkey' = DOMAIN mrs_by_lkey \cup {next_key}
      /\ DOMAIN mrs_by_rkey' = DOMAIN mrs_by_rkey \cup {next_key + 1}
      /\ mrs_by_lkey'[next_key] = mr /\ mrs_by_rkey'[next_key + 1] = next_key
      /\ \A k \in DOMAIN mrs_by_lkey : mrs_by_lkey'[k] = mrs_by_lkey[k]
      /\ \A k \in DOMAIN mrs_by_rkey : mrs_by_rkey'[k] = mrs_by_rkey[k]
  BY <1>1, <1>2 DEF Put
<1>4. ResourcesTypeOK'
  <2>1. mrs_by_lkey' \in [DOMAIN mrs_by_lkey' -> [rkey : Nat, pd : Handles, region : Regions]]
    BY SMT, <1>1, <1>2, <1>3 DEF ResourcesInv, ResourcesTypeOK, Put
  <2>2. mrs_by_rkey' \in [DOMAIN mrs_by_rkey' -> Nat]
    BY <1>1, <1>2, <1>3 DEF ResourcesInv, ResourcesTypeOK, Put
  <2>3. /\ DOMAIN mrs_by_lkey' \subseteq Nat /\ DOMAIN mrs_by_rkey' \subseteq Nat /\ next_key' \in Nat
    BY SMT, <1>1, <1>2, <1>3 DEF ResourcesInv, ResourcesTypeOK
  <2> QED
    BY <2>1, <2>2, <2>3, <1>1 DEF ResourcesInv, ResourcesTypeOK, pdVars, cqVars, qpVars, stateVars
<1>5. KeysAgree'
  <2>1. mr.rkey = next_key + 1
    OBVIOUS
  <2>2. \A k \in DOMAIN mrs_by_rkey' :
          mrs_by_rkey'[k] \in DOMAIN mrs_by_lkey' /\ mrs_by_lkey'[mrs_by_rkey'[k]].rkey = k
    <3> SUFFICES ASSUME NEW k \in DOMAIN mrs_by_rkey'
                 PROVE  mrs_by_rkey'[k] \in DOMAIN mrs_by_lkey' /\ mrs_by_lkey'[mrs_by_rkey'[k]].rkey = k
      OBVIOUS
    <3>1. CASE k = next_key + 1
      BY <1>3, <2>1, <3>1
    <3>2. CASE k \in DOMAIN mrs_by_rkey
      <4>1. mrs_by_rkey[k] \in DOMAIN mrs_by_lkey /\ mrs_by_lkey[mrs_by_rkey[k]].rkey = k
        BY <3>2 DEF ResourcesInv, KeysAgree
      <4> QED
        BY <1>3, <3>2, <4>1
    <3> QED
      BY <1>3, <3>1, <3>2
  <2>3. \A k \in DOMAIN mrs_by_lkey' :
          mrs_by_lkey'[k].rkey \in DOMAIN mrs_by_rkey' /\ mrs_by_rkey'[mrs_by_lkey'[k].rkey] = k
    BY <1>3, <2>1 DEF ResourcesInv, KeysAgree
  <2> QED
    BY <2>2, <2>3 DEF KeysAgree
<1>6. NumbersFresh'
  <2>1. \A k \in DOMAIN mrs_by_lkey' \cup DOMAIN mrs_by_rkey' : k < next_key'
    <3>1. \A k \in DOMAIN mrs_by_lkey \cup DOMAIN mrs_by_rkey : k \in Nat /\ k < next_key
      BY DEF ResourcesInv, ResourcesTypeOK, NumbersFresh
    <3>2. \A k \in DOMAIN mrs_by_lkey' \cup DOMAIN mrs_by_rkey' :
            k \in {next_key, next_key + 1} \/ (k \in Nat /\ k < next_key)
      BY <1>3, <3>1
    <3> QED
      BY SMT, <1>1, <1>2, <3>2
  <2>2. \A k \in DOMAIN mrs_by_lkey' : mrs_by_lkey'[k].pd < next_handle'
    BY SMT, <1>1, <1>2, <1>3 DEF ResourcesInv, NumbersFresh, pdVars
  <2>3. \A c : Entries(c)' = Entries(c)
    BY ZenonT(30), <1>1 DEF Entries, cqVars
  <2> QED
    BY <2>1, <2>2, <2>3, <1>1 DEF ResourcesInv, NumbersFresh, pdVars, cqVars, qpVars, stateVars
<1> QED
  BY SMT, <1>1, <1>4, <1>5, <1>6
     DEF ResourcesInv, QpCqsExist, CompletionsNameTheirQp, Entries, pdVars, cqVars, qpVars, stateVars

(* A region that goes takes both its keys with it.                          *)
LEMMA DeregisterStep ==
  ASSUME ResourcesInv, initialized' \in BOOLEAN, NEW k \in DOMAIN mrs_by_lkey, deregister_mr(k)
  PROVE  ResourcesInv'
<1> DEFINE rkey == mrs_by_lkey[k].rkey
<1>1. /\ mrs_by_lkey' = Without(mrs_by_lkey, k)
      /\ mrs_by_rkey' = Without(mrs_by_rkey, rkey)
      /\ UNCHANGED <<next_key, pdVars, cqVars, qpVars, stateVars>>
  BY DEF deregister_mr, RemoveRegion
<1> HIDE DEF rkey
<1>2. /\ DOMAIN mrs_by_lkey' = DOMAIN mrs_by_lkey \ {k}
      /\ DOMAIN mrs_by_rkey' = DOMAIN mrs_by_rkey \ {rkey}
      /\ \A n \in DOMAIN mrs_by_lkey' : mrs_by_lkey'[n] = mrs_by_lkey[n]
      /\ \A n \in DOMAIN mrs_by_rkey' : mrs_by_rkey'[n] = mrs_by_rkey[n]
  BY <1>1 DEF Without
<1>3. ResourcesTypeOK'
  <2>1. mrs_by_lkey' \in [DOMAIN mrs_by_lkey' -> [rkey : Nat, pd : Handles, region : Regions]]
    BY <1>1, <1>2 DEF ResourcesInv, ResourcesTypeOK, Without
  <2>2. mrs_by_rkey' \in [DOMAIN mrs_by_rkey' -> Nat]
    BY <1>1, <1>2 DEF ResourcesInv, ResourcesTypeOK, Without
  <2> QED
    BY <2>1, <2>2, <1>1, <1>2 DEF ResourcesInv, ResourcesTypeOK, pdVars, cqVars, qpVars, stateVars
<1>4. KeysAgree'
  <2>1. /\ mrs_by_lkey[k].rkey = rkey /\ mrs_by_rkey[rkey] = k
        /\ \A r \in DOMAIN mrs_by_rkey :
             mrs_by_rkey[r] \in DOMAIN mrs_by_lkey /\ mrs_by_lkey[mrs_by_rkey[r]].rkey = r
        /\ \A n \in DOMAIN mrs_by_lkey :
             mrs_by_lkey[n].rkey \in DOMAIN mrs_by_rkey /\ mrs_by_rkey[mrs_by_lkey[n].rkey] = n
    BY DEF ResourcesInv, KeysAgree, rkey
  <2>2. \A r \in DOMAIN mrs_by_rkey' :
          mrs_by_rkey'[r] \in DOMAIN mrs_by_lkey' /\ mrs_by_lkey'[mrs_by_rkey'[r]].rkey = r
    <3> SUFFICES ASSUME NEW r \in DOMAIN mrs_by_rkey'
                 PROVE  mrs_by_rkey'[r] \in DOMAIN mrs_by_lkey' /\ mrs_by_lkey'[mrs_by_rkey'[r]].rkey = r
      OBVIOUS
    <3>1. r \in DOMAIN mrs_by_rkey /\ r # rkey /\ mrs_by_rkey'[r] = mrs_by_rkey[r]
      BY <1>2
    <3>2. mrs_by_rkey[r] \in DOMAIN mrs_by_lkey' /\ mrs_by_lkey[mrs_by_rkey[r]].rkey = r
      BY <1>2, <2>1, <3>1
    <3> QED
      BY <1>2, <3>1, <3>2
  <2>3. \A n \in DOMAIN mrs_by_lkey' :
          mrs_by_lkey'[n].rkey \in DOMAIN mrs_by_rkey' /\ mrs_by_rkey'[mrs_by_lkey'[n].rkey] = n
    <3> SUFFICES ASSUME NEW n \in DOMAIN mrs_by_lkey'
                 PROVE  mrs_by_lkey'[n].rkey \in DOMAIN mrs_by_rkey' /\ mrs_by_rkey'[mrs_by_lkey'[n].rkey] = n
      OBVIOUS
    <3>1. n \in DOMAIN mrs_by_lkey /\ n # k /\ mrs_by_lkey'[n] = mrs_by_lkey[n]
      BY <1>2
    <3>2. mrs_by_lkey[n].rkey \in DOMAIN mrs_by_rkey /\ mrs_by_rkey[mrs_by_lkey[n].rkey] = n
      BY <2>1, <3>1
    <3>3. mrs_by_lkey[n].rkey # rkey
      BY <2>1, <3>1, <3>2
    <3>4. mrs_by_lkey[n].rkey \in DOMAIN mrs_by_rkey'
      BY <1>2, <3>2, <3>3
    <3> QED
      BY <1>2, <3>1, <3>2, <3>4
  <2> QED
    BY <2>2, <2>3 DEF KeysAgree
<1>5. NumbersFresh'
  BY SMT, <1>1, <1>2 DEF ResourcesInv, NumbersFresh, Entries, pdVars, cqVars, qpVars, stateVars
<1> QED
  BY SMT, <1>1, <1>3, <1>4, <1>5
     DEF ResourcesInv, QpCqsExist, CompletionsNameTheirQp, Entries, pdVars, cqVars, qpVars, stateVars

(* A new completion queue is empty and has a number no pair names.          *)
LEMMA CreateCqStep ==
  ASSUME ResourcesInv, initialized' \in BOOLEAN, NEW d \in CqDepths, create_cq(d)
  PROVE  ResourcesInv'
<1>0. PICK c, cq : c = next_cq_number /\ cq = [depth |-> d, cqes |-> <<>>]
  OBVIOUS
<1>1. /\ cqs' = Put(cqs, c, cq) /\ next_cq_number' = c + 1
      /\ UNCHANGED <<pdVars, mrVars, qpVars, stateVars>>
  BY <1>0 DEF create_cq
<1>2. c \in Handles /\ c \notin DOMAIN cqs /\ cq \in [depth : Nat, cqes : Seq(Handles)]
  BY SMT, <1>0, DepthsAssumption DEF ResourcesInv, ResourcesTypeOK, NumbersFresh, Handles
<1>3. /\ DOMAIN cqs' = DOMAIN cqs \cup {c} /\ cqs'[c] = cq
      /\ \A n \in DOMAIN cqs : cqs'[n] = cqs[n]
  BY <1>1, <1>2 DEF Put
<1>4. Entries(c)' = {} /\ \A n \in DOMAIN cqs : Entries(n)' = Entries(n)
  BY SMT, <1>0, <1>3 DEF Entries
<1>5. ResourcesTypeOK'
  <2>1. cqs' \in [DOMAIN cqs' -> [depth : Nat, cqes : Seq(Handles)]]
    BY <1>1, <1>2, <1>3 DEF ResourcesInv, ResourcesTypeOK, Put
  <2>2. \A n \in DOMAIN cqs' : Len(cqs'[n].cqes) <= cqs'[n].depth
    BY SMT, <1>0, <1>3, DepthsAssumption DEF ResourcesInv, ResourcesTypeOK
  <2>3. DOMAIN cqs' \subseteq Handles /\ next_cq_number' \in Handles
    BY <1>1, <1>2, <1>3, NextNumber DEF ResourcesInv, ResourcesTypeOK
  <2> QED
    BY <2>1, <2>2, <2>3, <1>1 DEF ResourcesInv, ResourcesTypeOK, pdVars, mrVars, qpVars, stateVars
<1>6. NumbersFresh'
  <2>1. \A n \in DOMAIN cqs' : n < next_cq_number'
    <3>1. c \in Nat /\ next_cq_number' = c + 1
      BY <1>1, <1>2 DEF Handles
    <3>2. \A n \in DOMAIN cqs : n \in Nat /\ n < c
      BY <1>0 DEF ResourcesInv, ResourcesTypeOK, NumbersFresh, Handles
    <3> QED
      BY SMT, <1>3, <3>1, <3>2
  <2>2. \A n \in DOMAIN cqs' : \A q \in Entries(n)' : q < next_qp_number'
    BY ZenonT(30), <1>1, <1>3, <1>4 DEF ResourcesInv, NumbersFresh, qpVars
  <2> QED
    BY <2>1, <2>2, <1>1 DEF ResourcesInv, NumbersFresh, pdVars, mrVars, qpVars, stateVars
<1>7. CompletionsNameTheirQp'
  BY SMTT(20), <1>1, <1>3, <1>4 DEF ResourcesInv, CompletionsNameTheirQp, qpVars
<1> QED
  BY SMT, <1>1, <1>3, <1>5, <1>6, <1>7
     DEF ResourcesInv, QpCqsExist, KeysAgree, pdVars, mrVars, qpVars, stateVars

(* A completion queue that goes is one no pair completes to.                *)
LEMMA DestroyCqStep ==
  ASSUME ResourcesInv, initialized' \in BOOLEAN, NEW c \in DOMAIN cqs, destroy_cq(c)
  PROVE  ResourcesInv'
<1>1. /\ cqs' = Without(cqs, c)
      /\ \A q \in DOMAIN qps : c # qps[q].send_cq /\ c # qps[q].recv_cq
      /\ UNCHANGED <<next_cq_number, pdVars, mrVars, qpVars, stateVars>>
  BY DEF destroy_cq
<1>2. /\ DOMAIN cqs' = DOMAIN cqs \ {c}
      /\ \A n \in DOMAIN cqs' : cqs'[n] = cqs[n]
  BY <1>1 DEF Without
<1>3. \A n \in DOMAIN cqs' : Entries(n)' = Entries(n)
  BY <1>2 DEF Entries
<1>4. ResourcesTypeOK'
  <2>1. cqs' \in [DOMAIN cqs' -> [depth : Nat, cqes : Seq(Handles)]]
    BY <1>1, <1>2 DEF ResourcesInv, ResourcesTypeOK, Without
  <2> QED
    BY <2>1, <1>1, <1>2 DEF ResourcesInv, ResourcesTypeOK, pdVars, mrVars, qpVars, stateVars
<1>5. NumbersFresh'
  BY <1>1, <1>2, <1>3 DEF ResourcesInv, NumbersFresh, pdVars, mrVars, qpVars, stateVars
<1>6. QpCqsExist'
  BY SMT, <1>1, <1>2 DEF ResourcesInv, QpCqsExist, qpVars
<1> QED
  BY SMT, <1>1, <1>2, <1>3, <1>4, <1>5, <1>6
     DEF ResourcesInv, CompletionsNameTheirQp, KeysAgree, pdVars, mrVars, qpVars, stateVars

(* A step that changes the contents of completion queues: what is new in a  *)
(* queue names a pair it belongs to, and the processors' state is of pairs  *)
(* that exist.                                                              *)
LEMMA QueueStep ==
  ASSUME ResourcesInv, initialized' \in BOOLEAN,
         DOMAIN cqs' = DOMAIN cqs,
         cqs' \in [DOMAIN cqs -> [depth : Nat, cqes : Seq(Handles)]],
         \A c \in DOMAIN cqs : Len(cqs'[c].cqes) <= cqs'[c].depth,
         NEW q \in DOMAIN qps \cup requests \cup streams \cup {0},
         \A c \in DOMAIN cqs : \A n \in Entries(c)' :
           n \in Entries(c) \/ (n = q /\ q \in DOMAIN qps /\ c \in {qps[q].send_cq, qps[q].recv_cq}),
         requests' \cup streams' \subseteq requests \cup streams \cup DOMAIN qps,
         UNCHANGED <<next_cq_number, pdVars, mrVars, qpVars>>
  PROVE  ResourcesInv'
<1>1. ResourcesTypeOK'
  BY DEF ResourcesInv, ResourcesTypeOK, pdVars, mrVars, qpVars
<1>2. NumbersFresh'
  BY DEF ResourcesInv, NumbersFresh, pdVars, mrVars, qpVars
<1>3. CompletionsNameTheirQp'
  <2> SUFFICES ASSUME NEW c \in DOMAIN cqs', NEW n \in Entries(c)', n \in DOMAIN qps'
               PROVE  c \in {qps'[n].send_cq, qps'[n].recv_cq}
    BY DEF CompletionsNameTheirQp
  <2>1. c \in DOMAIN cqs /\ n \in Entries(c)' /\ n \in DOMAIN qps /\ qps' = qps
    BY DEF qpVars
  <2>2. CASE n \in Entries(c)
    BY <2>1, <2>2 DEF ResourcesInv, CompletionsNameTheirQp
  <2>3. CASE n = q /\ c \in {qps[q].send_cq, qps[q].recv_cq}
    BY <2>1, <2>3
  <2> QED
    BY <2>1, <2>2, <2>3
<1>4. QpCqsExist'
  BY DEF ResourcesInv, QpCqsExist, qpVars
<1>5. KeysAgree'
  BY DEF ResourcesInv, KeysAgree, mrVars
<1> QED
  BY <1>1, <1>2, <1>3, <1>4, <1>5 DEF ResourcesInv

(* A new queue pair has a number that no completion and no processor names, *)
(* so what waits in its completion queues is not taken for its own.         *)
LEMMA CreateQpStep ==
  ASSUME ResourcesInv, initialized' \in BOOLEAN,
         NEW pd \in pds, NEW c1 \in DOMAIN cqs, NEW c2 \in DOMAIN cqs, create_qp(pd, c1, c2)
  PROVE  ResourcesInv'
<1>0. PICK q, qp : q = next_qp_number /\ qp = [pd |-> pd, send_cq |-> c1, recv_cq |-> c2]
  OBVIOUS
<1>1. /\ qps' = Put(qps, q, qp) /\ next_qp_number' = q + 1
      /\ UNCHANGED <<pdVars, mrVars, cqVars, stateVars>>
  BY <1>0 DEF create_qp, NewQpNumber
<1>2. q \in Handles /\ qp \in [pd : Handles, send_cq : Handles, recv_cq : Handles]
  BY <1>0 DEF ResourcesInv, ResourcesTypeOK
<1>n. q \in Nat /\ next_qp_number = q /\ next_qp_number' = q + 1
  BY <1>0, <1>1, <1>2 DEF Handles
<1>p. qp.pd = pd /\ qp.send_cq = c1 /\ qp.recv_cq = c2
  BY <1>0
<1>3. /\ DOMAIN qps' = DOMAIN qps \cup {q} /\ qps'[q] = qp
      /\ \A n \in DOMAIN qps : n # q => qps'[n] = qps[n]
  BY <1>1 DEF Put
<1>4. q \notin DOMAIN qps /\ \A c \in DOMAIN cqs : q \notin Entries(c)
  <2>1. ~(q < next_qp_number)
    BY SMT, <1>n
  <2> QED
    BY <2>1 DEF ResourcesInv, NumbersFresh
<1>5. \A c : Entries(c)' = Entries(c)
  BY <1>1 DEF Entries, cqVars
<1>6. ResourcesTypeOK'
  <2>1. qps' \in [DOMAIN qps' -> [pd : Handles, send_cq : Handles, recv_cq : Handles]]
    BY <1>1, <1>2, <1>3 DEF ResourcesInv, ResourcesTypeOK, Put
  <2>2. DOMAIN qps' \subseteq Handles /\ next_qp_number' \in Handles
    BY <1>1, <1>2, <1>3, NextNumber DEF ResourcesInv, ResourcesTypeOK
  <2> QED
    BY <2>1, <2>2, <1>1 DEF ResourcesInv, ResourcesTypeOK, pdVars, mrVars, cqVars, stateVars
<1>7. NumbersFresh'
  <2>1. \A n \in Handles : n < next_qp_number => n < next_qp_number'
    BY SMT, <1>n DEF Handles
  <2>2. q < next_qp_number' /\ qp.pd < next_handle
    <3>1. q < next_qp_number'
      BY SMT, <1>n
    <3> QED
      BY <3>1, <1>p DEF ResourcesInv, NumbersFresh
  <2>3. \A n \in requests' \cup streams' \cup DOMAIN qps' : n < next_qp_number'
    BY <1>1, <1>3, <2>1, <2>2 DEF ResourcesInv, ResourcesTypeOK, NumbersFresh, stateVars
  <2>4. \A c \in DOMAIN cqs : \A n \in Entries(c) : n \in Handles
    BY SMT DEF ResourcesInv, ResourcesTypeOK, Entries
  <2>5. \A c \in DOMAIN cqs' : \A n \in Entries(c)' : n < next_qp_number'
    BY <1>1, <1>5, <2>1, <2>4 DEF ResourcesInv, NumbersFresh, cqVars
  <2>6. \A n \in DOMAIN qps' : qps'[n].pd < next_handle
    BY <1>3, <2>2 DEF ResourcesInv, NumbersFresh
  <2> QED
    BY <2>3, <2>5, <2>6, <1>1 DEF ResourcesInv, NumbersFresh, pdVars, mrVars, cqVars
<1>8. CompletionsNameTheirQp'
  <2> SUFFICES ASSUME NEW c \in DOMAIN cqs', NEW n \in Entries(c)', n \in DOMAIN qps'
               PROVE  c \in {qps'[n].send_cq, qps'[n].recv_cq}
    BY DEF CompletionsNameTheirQp
  <2>1. c \in DOMAIN cqs /\ n \in Entries(c) /\ n # q
    BY <1>1, <1>4, <1>5 DEF cqVars
  <2>2. n \in DOMAIN qps /\ qps'[n] = qps[n]
    BY <1>3, <2>1
  <2> QED
    BY <2>1, <2>2 DEF ResourcesInv, CompletionsNameTheirQp
<1>9. QpCqsExist'
  <2> SUFFICES ASSUME NEW n \in DOMAIN qps'
               PROVE  qps'[n].send_cq \in DOMAIN cqs /\ qps'[n].recv_cq \in DOMAIN cqs
    BY <1>1 DEF QpCqsExist, cqVars
  <2>1. CASE n = q
    BY <1>p, <1>3, <2>1
  <2>2. CASE n # q
    BY <1>3, <2>2 DEF ResourcesInv, QpCqsExist
  <2> QED
    BY <2>1, <2>2
<1> QED
  BY <1>1, <1>6, <1>7, <1>8, <1>9 DEF ResourcesInv, KeysAgree, mrVars

(* Destroying a pair takes nothing from the completion queues.              *)
LEMMA DestroyQpStep ==
  ASSUME ResourcesInv, initialized' \in BOOLEAN, NEW q \in DOMAIN qps, destroy_qp(q)
  PROVE  ResourcesInv'
<1>1. /\ qps' = Without(qps, q) /\ requests' \subseteq requests
      /\ UNCHANGED <<next_qp_number, streams, pdVars, mrVars, cqVars>>
  BY DEF destroy_qp
<1>2. DOMAIN qps' \subseteq DOMAIN qps /\ \A n \in DOMAIN qps' : qps'[n] = qps[n]
  BY <1>1 DEF Without
<1>3. \A c : Entries(c)' = Entries(c)
  BY <1>1 DEF Entries, cqVars
<1>4. ResourcesTypeOK'
  <2>1. qps' \in [DOMAIN qps' -> [pd : Handles, send_cq : Handles, recv_cq : Handles]]
    BY <1>1, <1>2 DEF ResourcesInv, ResourcesTypeOK, Without
  <2> QED
    BY <2>1, <1>1, <1>2 DEF ResourcesInv, ResourcesTypeOK, pdVars, mrVars, cqVars
<1>5. NumbersFresh'
  <2>1. \A n \in requests' \cup streams' \cup DOMAIN qps' : n < next_qp_number'
    BY <1>1, <1>2 DEF ResourcesInv, NumbersFresh
  <2>2. \A n \in DOMAIN qps' : qps'[n].pd < next_handle
    BY <1>2 DEF ResourcesInv, NumbersFresh
  <2> QED
    BY <1>1, <1>3, <2>1, <2>2 DEF ResourcesInv, NumbersFresh, pdVars, mrVars, cqVars
<1>6. QpCqsExist' /\ CompletionsNameTheirQp'
  BY SMT, <1>1, <1>2, <1>3 DEF ResourcesInv, QpCqsExist, CompletionsNameTheirQp, cqVars
<1> QED
  BY <1>1, <1>4, <1>5, <1>6 DEF ResourcesInv, KeysAgree, mrVars

(* Polling only removes completions.                                        *)
LEMMA PollStep ==
  ASSUME ResourcesInv, initialized' \in BOOLEAN, NEW c \in DOMAIN cqs, poll_cq(c, 1)
  PROVE  ResourcesInv'
<1>1. UNCHANGED <<next_cq_number, pdVars, mrVars, qpVars, stateVars>>
  BY DEF poll_cq
<1>2. requests' \cup streams' \subseteq requests \cup streams \cup DOMAIN qps
  BY <1>1 DEF stateVars
<1>3. ResourcesTypeOK
  BY DEF ResourcesInv
<1> QED
  BY <1>1, <1>2, <1>3, PollEffect, QueueStep

(* Traffic of a pair completes into one of that pair's own queues.          *)
LEMMA TransferStep ==
  ASSUME ResourcesInv, initialized' \in BOOLEAN, NEW q \in DOMAIN qps, Transfer(q)
  PROVE  ResourcesInv'
<1>1. /\ UNCHANGED <<next_cq_number, pdVars, mrVars, qpVars>>
      /\ requests' \cup streams' \subseteq requests \cup streams \cup DOMAIN qps
      /\ \/ UNCHANGED cqs
         \/ \E c \in {qps[q].send_cq, qps[q].recv_cq} : deliver_cqe(c, q)
  BY DEF Transfer
<1>2. ResourcesTypeOK /\ q \in Handles /\ {qps[q].send_cq, qps[q].recv_cq} \subseteq DOMAIN cqs
  BY DEF ResourcesInv, QpCqsExist, ResourcesTypeOK
<1>3. CASE UNCHANGED cqs
  <2>1. \A c : Entries(c)' = Entries(c)
    BY <1>3 DEF Entries
  <2>2. /\ cqs' \in [DOMAIN cqs -> [depth : Nat, cqes : Seq(Handles)]]
        /\ \A c \in DOMAIN cqs : Len(cqs'[c].cqes) <= cqs'[c].depth
    BY <1>2, <1>3 DEF ResourcesTypeOK
  <2> QED
    BY <1>1, <1>3, <2>1, <2>2, QueueStep
<1>4. CASE \E c \in {qps[q].send_cq, qps[q].recv_cq} : deliver_cqe(c, q)
  <2>1. PICK c \in {qps[q].send_cq, qps[q].recv_cq} : deliver_cqe(c, q)
    BY <1>4
  <2>2. /\ DOMAIN cqs' = DOMAIN cqs
        /\ cqs' \in [DOMAIN cqs -> [depth : Nat, cqes : Seq(Handles)]]
        /\ \A d \in DOMAIN cqs : Len(cqs'[d].cqes) <= cqs'[d].depth
        /\ \A d \in DOMAIN cqs : Entries(d)' \subseteq Entries(d) \cup (IF d = c THEN {q} ELSE {})
    BY <1>2, <2>1, DeliverEffect
  <2>3. \A d \in DOMAIN cqs : \A n \in Entries(d)' :
          n \in Entries(d) \/ (n = q /\ d \in {qps[q].send_cq, qps[q].recv_cq})
    BY <2>1, <2>2
  <2> QED
    BY <1>1, <2>2, <2>3, QueueStep
<1> QED
  BY <1>1, <1>3, <1>4

(* The inductive invariant holds in every reachable state, through any      *)
(* order of creation, destruction, traffic and reset.                       *)
LEMMA Invariance == ResourcesSpec => []ResourcesInv
<1>1. ResourcesInit => ResourcesInv
  <2> SUFFICES ASSUME ResourcesInit PROVE ResourcesInv
    OBVIOUS
  <2>1. /\ DOMAIN mrs_by_lkey = {} /\ DOMAIN mrs_by_rkey = {}
        /\ DOMAIN cqs = {} /\ DOMAIN qps = {}
    BY DEF ResourcesInit, Empty
  <2>2. initialized \in BOOLEAN
    BY DEF ResourcesInit
  <2>3. ResourcesTypeOK
    BY SMT, <2>1, <2>2 DEF ResourcesInit, Empty, ResourcesTypeOK, Handles, FirstKey
  <2> QED
    BY <2>1, <2>3 DEF ResourcesInit, ResourcesInv, QpCqsExist, KeysAgree, CompletionsNameTheirQp, NumbersFresh
<1>2. ResourcesInv /\ [ResourcesNext]_resourcesVars => ResourcesInv'
  <2> SUFFICES ASSUME ResourcesInv, [ResourcesNext]_resourcesVars PROVE ResourcesInv'
    OBVIOUS
  <2>1. CASE DriverCall
    <3>1. initialized' \in BOOLEAN
      BY <2>1 DEF DriverCall, ResourcesInv, ResourcesTypeOK
    <3>2. CASE create_pd \/ \E pd \in pds : destroy_pd(pd)
      BY <3>1, <3>2, PdStep
    <3>3. CASE \E pd \in pds, r \in Regions : register_mr(pd, r)
      BY <3>1, <3>3, RegisterStep
    <3>4. CASE \E k \in DOMAIN mrs_by_lkey : deregister_mr(k)
      BY <3>1, <3>4, DeregisterStep
    <3>5. CASE \E d \in CqDepths : create_cq(d)
      BY <3>1, <3>5, CreateCqStep
    <3>6. CASE \E c \in DOMAIN cqs : destroy_cq(c)
      BY <3>1, <3>6, DestroyCqStep
    <3>7. CASE \E c \in DOMAIN cqs : poll_cq(c, 1)
      BY <3>1, <3>7, PollStep
    <3>8. CASE \E pd \in pds, c1, c2 \in DOMAIN cqs : create_qp(pd, c1, c2)
      BY <3>1, <3>8, CreateQpStep
    <3>9. CASE \E q \in DOMAIN qps : destroy_qp(q)
      BY <3>1, <3>9, DestroyQpStep
    <3>10. CASE DriverTransfer
      BY <3>1, <3>10, TransferStep DEF DriverTransfer
    <3>11. CASE engine_reset
      BY <3>1, <3>11, ClearedInv DEF engine_reset
    <3> QED
      BY <2>1, <3>2, <3>3, <3>4, <3>5, <3>6, <3>7, <3>8, <3>9, <3>10, <3>11 DEF DriverCall
  <2>2. CASE driver_init
    <3>1. initialized' \in BOOLEAN /\ \A c : Entries(c)' = Entries(c)
      BY <2>2 DEF driver_init, Entries, cqVars
    <3> QED
      BY <2>2, <3>1 DEF driver_init, ResourcesInv, ResourcesTypeOK, QpCqsExist, KeysAgree, CompletionsNameTheirQp,
         NumbersFresh, pdVars, mrVars, cqVars, qpVars, stateVars
  <2>3. CASE driver_reset
    <3>1. initialized' \in BOOLEAN
      BY <2>3 DEF driver_reset
    <3> QED
      BY <2>3, <3>1, ClearedInv DEF driver_reset
  <2>4. CASE UNCHANGED resourcesVars
    <3>1. \A c : Entries(c)' = Entries(c)
      BY <2>4 DEF Entries, resourcesVars, cqVars
    <3> QED
      BY <2>4, <3>1 DEF resourcesVars, ResourcesInv, ResourcesTypeOK, QpCqsExist, KeysAgree, CompletionsNameTheirQp,
         NumbersFresh, pdVars, mrVars, cqVars, qpVars, stateVars
  <2> QED
    BY <2>1, <2>2, <2>3, <2>4 DEF ResourcesNext
<1> QED
  BY <1>1, <1>2, PTL DEF ResourcesSpec

(* What one table of the engine says of another stays true in every         *)
(* reachable state.                                                         *)
THEOREM ResourceInvariant == ResourcesSpec => [](ResourcesTypeOK /\ ReferencesIntact)
<1>1. ResourcesInv => ResourcesTypeOK /\ ReferencesIntact
  BY DEF ResourcesInv, ReferencesIntact
<1> QED
  BY <1>1, Invariance, PTL

(* Handles, keys and handles are never handed out twice, so that nothing    *)
(* destroy_qp, destroy_pd or a reset leaves behind meets a new owner.       *)
THEOREM FreshNumbers == ResourcesSpec => []NumbersFresh
<1>1. ResourcesInv => NumbersFresh
  BY DEF ResourcesInv
<1> QED
  BY <1>1, Invariance, PTL

-----------------------------------------------------------------------------
(* A sum below the modulus is not changed by the width it is computed in.   *)
LEMMA NoWrap ==
  ASSUME NEW N \in Nat, N > 0, NEW k \in 0..(N - 1)
  PROVE  k % N = k
BY SMT

(* The bounds check is exact wherever the sum it computes does not wrap,    *)
(* and the sum of an access a region holds never does.                      *)
LEMMA InBoundsExact ==
  ASSUME NEW r \in Regions, NEW address \in 0..(AddressModulus - 1),
         NEW length \in 1..(AddressModulus - 1)
  PROVE  /\ Holds(r, address, length) => InBounds(r, address, length)
         /\ InBounds(r, address, length) =>
              Holds(r, address, length) \/ SumWraps(r, address, length)
<1>1. /\ AddressModulus \in Nat /\ r.base \in Nat /\ r.length \in Nat
      /\ r.length < AddressModulus
  BY SMT, DepthsAssumption, RegionsAssumption
<1>2. ASSUME address >= r.base, ~SumWraps(r, address, length)
      PROVE  (address - r.base + length) % AddressModulus = address - r.base + length
  <2>1. AddressModulus > 0 /\ address - r.base + length \in 0..(AddressModulus - 1)
    BY SMT, <1>1, <1>2, DepthsAssumption DEF SumWraps
  <2> QED
    BY <1>1, <2>1, NoWrap
<1>3. Holds(r, address, length)
        <=> address >= r.base /\ address + length <= r.base + r.length
  <2>1. address \in Bytes(address, length) /\ address + length - 1 \in Bytes(address, length)
    BY SMT, <1>1 DEF Bytes
  <2>2. \A n : n \in Bytes(r.base, r.length) <=> n \in Int /\ r.base <= n /\ n <= r.base + r.length - 1
    BY SMT, <1>1 DEF Bytes
  <2>3. \A n \in Bytes(address, length) : n \in Int /\ address <= n /\ n <= address + length - 1
    BY SMT, <1>1 DEF Bytes
  <2>4. ASSUME Bytes(address, length) \subseteq Bytes(r.base, r.length)
        PROVE  address >= r.base /\ address + length <= r.base + r.length
    BY SMT, <1>1, <2>1, <2>2, <2>4
  <2>5. ASSUME address >= r.base, address + length <= r.base + r.length
        PROVE  Bytes(address, length) \subseteq Bytes(r.base, r.length)
    BY SMT, <1>1, <2>2, <2>3, <2>5
  <2> QED
    BY <2>4, <2>5 DEF Holds
<1>4. ASSUME Holds(r, address, length) PROVE ~SumWraps(r, address, length)
  BY SMT, <1>1, <1>3, <1>4 DEF SumWraps
<1>5. ASSUME address >= r.base, ~SumWraps(r, address, length)
      PROVE  InBounds(r, address, length) <=> Holds(r, address, length)
  BY SMT, <1>1, <1>2, <1>3, <1>5 DEF InBounds
<1> QED
  BY <1>3, <1>4, <1>5 DEF InBounds

(* For every table of regions and every address and length of 64 bits,      *)
(* validate_rkey lets through what a live region of the pair's own domain   *)
(* grants and holds, and beyond it only accesses of which the sum of offset *)
(* and length wraps.                                                        *)
THEOREM AccessTheorem == ResourcesSpec => []RemoteAccessIffGranted
<1>1. ResourcesInv => RemoteAccessIffGranted
  <2> SUFFICES ASSUME ResourcesInv, NEW q \in DOMAIN qps, NEW rkey \in DOMAIN mrs_by_rkey,
                      NEW is_write \in BOOLEAN, NEW address \in 0..(AddressModulus - 1),
                      NEW length \in 1..(AddressModulus - 1)
               PROVE  /\ (\E r \in Grantors(rkey, qps[q].pd, is_write) : Holds(r, address, length)) =>
                           validate_rkey(rkey, qps[q].pd, address, length, is_write)
                      /\ validate_rkey(rkey, qps[q].pd, address, length, is_write) =>
                           \E r \in Grantors(rkey, qps[q].pd, is_write) :
                             Holds(r, address, length) \/ SumWraps(r, address, length)
    BY DEF RemoteAccessIffGranted
  <2>1. PICK lkey \in DOMAIN mrs_by_lkey :
          /\ lkey = mrs_by_rkey[rkey] /\ mrs_by_lkey[lkey].rkey = rkey
          /\ \A k \in DOMAIN mrs_by_lkey : mrs_by_lkey[k].rkey = rkey => k = lkey
    BY DEF ResourcesInv, KeysAgree
  <2>2. PICK mr : mr = mrs_by_lkey[lkey]
    OBVIOUS
  <2>3. mr.region \in Regions
    BY <2>1, <2>2 DEF ResourcesInv, ResourcesTypeOK
  <2>4. PICK granted \in BOOLEAN : granted <=> IF is_write THEN mr.region.remote_write ELSE mr.region.remote_read
    OBVIOUS
  <2>5. PICK inside \in BOOLEAN :
          /\ inside <=> InBounds(mr.region, address, length)
          /\ Holds(mr.region, address, length) => inside
          /\ inside => Holds(mr.region, address, length) \/ SumWraps(mr.region, address, length)
    BY <2>3, InBoundsExact
  <2>6. validate_access(mr.region, address, length, is_write, TRUE) <=> inside /\ granted
    BY <2>4, <2>5 DEF validate_access
  <2>7. validate_rkey(rkey, qps[q].pd, address, length, is_write)
          <=> mr.pd = qps[q].pd /\ inside /\ granted
    BY <2>1, <2>2, <2>6 DEF validate_rkey
  <2>8. \A r : r \in Grantors(rkey, qps[q].pd, is_write)
          <=> r = mr.region /\ mr.pd = qps[q].pd /\ granted
    BY <2>1, <2>2, <2>4 DEF Grantors
  <2> QED
    BY <2>5, <2>7, <2>8
<1> QED
  BY <1>1, Invariance, PTL
=============================================================================
