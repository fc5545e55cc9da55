----------------------- MODULE MCInterruptDispatcher ------------------------
(* Two queues that share a vector or meet none, packet thresholds on       *)
(* both sides of each other, and an adaptive moderation that samples every *)
(* second interrupt.                                                       *)
EXTENDS InterruptDispatcher

Off == [enabled |-> FALSE, min_threshold |-> 1, max_threshold |-> 2,
        low_batch_size |-> 1, high_batch_size |-> 2, sample_interval |-> 2]

MCAdaptiveConfigs == {Off, [Off EXCEPT !.enabled = TRUE]}
=============================================================================
