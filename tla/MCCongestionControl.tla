------------------------ MODULE MCCongestionControl ------------------------
(* One queue pair on each side; a rate of 5 that a first CNP takes to 2 and *)
(* a second to 1, increments of 5 / 4 = 1, alpha in halves.                 *)
EXTENDS CongestionControl

MCDest == [x \in Engines \X Numbers |-> x[2]]
=============================================================================
