----------------------------- MODULE MCVfDevice -----------------------------
(* Five queues and three vectors, one of each reserved, for up to two of   *)
(* three functions of different sizes: enough for holes, refusals, reuse   *)
(* and devices that outlive their functions.                               *)
EXTENDS VfDevice, TLC

MCKinds == {"queue", "vector"}
Of(queues, vectors) == [kind \in MCKinds |-> IF kind = "queue" THEN queues ELSE vectors]
MCTotal == Of(5, 3)
MCReserved == Of(1, 1)
MCRequests == {Of(1, 1), Of(3, 1), Of(2, 0), Of(8, 1)}

(* Identifiers are only compared. *)
MCSymmetry == Permutations(VfIds)
=============================================================================
