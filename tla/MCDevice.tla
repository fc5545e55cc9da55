------------------------------ MODULE MCDevice ------------------------------
(* Three queues of different weights, the first of weight 1. *)
EXTENDS Device

MCWeight == [q \in Queues |-> q + 1]
=============================================================================
