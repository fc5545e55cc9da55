----------------------------- MODULE MCHostRing -----------------------------
(* A ring of three slots in a memory of six cells behind an IOMMU that      *)
(* permutes addresses.  Addresses 2 and 3 lead to the end of the buffer and *)
(* beyond it, 4 nowhere; the burst wraps around the address space.          *)
EXTENDS HostRing, TLC

CONSTANTS d1, d2

MCTranslator == (0 :> 4) @@ (1 :> 5) @@ (2 :> 6) @@ (3 :> 9)
                @@ (8 :> 1) @@ (9 :> 0) @@ (10 :> 2) @@ (14 :> 3)

Entry(address, length) == [address |-> address, length |-> length]
List(entries) == [burst |-> FALSE, entries |-> entries]
Burst(address, length, beat, stride) ==
  [burst |-> TRUE, address |-> address, length |-> length,
   beat_bytes |-> beat, stride_bytes |-> stride]

MCTransfers == {List(<<Entry(1, 1), Entry(2, 0), Entry(0, 1)>>),
                List(<<Entry(0, 1), Entry(3, 1)>>),
                List(<<>>),
                Burst(14, 2, 1, 2),
                Burst(14, 2, 0, 2)}
MCPayloads == {<<d1, d2>>}
=============================================================================
