-------------------------- MODULE MCNicQueuePair ---------------------------
(* Instances of NicQueuePair for TLC: packets of up to 5 bytes, segments   *)
(* of 2, a VLAN tag of 1.                                                  *)
EXTENDS NicQueuePair

Plain == [len |-> 2, checked |-> TRUE, tso |-> FALSE, mss |-> 0, header |-> 0, vlan |-> TRUE]
Segments(len, mss, header) ==
  [len |-> len, checked |-> FALSE, tso |-> TRUE, mss |-> mss, header |-> header, vlan |-> FALSE]

(* One that fits, three segments, four (too many), a bad MSS, a header      *)
(* longer than the packet, a header that is the packet, beyond the MTU.     *)
AllTx == {Plain, Segments(5, 2, 1), Segments(5, 2, 0), Segments(7, 2, 0), Segments(5, 4, 1),
          Segments(3, 2, 4), Segments(3, 2, 3), Segments(9, 2, 1)}

MCRx == {[buffer |-> 3, checked |-> TRUE, strip |-> FALSE, present |-> FALSE],
         [buffer |-> 2, checked |-> FALSE, strip |-> TRUE, present |-> TRUE]}
=============================================================================
