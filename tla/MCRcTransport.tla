--------------------------- MODULE MCRcTransport ---------------------------
(* Instances of RcTransport for TLC.  The PSN space is 16 numbers and each    *)
(* side starts close to its end, so that every run wraps.                  *)
EXTENDS RcTransport

CONSTANTS a, b

MCStartPsn == [e \in {a, b} |-> IF e = a THEN PsnModulus - 2 ELSE PsnModulus - 1]

OneWay == [e \in {a, b} |-> IF e = a THEN 2 ELSE 0]
OneWayRecvs == [e \in {a, b} |-> IF e = a THEN 0 ELSE 2]
TwoOne == [e \in {a, b} |-> IF e = a THEN 2 ELSE 1]
BothWays == [e \in {a, b} |-> 1]
=============================================================================
