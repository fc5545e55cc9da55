---------------------------- MODULE RdmaChannel ----------------------------
(***************************************************************************)
(* What a reliable connection promises in each direction: the messages a   *)
(* requester posts take effect at the responder whole, in order and once,  *)
(* and a work request is reported successful once, after that.             *)
(***************************************************************************)
EXTENDS Naturals, Sequences

CONSTANTS Requesters, Messages

VARIABLES posted,      \* per requester, the messages it posted
          delivered,   \* those of them that took effect at its responder
          completed    \* positions in posted of the requests reported successful

vars == <<posted, delivered, completed>>

Init ==
  /\ posted = [r \in Requesters |-> <<>>]
  /\ delivered = [r \in Requesters |-> <<>>]
  /\ completed = [r \in Requesters |-> <<>>]

Post(r) ==
  /\ \E m \in Messages : posted' = [posted EXCEPT ![r] = Append(@, m)]
  /\ UNCHANGED <<delivered, completed>>

Deliver(r) ==
  /\ Len(delivered[r]) < Len(posted[r])
  /\ delivered' = [delivered EXCEPT ![r] = Append(@, posted[r][Len(@) + 1])]
  /\ UNCHANGED <<posted, completed>>

(* One acknowledgement may complete several work requests, oldest first; a *)
(* request that was given up is skipped.                                   *)
Complete(r) ==
  LET done == completed'[r]
  IN  /\ Len(completed[r]) < Len(done)
      /\ SubSeq(done, 1, Len(completed[r])) = completed[r]
      /\ \A k \in 1..Len(done) : done[k] \in 1..Len(delivered[r])
      /\ \A k \in 2..Len(done) : done[k - 1] < done[k]
      /\ completed' = [completed EXCEPT ![r] = done]
      /\ UNCHANGED <<posted, delivered>>

Next == \E r \in Requesters : Post(r) \/ Deliver(r) \/ Complete(r)

Spec == Init /\ [][Next]_vars
=============================================================================
