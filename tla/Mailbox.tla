------------------------------ MODULE Mailbox -------------------------------
(***************************************************************************)
(* The mailbox between the physical function and its virtual functions     *)
(* (src/src/mailbox.cpp): one inbox for the PF, one for each VF, bounded   *)
(* in depth, polled by callers or drained by handlers, and the synchronous *)
(* send_and_receive on top of them.                                        *)
(*                                                                         *)
(* A message is its VF, its sequence number and two ghost fields: id, the  *)
(* order of acceptance, and root, the id of the request it descends from.  *)
(* The mailbox takes no lock: calls are atomic here, except that other     *)
(* calls may come between two polls of a send_and_receive, where it        *)
(* sleeps.                                                                 *)
(***************************************************************************)
EXTENDS Integers, Sequences, FiniteSets, Functions

CONSTANTS VFs,              \* the vf_ids in use; 0 has a meaning of its own
          kMaxQueueDepth,   \* 16 in the code
          PfHandler,        \* whether the PF has a handler,
          VfHandlers,       \*   and which VFs have one
          Callers,          \* the vf_ids send_and_receive is called with
          MaxMessages,      \* bound on the messages ever accepted
          MaxSequence       \* bound on the sequence numbers allocated

ASSUME MailboxAssumption ==
  /\ VFs \subseteq Nat /\ IsFiniteSet(VFs) /\ VfHandlers \subseteq VFs /\ Callers \subseteq VFs
  /\ PfHandler \in BOOLEAN /\ {kMaxQueueDepth, MaxMessages, MaxSequence} \subseteq Nat

VARIABLES box,       \* [pf_inbox, vf_inboxes, sent, received]
          next_sequence,
          calls,     \* of a VF: the request a send_and_receive waits on, or None
          returned   \* what the last send_and_receive returned, and to which request

mailboxVars == <<box, next_sequence, calls, returned>>

None == [vf_id |-> 0, sequence |-> 0, id |-> 0, root |-> 0]

MailboxInit ==
  /\ box = [pf_inbox |-> <<>>, vf_inboxes |-> [v \in VFs |-> <<>>],
            sent |-> 0, received |-> 0]
  /\ next_sequence = 1
  /\ calls = [v \in VFs |-> None]
  /\ returned = [request |-> None, response |-> None]

-----------------------------------------------------------------------------
(* The operations on the inboxes, as functions of the mailbox. *)

Accepted(b) == [b EXCEPT !.sent = @ + 1]

(* A message gets its id when it is accepted; a request is its own root. *)
Stamped(b, m) ==
  [m EXCEPT !.id = b.sent + 1, !.root = IF @ = 0 THEN b.sent + 1 ELSE @]

enqueue_to_vf(b, m) ==
  IF Len(b.vf_inboxes[m.vf_id]) >= kMaxQueueDepth THEN b
  ELSE Accepted([b EXCEPT !.vf_inboxes[m.vf_id] = Append(@, Stamped(b, m))])

(* Mutant of enqueue_to_pf: the depth is compared too late. *)
enqueue_to_pfLate(b, m) ==
  IF Len(b.pf_inbox) > kMaxQueueDepth THEN b
  ELSE Accepted([b EXCEPT !.pf_inbox = Append(@, Stamped(b, m))])

enqueue_to_pf(b, m) ==
  IF Len(b.pf_inbox) >= kMaxQueueDepth THEN b
  ELSE Accepted([b EXCEPT !.pf_inbox = Append(@, Stamped(b, m))])

(* Mutant of PoppedPf: the front is read and left. *)
PoppedPfStays(b) == [b EXCEPT !.received = @ + 1]

PoppedPf(b) == [b EXCEPT !.pf_inbox = Tail(@), !.received = @ + 1]

PoppedVf(b, v) == [b EXCEPT !.vf_inboxes[v] = Tail(@), !.received = @ + 1]

(* The answer of a handler, made out to the same VF, with the sequence of   *)
(* the message it answers.  An ACK without payload is not sent.             *)
Response(m) == [m EXCEPT !.id = 0]

-----------------------------------------------------------------------------
Fresh(v, sequence) == [vf_id |-> v, sequence |-> sequence, id |-> 0, root |-> 0]

Room == box.sent < MaxMessages

send_to_vf(v) ==
  /\ Room
  /\ box' = enqueue_to_vf(box, Fresh(v, 0))
  /\ UNCHANGED <<next_sequence, calls, returned>>

send_to_pf(v) ==
  /\ Room
  /\ box' = enqueue_to_pf(box, Fresh(v, 0))
  /\ UNCHANGED <<next_sequence, calls, returned>>

(* The PF only ever looks at the front of its inbox. *)
FromVf(v) == box.pf_inbox # <<>> /\ Head(box.pf_inbox).vf_id = v

receive_from_vf(v) ==
  /\ FromVf(v)
  /\ box' = PoppedPf(box)
  /\ UNCHANGED <<next_sequence, calls, returned>>

receive_from_pf(v) ==
  /\ box.vf_inboxes[v] # <<>>
  /\ box' = PoppedVf(box, v)
  /\ UNCHANGED <<next_sequence, calls, returned>>

(* Mutant of PfHandled: a message that draws no answer is not popped. *)
PfHandledKeeps(b, answers) ==
  IF ~PfHandler \/ b.pf_inbox = <<>> \/ ~answers THEN b
  ELSE enqueue_to_vf(PoppedPf(b), Response(Head(b.pf_inbox)))

(* One message of the PF's inbox, then one of each VF's; the handlers that  *)
(* answer are chosen.                                                       *)
PfHandled(b, answers) ==
  IF ~PfHandler \/ b.pf_inbox = <<>> THEN b
  ELSE LET m == Head(b.pf_inbox)
       IN  IF answers THEN enqueue_to_vf(PoppedPf(b), Response(m)) ELSE PoppedPf(b)

(* The VFs that have a handler and a message for it. *)
Served(b) == {v \in VfHandlers : b.vf_inboxes[v] # <<>>}

(* Each of them loses its front message, and as many answers as there is    *)
(* room for reach the PF, in the order in which their VFs are visited.      *)
VfsHandled(b, answering) ==
  LET room  == kMaxQueueDepth - Len(b.pf_inbox)
      count == IF Len(answering) < room THEN Len(answering) ELSE room
      answer(k) == [Response(Head(b.vf_inboxes[answering[k]])) EXCEPT !.id = b.sent + k]
  IN  [pf_inbox   |-> b.pf_inbox \o [k \in 1..count |-> answer(k)],
       vf_inboxes |-> [v \in VFs |-> IF v \in Served(b) THEN Tail(b.vf_inboxes[v]) ELSE b.vf_inboxes[v]],
       sent |-> b.sent + count, received |-> b.received + Cardinality(Served(b))]

process_pending(pf_answers, answering) ==
  /\ box.sent + Len(answering) + (IF pf_answers THEN 1 ELSE 0) <= MaxMessages
  /\ box' = VfsHandled(PfHandled(box, pf_answers), answering)
  /\ UNCHANGED <<next_sequence, calls, returned>>

-----------------------------------------------------------------------------
(* send_and_receive: vf_id 0 means "to the PF, answered in VF 0's inbox".   *)

Call(v) ==
  LET m == Fresh(v, next_sequence)
      after == IF v = 0 THEN enqueue_to_pf(box, m) ELSE enqueue_to_vf(box, m)
  IN  /\ Room /\ next_sequence <= MaxSequence /\ calls[v] = None
      /\ next_sequence' = next_sequence + 1
      /\ box' = after
      /\ IF after.sent = box.sent THEN UNCHANGED <<calls, returned>>
         ELSE calls' = [calls EXCEPT ![v] = Stamped(box, m)] /\ UNCHANGED returned

(* Mutant of Matches: the first message from the VF is taken for an answer. *)
MatchesAny(request, m) == TRUE

Matches(request, m) == m.sequence = request.sequence

(* A poll that finds a message: the answer ends the call, another message   *)
(* is thrown away.                                                          *)
Poll(v) ==
  /\ calls[v] # None
  /\ IF v = 0 THEN box.vf_inboxes[0] # <<>> ELSE FromVf(v)
  /\ LET m == IF v = 0 THEN Head(box.vf_inboxes[0]) ELSE Head(box.pf_inbox)
     IN  IF Matches(calls[v], m)
         THEN /\ returned' = [request |-> calls[v], response |-> m]
              /\ calls' = [calls EXCEPT ![v] = None]
         ELSE UNCHANGED <<calls, returned>>
  /\ box' = IF v = 0 THEN PoppedVf(box, 0) ELSE PoppedPf(box)
  /\ UNCHANGED next_sequence

(* The call gives up; an answer may still come. *)
Timeout(v) ==
  /\ calls[v] # None
  /\ calls' = [calls EXCEPT ![v] = None]
  /\ UNCHANGED <<box, next_sequence, returned>>

-----------------------------------------------------------------------------
(* The orders in which the VFs of S can be served. *)
Orders(S) == Bijection(1..Cardinality(S), S)

Process ==
  \E pf_answers \in BOOLEAN :
  \E vf_answers \in SUBSET Served(PfHandled(box, pf_answers)) :
  \E answering \in Orders(vf_answers) : process_pending(pf_answers, answering)

MailboxNext ==
  \/ \E v \in VFs : send_to_vf(v) \/ send_to_pf(v) \/ receive_from_vf(v) \/ receive_from_pf(v)
  \/ Process
  \/ \E v \in Callers : Call(v) \/ Poll(v) \/ Timeout(v)

MailboxSpec == MailboxInit /\ [][MailboxNext]_mailboxVars

(* process_pending is called again and again. *)
FairMailboxSpec == MailboxSpec /\ WF_mailboxVars(Process)

-----------------------------------------------------------------------------
InFlight == Range(box.pf_inbox) \cup UNION {Range(box.vf_inboxes[v]) : v \in VFs}

(* No inbox is deeper than the limit, and a VF's inbox holds only messages  *)
(* made out to it.                                                          *)
DepthsBounded ==
  /\ Len(box.pf_inbox) <= kMaxQueueDepth
  /\ \A v \in VFs : /\ Len(box.vf_inboxes[v]) <= kMaxQueueDepth
                    /\ \A m \in Range(box.vf_inboxes[v]) : m.vf_id = v
  /\ {box.sent, box.received} \subseteq Nat /\ next_sequence \in Nat

(* A request and the answers it draws are one conversation: at most one     *)
(* message of it is under way, however PF and VF handlers answer each other.*)
OneInFlight == \A m, n \in InFlight : m.root = n.root => m = n

(* What send_and_receive returns descends from its own request, never from  *)
(* an earlier one that timed out and was answered late.                     *)
AnswersMatch == returned.response # None => returned.response.root = returned.request.id

(* With a handler on every inbox, every accepted message is taken: one call *)
(* of process_pending takes one message of each, answers included.          *)
EveryMessageTaken ==
  \A i \in 1..MaxMessages : (\E m \in InFlight : m.id = i) ~> ~(\E m \in InFlight : m.id = i)
=============================================================================
