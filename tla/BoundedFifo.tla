---------------------------- MODULE BoundedFifo ----------------------------
(***************************************************************************)
(* What a ring promises its two users: a first-in first-out queue of at    *)
(* most Capacity items, where taking hands over the oldest item, and       *)
(* clearing forgets every item.                                            *)
(***************************************************************************)
EXTENDS Naturals, Sequences

CONSTANTS Capacity,   \* the most items the queue holds
          Items,      \* what may be queued
          None        \* the output before the first item is taken

VARIABLES queue,      \* the items waiting, oldest first
          out         \* the item handed over last

vars == <<queue, out>>

Init == queue = << >> /\ out = None

Put(v) ==
  /\ Len(queue) < Capacity
  /\ queue' = Append(queue, v)
  /\ UNCHANGED out

Take ==
  /\ queue # << >>
  /\ out' = Head(queue)
  /\ queue' = Tail(queue)

Clear == queue' = << >> /\ UNCHANGED out

Next == (\E v \in Items : Put(v)) \/ Take \/ Clear

Spec == Init /\ [][Next]_vars
=============================================================================
