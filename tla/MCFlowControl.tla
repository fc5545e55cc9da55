--------------------------- MODULE MCFlowControl ---------------------------
(* Two priorities, one of which the peer does not honour, and the link as a *)
(* whole; ticks of 1 and 3 quanta and times that wrap at 4, so that each of *)
(* them, of drains, of idling and of transitions, can miss its limit.       *)
EXTENDS FlowControl

MCPauseThreshold == [c \in Classes |-> 2]
MCPauseTime == [c \in Classes |-> 2]
=============================================================================
