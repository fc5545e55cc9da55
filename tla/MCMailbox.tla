----------------------------- MODULE MCMailbox -----------------------------
(* VF 0, whose calls go the other way, and VF 1; inboxes of depth 2.       *)
EXTENDS Mailbox
=============================================================================
