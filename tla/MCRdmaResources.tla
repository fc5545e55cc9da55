-------------------------- MODULE MCRdmaResources --------------------------
(* Two numbers of each kind, two regions with different rights, one at      *)
(* either end of memory, and an empty one, which is refused.                *)
EXTENDS RdmaResources

Region(base, length, write) ==
  [base |-> base, length |-> length, local_read |-> TRUE, local_write |-> TRUE,
   remote_read |-> ~write, remote_write |-> write]

MCRegions == {Region(0, 2, TRUE), Region(3, 3, FALSE), Region(2, 0, TRUE)}
=============================================================================
