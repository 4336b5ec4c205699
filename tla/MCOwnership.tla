----------------------------- MODULE MCOwnership -----------------------------
(* Instances of Ownership for TLC: two nodes and one or two channels.       *)
EXTENDS Ownership
CONSTANTS c1, c2
=============================================================================
