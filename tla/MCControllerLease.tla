-------------------------- MODULE MCControllerLease --------------------------
(* Two nodes racing for the lease.                                         *)
EXTENDS ControllerLease
CONSTANTS n1, n2
=============================================================================
