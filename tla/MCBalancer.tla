------------------------------ MODULE MCBalancer ------------------------------
(* Two nodes and three channels, ordered as their ids and usernames are.   *)
EXTENDS Balancer
=============================================================================
