------------------------------ MODULE MCRequests ------------------------------
(* Requests for TLC: every operation of every adapter, one at a time. *)
EXTENDS Requests
=============================================================================
