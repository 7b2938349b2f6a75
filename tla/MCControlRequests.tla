-------------------------- MODULE MCControlRequests --------------------------
(* Instances of ControlRequests for TLC. *)
EXTENDS ControlRequests
=============================================================================
