---------------------------- MODULE MCCanChannel ----------------------------
(* CanChannel as TLC checks it: it is finite, the drivers are the instance. *)
EXTENDS CanChannel
=============================================================================
