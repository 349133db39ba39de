------------------------------- MODULE MCMemhub -------------------------------
(* Instances of Memhub for TLC. *)
EXTENDS Memhub
=============================================================================
