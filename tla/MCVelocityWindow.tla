-------------------------- MODULE MCVelocityWindow --------------------------
(* Small windows for TLC: the numbers are in the configurations. *)
EXTENDS VelocityWindow
=============================================================================
