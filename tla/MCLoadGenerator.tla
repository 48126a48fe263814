--------------------------- MODULE MCLoadGenerator ---------------------------
(* Two workers. *)
EXTENDS LoadGenerator, TLC

CONSTANTS g1, g2
=============================================================================
