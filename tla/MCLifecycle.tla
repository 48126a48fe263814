---------------------------- MODULE MCLifecycle ----------------------------
(* A few requests to the simulator and a post; rates in slices. *)
EXTENDS Lifecycle, TLC

CONSTANTS r1, r2, r3, post

RequestSymmetry == Permutations(Requests)
=============================================================================
