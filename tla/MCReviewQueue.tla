--------------------------- MODULE MCReviewQueue ---------------------------
(* Cases a, and b and c that tie. *)
EXTENDS ReviewQueue, TLC

CONSTANTS a, b, c, confirmed_fraud

MCScore == [id \in Cases |-> IF id = a THEN 3 ELSE 2]
MCSymmetry == Permutations({b, c})
=============================================================================
