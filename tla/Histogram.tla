------------------------------ MODULE Histogram ------------------------------
(***************************************************************************)
(* internal/engine/histogram.go without its concurrency, which Statistics  *)
(* adds: counts per bucket, the last one open, and the quantiles read from  *)
(* them.  A quantile q is given as the fraction num / den; the rounding of *)
(* the product in floating point is left out.                              *)
(***************************************************************************)
EXTENDS Integers, Sequences, FiniteSets, FiniteSetsExt

CONSTANT Bounds   \* latencyBuckets: ascending upper bounds

ASSUME BoundsAssumption ==
    /\ Bounds \in Seq(Nat) /\ Bounds # <<>>
    /\ \A i, j \in DOMAIN Bounds : i < j => Bounds[i] < Bounds[j]

Infinite == Len(Bounds) + 1
Buckets == 1 .. Infinite

Overflow == -1

(* observe: the bucket of a latency. *)
Bucket(us) == Min({i \in DOMAIN Bounds : us <= Bounds[i]} \cup {Infinite})

(* snapshot: counts are per bucket, what it returns is cumulative. *)
Cumulative(counts) ==
    LET running[i \in 0 .. Infinite] == IF i = 0 THEN 0 ELSE running[i - 1] + counts[i]
    IN  running

(* Fault: the first bucket that exceeds the rank. *)
QuantileExceeding(counts, num, den) ==
    LET cum == Cumulative(counts)
        at  == Min({i \in Buckets : cum[i] * den > cum[Infinite] * num} \cup {Infinite})
    IN  IF cum[Infinite] = 0 THEN 0 ELSE IF at = Infinite THEN Overflow ELSE Bounds[at]

(* Quantile: the upper bound of the first bucket that reaches the rank. *)
Quantile(counts, num, den) ==
    LET cum == Cumulative(counts)
        at  == Min({i \in Buckets : cum[i] * den >= cum[Infinite] * num})
    IN  IF cum[Infinite] = 0 THEN 0 ELSE IF at = Infinite THEN Overflow ELSE Bounds[at]
=============================================================================
