---------------------------- MODULE MCStatistics ----------------------------
(* Two workers; an approval, a review by a single rule, and a decline by    *)
(* two rules.  Latencies on the edges of the buckets and above them.        *)
EXTENDS Statistics, TLC

CONSTANTS w1, w2

Plain == [amount |-> 100, card |-> 3, ip |-> 11, abroad |-> FALSE, riskyMCC |-> FALSE]

MCBounds == <<1, 3>>
MCSamples ==
    {[tx |-> Plain, us |-> 1],
     [tx |-> [Plain EXCEPT !.amount = 5000], us |-> 4],
     [tx |-> [Plain EXCEPT !.card = 8, !.abroad = TRUE], us |-> 3]}
MCSymmetry == Permutations(Workers)
=============================================================================
