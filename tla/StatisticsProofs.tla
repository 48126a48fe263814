-------------------------- MODULE StatisticsProofs --------------------------
(***************************************************************************)
(* Theorems about Statistics, for any workers, samples, bucket bounds and   *)
(* ring size.                                                              *)
(***************************************************************************)
EXTENDS Statistics, CollectionProofs

----------------------------------------------------------------------------
(* The rule chain, for every transaction.                                  *)

(* A flag is raised if and only if one of the five rules raises it. *)
LEMMA FlagsRaised ==
  ASSUME NEW tx \in Features
  PROVE  Flags(tx) = {RuleAmount(tx), RuleCardVelocity(tx), RuleIPFanOut(tx),
                      RuleGeoMismatch(tx), RuleHighRiskMCC(tx)} \ {"none"}
<1>1. Range(DefaultRules(tx)) = {DefaultRules(tx)[i] : i \in 1 .. 5}
  BY DEF Range, DefaultRules
<1>2. 1 .. 5 = {1, 2, 3, 4, 5}
  OBVIOUS
<1>3. QED
  BY <1>1, <1>2 DEF Flags, DefaultRules

(* What each rule may answer, and what that is worth. *)
LEMMA Worth ==
  /\ Points["none"] = 0
  /\ Points["amount_extreme"] = 45 /\ Points["amount_high"] = 20
  /\ Points["card_velocity_extreme"] = 50 /\ Points["card_velocity"] = 25
  /\ Points["ip_fanout_extreme"] = 40 /\ Points["ip_fanout"] = 20
  /\ Points["geo_mismatch"] = 25 /\ Points["high_risk_mcc"] = 15
BY DEF Points

LEMMA Answers ==
  ASSUME NEW tx \in Features
  PROVE  /\ RuleAmount(tx) \in {"none", "amount_extreme", "amount_high"}
         /\ RuleCardVelocity(tx) \in {"none", "card_velocity_extreme", "card_velocity"}
         /\ RuleIPFanOut(tx) \in {"none", "ip_fanout_extreme", "ip_fanout"}
         /\ RuleGeoMismatch(tx) \in {"none", "geo_mismatch"}
         /\ RuleHighRiskMCC(tx) \in {"none", "high_risk_mcc"}
BY DEF RuleAmount, RuleCardVelocity, RuleIPFanOut, RuleGeoMismatch, RuleHighRiskMCC

(* Whatever is not approved shows the analyst a reason: a flag.            *)
THEOREM FlaggedHasAReason ==
  ASSUME NEW tx \in Features, Decide(Total(tx)) # "approve"
  PROVE  Flags(tx) # {}
<1>1. SUFFICES ASSUME Flags(tx) = {} PROVE FALSE
  OBVIOUS
<1>2. /\ RuleAmount(tx) = "none" /\ RuleCardVelocity(tx) = "none"
      /\ RuleIPFanOut(tx) = "none" /\ RuleGeoMismatch(tx) = "none"
      /\ RuleHighRiskMCC(tx) = "none"
  BY <1>1, FlagsRaised
<1>3. Total(tx) = 0
  BY <1>2, Worth DEF Total
<1>4. QED
  BY <1>3 DEF Decide

(* No rule declines alone: what is declined has raised two flags.  This is *)
(* what makes DecisionsAreExplained count a decline twice.                 *)
THEOREM DeclineTakesTwo ==
  ASSUME NEW tx \in Features, Decide(Total(tx)) = "decline"
  PROVE  \E f, g \in Flags(tx) : f # g
<1> DEFINE a == RuleAmount(tx)
           c == RuleCardVelocity(tx)
           i == RuleIPFanOut(tx)
           g == RuleGeoMismatch(tx)
           m == RuleHighRiskMCC(tx)
<1>1. Points[a] + Points[c] + Points[i] + Points[g] + Points[m] >= 70
  <2>1. Total(tx) \in Int
    BY Answers, Worth DEF Total
  <2>2. QED
    BY <2>1 DEF Total, Decide
<1>2. /\ Points[a] \in 0 .. 45 /\ Points[c] \in 0 .. 50 /\ Points[i] \in 0 .. 40
      /\ Points[g] \in 0 .. 25 /\ Points[m] \in 0 .. 15
  BY Answers, Worth
<1>3. /\ a = "none" => Points[a] = 0
      /\ c = "none" => Points[c] = 0
      /\ i = "none" => Points[i] = 0
      /\ g = "none" => Points[g] = 0
      /\ m = "none" => Points[m] = 0
  BY Worth
<1>4. \/ a # "none" /\ (c # "none" \/ i # "none" \/ g # "none" \/ m # "none")
      \/ c # "none" /\ (i # "none" \/ g # "none" \/ m # "none")
      \/ i # "none" /\ (g # "none" \/ m # "none")
      \/ g # "none" /\ m # "none"
  <2> HIDE DEF a, c, i, g, m
  <2>1. QED
    BY <1>1, <1>2, <1>3
<1>5. QED
  BY <1>4, FlagsRaised, Answers

(* The thresholds of RuleCardVelocity and RuleIPFanOut lie within          *)
(* maxWindowEvents: flags and decision of a transaction are the same when  *)
(* the two counts that the rules get from touch are saturated at 30.  What *)
(* touch can still count after earlier cuts is another question, which     *)
(* VelocityWindow answers.                                                 *)
THEOREM SaturationDecidesTheSame ==
  ASSUME NEW tx \in Features, NEW capped \in Features,
         capped = [tx EXCEPT !.card = IF tx.card > 30 THEN 30 ELSE tx.card,
                             !.ip = IF tx.ip > 30 THEN 30 ELSE tx.ip]
  PROVE  Flags(capped) = Flags(tx) /\ Decide(Total(capped)) = Decide(Total(tx))
<1>1. /\ RuleAmount(capped) = RuleAmount(tx)
      /\ RuleCardVelocity(capped) = RuleCardVelocity(tx)
      /\ RuleIPFanOut(capped) = RuleIPFanOut(tx)
      /\ RuleGeoMismatch(capped) = RuleGeoMismatch(tx)
      /\ RuleHighRiskMCC(capped) = RuleHighRiskMCC(tx)
  BY DEF Features, RuleAmount, RuleCardVelocity, RuleIPFanOut, RuleGeoMismatch, RuleHighRiskMCC
<1>2. QED
  BY <1>1, FlagsRaised DEF Total

----------------------------------------------------------------------------
(* An observation falls into one bucket: the first whose bound it does not *)
(* exceed.                                                                 *)
LEMMA BucketFits ==
  ASSUME NEW us \in Nat
  PROVE  /\ Bucket(us) \in Buckets
         /\ \A i \in DOMAIN Bounds : Bucket(us) <= i <=> us <= Bounds[i]
<1> DEFINE S == {i \in DOMAIN Bounds : us <= Bounds[i]} \cup {Infinite}
<1>1. /\ Bounds \in Seq(Nat) /\ Len(Bounds) \in Nat /\ DOMAIN Bounds = 1 .. Len(Bounds)
      /\ \A i \in DOMAIN Bounds : Bounds[i] \in Nat
      /\ \A i, j \in DOMAIN Bounds : i <= j => Bounds[i] <= Bounds[j]
  BY BoundsAssumption
<1>2. S \subseteq Buckets /\ S # {} /\ Buckets \subseteq Nat
  BY <1>1 DEF Buckets, Infinite
<1>3. Bucket(us) \in S /\ \A i \in S : Bucket(us) <= i
  BY <1>2, MinIsLeast DEF Bucket
<1>4. ASSUME NEW i \in DOMAIN Bounds
      PROVE  Bucket(us) <= i <=> us <= Bounds[i]
  <2>1. CASE Bucket(us) = Infinite
    BY <2>1, <1>1, <1>3 DEF Infinite
  <2>2. CASE Bucket(us) # Infinite
    BY <2>2, <1>1, <1>3
  <2>3. QED
    BY <2>1, <2>2
<1>5. QED
  BY <1>2, <1>3, <1>4
----------------------------------------------------------------------------
(* Types, and with them the rates: that lastSnap and rated lie within what *)
(* was processed needs RatesAddUp, and that owed is not negative needs that *)
(* no two workers hold the same transaction.                               *)

JobsDiffer ==
    \A v, w \in Workers : stage[v] # "idle" /\ stage[w] # "idle" /\ v # w => job[v] # job[w]

BucketsInTurn ==
    /\ view.stage = "buckets" => view.at \in Buckets
    /\ view.stage = "done" => view.at = Infinite + 1
    /\ view.stage \notin {"buckets", "done"} => view.at = 1

TInv == TypeOK /\ RatesAddUp /\ JobsDiffer /\ BucketsInTurn

LEMMA InfiniteType == Infinite \in Nat /\ 1 \in Buckets /\ Buckets = 1 .. Infinite
BY BoundsAssumption DEF Buckets, Infinite

LEMMA TInit == Init => TInv
<1> SUFFICES ASSUME Init PROVE TInv
  OBVIOUS
<1> USE ConstantsAssumption, InfiniteType
<1>1. TypeOK
  BY DEF Init, TypeOK, ScoredTypeOK, CountersTypeOK, RecentTypeOK, RateTypeOK, ViewTypeOK, NoView
<1>2. RatesAddUp /\ JobsDiffer /\ BucketsInTurn
  BY DEF Init, RatesAddUp, JobsDiffer, BucketsInTurn, NoView
<1>3. QED
  BY <1>1, <1>2 DEF TInv

(* No more transactions are in the hands of workers than were processed.   *)
LEMMA FewUncounted ==
  ASSUME TInv
  PROVE  Owed \in Nat /\ IsFiniteSet(Uncounted) /\ Cardinality(Uncounted) \in Nat
<1> DEFINE f == [w \in Uncounted |-> job[w]]
<1> USE ConstantsAssumption
<1>1. IsFiniteSet(Uncounted) /\ Cardinality(Uncounted) \in Nat
  BY FS_Subset, FS_CardinalityType DEF Uncounted
<1>2. processed \in Nat /\ IsFiniteSet(1 .. processed) /\ Cardinality(1 .. processed) = processed
  BY FS_Interval DEF TInv, TypeOK, ScoredTypeOK
<1>3. f \in [Uncounted -> 1 .. processed]
  BY DEF TInv, TypeOK, ScoredTypeOK, Uncounted
<1>4. \A v, w \in Uncounted : f[v] = f[w] => v = w
  BY DEF TInv, JobsDiffer, Uncounted
<1>5. f \in Injection(Uncounted, 1 .. processed)
  BY <1>3, <1>4 DEF Injection, IsInjective
<1>6. Cardinality(Uncounted) <= processed
  BY <1>2, <1>5, FS_Injection
<1>7. QED
  BY <1>1, <1>2, <1>6 DEF Owed

LEMMA TStep == TInv /\ [Next]_vars => TInv'
<1> SUFFICES ASSUME TInv, [Next]_vars PROVE TInv'
  OBVIOUS
<1> USE ConstantsAssumption, InfiniteType DEF TInv, TypeOK, decisions, recent, rate
<1>1. ASSUME NEW w \in Workers, Process(w)
      PROVE  TInv'
  <2> USE <1>1 DEF Process
  <2>1. ScoredTypeOK'
    BY DEF ScoredTypeOK
  <2>2. RecentTypeOK'
    BY DEF RecentTypeOK, ScoredTypeOK
  <2>3. RateTypeOK'
    BY DEF RateTypeOK, RatesAddUp, ScoredTypeOK
  <2>4. RatesAddUp'
    BY DEF RatesAddUp, RateTypeOK, ScoredTypeOK
  <2>5. JobsDiffer'
    BY DEF JobsDiffer, ScoredTypeOK
  <2>6. CountersTypeOK' /\ ViewTypeOK' /\ BucketsInTurn'
    BY DEF CountersTypeOK, ViewTypeOK, BucketsInTurn
  <2>7. QED
    BY <2>1, <2>2, <2>3, <2>4, <2>5, <2>6
<1>2. ASSUME NEW w \in Workers, CountDecision(w)
      PROVE  TInv'
  <2> USE <1>2 DEF CountDecision
  <2>1. job[w] \in 1 .. processed
    BY DEF ScoredTypeOK
  <2>2. ScoredTypeOK'
    BY DEF ScoredTypeOK
  <2>3. CountersTypeOK'
    BY DEF CountersTypeOK
  <2>4. JobsDiffer'
    BY DEF JobsDiffer, ScoredTypeOK
  <2>5. RecentTypeOK' /\ RateTypeOK' /\ ViewTypeOK' /\ RatesAddUp' /\ BucketsInTurn'
    BY DEF RecentTypeOK, RateTypeOK, ViewTypeOK, RatesAddUp, BucketsInTurn
  <2>6. QED
    BY <2>2, <2>3, <2>4, <2>5
<1>3. ASSUME NEW w \in Workers, CountFires(w)
      PROVE  TInv'
  <2> USE <1>3 DEF CountFires
  <2>1. job[w] \in 1 .. processed
    BY DEF ScoredTypeOK
  <2>2. ScoredTypeOK'
    BY DEF ScoredTypeOK
  <2>3. CountersTypeOK'
    BY DEF CountersTypeOK
  <2>4. JobsDiffer'
    BY DEF JobsDiffer, ScoredTypeOK
  <2>5. RecentTypeOK' /\ RateTypeOK' /\ ViewTypeOK' /\ RatesAddUp' /\ BucketsInTurn'
    BY DEF RecentTypeOK, RateTypeOK, ViewTypeOK, RatesAddUp, BucketsInTurn
  <2>6. QED
    BY <2>2, <2>3, <2>4, <2>5
<1>4. ASSUME NEW w \in Workers, Observe(w)
      PROVE  TInv'
  <2> USE <1>4 DEF Observe
  <2>1. job[w] \in 1 .. processed
    BY DEF ScoredTypeOK
  <2>2. log[job[w]] \in Samples /\ log[job[w]].us \in Nat
    BY <2>1 DEF ScoredTypeOK
  <2>3. Bucket(log[job[w]].us) \in Buckets
    BY <2>2, BucketFits
  <2>4. ScoredTypeOK'
    BY DEF ScoredTypeOK
  <2>5. CountersTypeOK'
    BY <2>3 DEF CountersTypeOK
  <2>6. JobsDiffer'
    BY DEF JobsDiffer, ScoredTypeOK
  <2>7. RecentTypeOK' /\ RateTypeOK' /\ ViewTypeOK' /\ RatesAddUp' /\ BucketsInTurn'
    BY DEF RecentTypeOK, RateTypeOK, ViewTypeOK, RatesAddUp, BucketsInTurn
  <2>8. QED
    BY <2>4, <2>5, <2>6, <2>7
<1>5. ASSUME NEW w \in Workers, KeepRecent(w)
      PROVE  TInv'
  <2> USE <1>5 DEF KeepRecent
  <2>1. job[w] \in 1 .. processed
    BY DEF ScoredTypeOK
  <2>2. (ringAt + 1) % RingSize \in 0 .. RingSize - 1
    BY DEF RecentTypeOK
  <2>3. ScoredTypeOK'
    BY DEF ScoredTypeOK
  <2>4. RecentTypeOK'
    BY <2>1, <2>2 DEF RecentTypeOK, ScoredTypeOK
  <2>5. JobsDiffer'
    BY DEF JobsDiffer, ScoredTypeOK
  <2>6. CountersTypeOK' /\ RateTypeOK' /\ ViewTypeOK' /\ RatesAddUp' /\ BucketsInTurn'
    BY DEF CountersTypeOK, RateTypeOK, ViewTypeOK, RatesAddUp, BucketsInTurn
  <2>7. QED
    BY <2>3, <2>4, <2>5, <2>6
<1>6. CASE TickLoads
  <2> USE <1>6 DEF TickLoads, Counted
  <2>1. RateTypeOK'
    BY DEF RateTypeOK, RatesAddUp, ScoredTypeOK
  <2>2. RatesAddUp'
    BY DEF RatesAddUp, RateTypeOK, ScoredTypeOK
  <2>3. ScoredTypeOK' /\ CountersTypeOK' /\ RecentTypeOK' /\ ViewTypeOK' /\ JobsDiffer' /\ BucketsInTurn'
    BY DEF ScoredTypeOK, CountersTypeOK, RecentTypeOK, ViewTypeOK, JobsDiffer, BucketsInTurn
  <2>4. QED
    BY <2>1, <2>2, <2>3
<1>7. CASE StoreRate
  <2> USE <1>7 DEF StoreRate, Counted
  <2>1. ticker.now \in 0 .. processed /\ rated + (ticker.now - lastSnap) = ticker.now
    BY DEF RateTypeOK, RatesAddUp, ScoredTypeOK
  <2>2. RateTypeOK'
    BY <2>1 DEF RateTypeOK
  <2>3. RatesAddUp'
    BY DEF RatesAddUp, RateTypeOK, ScoredTypeOK
  <2>4. ScoredTypeOK' /\ CountersTypeOK' /\ RecentTypeOK' /\ ViewTypeOK' /\ JobsDiffer' /\ BucketsInTurn'
    BY DEF ScoredTypeOK, CountersTypeOK, RecentTypeOK, ViewTypeOK, JobsDiffer, BucketsInTurn
  <2>5. QED
    BY <2>2, <2>3, <2>4
<1>8. CASE StoreSnap
  <2> USE <1>8 DEF StoreSnap, Counted
  <2>1. RateTypeOK'
    BY DEF RateTypeOK, RatesAddUp, ScoredTypeOK
  <2>2. RatesAddUp'
    BY DEF RatesAddUp, RateTypeOK, ScoredTypeOK
  <2>3. ScoredTypeOK' /\ CountersTypeOK' /\ RecentTypeOK' /\ ViewTypeOK' /\ JobsDiffer' /\ BucketsInTurn'
    BY DEF ScoredTypeOK, CountersTypeOK, RecentTypeOK, ViewTypeOK, JobsDiffer, BucketsInTurn
  <2>4. QED
    BY <2>1, <2>2, <2>3
<1>9. CASE ReadProcessed
  <2> USE <1>9 DEF ReadProcessed, Read
  <2>1. ViewTypeOK'
    BY FewUncounted DEF ViewTypeOK, CountersTypeOK, BucketsInTurn
  <2>2. BucketsInTurn'
    BY DEF BucketsInTurn, ViewTypeOK
  <2>3. ScoredTypeOK' /\ CountersTypeOK' /\ RecentTypeOK' /\ RateTypeOK' /\ RatesAddUp' /\ JobsDiffer'
    BY DEF ScoredTypeOK, CountersTypeOK, RecentTypeOK, RateTypeOK, RatesAddUp, JobsDiffer
  <2>4. QED
    BY <2>1, <2>2, <2>3
<1>10. CASE ReadReviewed
  <2> USE <1>10 DEF ReadReviewed, Read
  <2>1. reviewed \in Nat /\ view.shown + declined \in Nat /\ view.shown + approved \in Nat
    BY DEF CountersTypeOK, ViewTypeOK
  <2>2. ViewTypeOK'
    BY <2>1 DEF ViewTypeOK
  <2>3. BucketsInTurn'
    BY DEF BucketsInTurn, ViewTypeOK
  <2>4. ScoredTypeOK' /\ CountersTypeOK' /\ RecentTypeOK' /\ RateTypeOK' /\ RatesAddUp' /\ JobsDiffer'
    BY DEF ScoredTypeOK, CountersTypeOK, RecentTypeOK, RateTypeOK, RatesAddUp, JobsDiffer
  <2>5. QED
    BY <2>2, <2>3, <2>4
<1>11. CASE ReadDeclined
  <2> USE <1>11 DEF ReadDeclined, Read
  <2>1. reviewed \in Nat /\ view.shown + declined \in Nat /\ view.shown + approved \in Nat
    BY DEF CountersTypeOK, ViewTypeOK
  <2>2. ViewTypeOK'
    BY <2>1 DEF ViewTypeOK
  <2>3. BucketsInTurn'
    BY DEF BucketsInTurn, ViewTypeOK
  <2>4. ScoredTypeOK' /\ CountersTypeOK' /\ RecentTypeOK' /\ RateTypeOK' /\ RatesAddUp' /\ JobsDiffer'
    BY DEF ScoredTypeOK, CountersTypeOK, RecentTypeOK, RateTypeOK, RatesAddUp, JobsDiffer
  <2>5. QED
    BY <2>2, <2>3, <2>4
<1>12. CASE ReadApproved
  <2> USE <1>12 DEF ReadApproved, Read
  <2>1. reviewed \in Nat /\ view.shown + declined \in Nat /\ view.shown + approved \in Nat
    BY DEF CountersTypeOK, ViewTypeOK
  <2>2. ViewTypeOK'
    BY <2>1 DEF ViewTypeOK
  <2>3. BucketsInTurn'
    BY DEF BucketsInTurn, ViewTypeOK
  <2>4. ScoredTypeOK' /\ CountersTypeOK' /\ RecentTypeOK' /\ RateTypeOK' /\ RatesAddUp' /\ JobsDiffer'
    BY DEF ScoredTypeOK, CountersTypeOK, RecentTypeOK, RateTypeOK, RatesAddUp, JobsDiffer
  <2>5. QED
    BY <2>2, <2>3, <2>4
<1>13. CASE ReadBucket
  <2> USE <1>13 DEF ReadBucket, Read
  <2>1. view.at + 1 \in 1 .. Infinite + 1 /\ view.count + counts[view.at] \in Nat
    BY DEF CountersTypeOK, ViewTypeOK, BucketsInTurn
  <2>2. ViewTypeOK'
    BY <2>1 DEF ViewTypeOK
  <2>3. BucketsInTurn'
    BY DEF BucketsInTurn, ViewTypeOK
  <2>4. ScoredTypeOK' /\ CountersTypeOK' /\ RecentTypeOK' /\ RateTypeOK' /\ RatesAddUp' /\ JobsDiffer'
    BY DEF ScoredTypeOK, CountersTypeOK, RecentTypeOK, RateTypeOK, RatesAddUp, JobsDiffer
  <2>5. QED
    BY <2>2, <2>3, <2>4
<1>14. CASE Scraped
  <2> USE <1>14 DEF Scraped, NoView
  <2>1. ViewTypeOK'
    BY DEF ViewTypeOK, CountersTypeOK, BucketsInTurn
  <2>2. BucketsInTurn'
    BY DEF BucketsInTurn, ViewTypeOK
  <2>3. ScoredTypeOK' /\ CountersTypeOK' /\ RecentTypeOK' /\ RateTypeOK' /\ RatesAddUp' /\ JobsDiffer'
    BY DEF ScoredTypeOK, CountersTypeOK, RecentTypeOK, RateTypeOK, RatesAddUp, JobsDiffer
  <2>4. QED
    BY <2>1, <2>2, <2>3
<1>15. CASE UNCHANGED vars
  BY <1>15 DEF vars, ScoredTypeOK, CountersTypeOK, RecentTypeOK, RateTypeOK, ViewTypeOK,
               RatesAddUp, JobsDiffer, BucketsInTurn
<1>16. QED
  BY <1>1, <1>2, <1>3, <1>4, <1>5, <1>6, <1>7, <1>8, <1>9, <1>10, <1>11, <1>12, <1>13,
     <1>14, <1>15 DEF Next, Work, Tick, Scrape

(* The types of all variables, and that the ring's index stays in the ring. *)
THEOREM TypeCorrect == Spec => []TypeOK
<1>1. TInv => TypeOK
  BY DEF TInv
<1>2. QED
  BY <1>1, TInit, TStep, PTL DEF Spec

(* However transactions, the ticker's load and its two stores interleave,  *)
(* every transaction is counted in the rate of exactly one second.         *)
THEOREM NoTransactionBetweenSeconds == Spec => []RatesAddUp
<1>1. TInv => RatesAddUp
  BY DEF TInv
<1>2. QED
  BY <1>1, TInit, TStep, PTL DEF Spec
----------------------------------------------------------------------------
(* A scrape's decisions.                                                   *)

Undecided == {w \in Workers : stage[w] = "decide"}

Decided == approved + reviewed + declined

NotReviewed == approved + declined

DecisionsCounted == processed = Decided + Cardinality(Undecided)

(* What is still to be read makes up for what has been read.               *)
ScrapeOwes ==
    /\ view.stage = "reviewed" => view.owed <= Decided
    /\ view.stage = "declined" => view.owed <= view.shown + NotReviewed
    /\ view.stage = "approved" => view.owed <= view.shown + approved
    /\ DecisionsOwed

DInv == TInv /\ DecisionsCounted /\ ScrapeOwes

(* The undecided are finite, and among those who have not observed yet.    *)
LEMMA UndecidedFinite ==
  ASSUME TInv
  PROVE  /\ IsFiniteSet(Undecided) /\ Cardinality(Undecided) \in Nat
         /\ Cardinality(Undecided) <= Cardinality(Uncounted)
<1>1. Undecided \subseteq Uncounted
  BY DEF Undecided, Uncounted
<1>2. QED
  BY <1>1, FewUncounted, FS_Subset, FS_CardinalityType

LEMMA DInit == Init => DInv
<1> SUFFICES ASSUME Init PROVE DInv
  OBVIOUS
<1>1. Undecided = {}
  BY DEF Init, Undecided
<1>2. Cardinality(Undecided) = 0
  BY <1>1, FS_EmptySet
<1>3. QED
  BY <1>2, TInit DEF Init, DInv, DecisionsCounted, Decided, ScrapeOwes, DecisionsOwed, NoView

LEMMA DStep == DInv /\ [Next]_vars => DInv'
<1> SUFFICES ASSUME DInv, [Next]_vars PROVE DInv'
  OBVIOUS
<1>t. TInv /\ TInv'
  BY TStep DEF DInv
<1>n. /\ processed \in Nat /\ approved \in Nat /\ reviewed \in Nat /\ declined \in Nat
      /\ view.owed \in Nat /\ view.shown \in Nat
  BY <1>t DEF TInv, TypeOK, ScoredTypeOK, CountersTypeOK, ViewTypeOK
<1>d. Decided \in Nat /\ NotReviewed \in Nat
  BY <1>n DEF Decided, NotReviewed
<1>f. IsFiniteSet(Undecided) /\ Cardinality(Undecided) \in Nat
  BY <1>t, UndecidedFinite
<1>v. view \in [stage : {"idle", "reviewed", "declined", "approved", "buckets", "done"},
                owed : Nat, shown : Nat, at : 1 .. Infinite + 1, count : Nat]
  BY <1>t DEF TInv, TypeOK, ViewTypeOK
<1>w. stage \in [Workers -> {"idle", "decide", "fires", "observe", "ring"}]
  BY <1>t DEF TInv, TypeOK, ScoredTypeOK
<1> USE DEF DInv, DecisionsCounted, ScrapeOwes, DecisionsOwed, decisions, recent, rate
<1>1. ASSUME NEW w \in Workers, Process(w)
      PROVE  DInv'
  <2>1. w \notin Undecided /\ Undecided' = Undecided \cup {w}
    BY <1>1, <1>w DEF Process, Undecided
  <2>2. Cardinality(Undecided') = Cardinality(Undecided) + 1
    BY <2>1, <1>f, FS_AddElement
  <2>3. QED
    BY <1>1, <1>t, <1>n, <1>d, <1>f, <2>2 DEF Process, Decided, NotReviewed
<1>2. ASSUME NEW w \in Workers, CountDecision(w)
      PROVE  DInv'
  <2>1. w \in Undecided /\ Undecided' = Undecided \ {w}
    BY <1>2, <1>w DEF CountDecision, Undecided
  <2>2. Cardinality(Undecided') = Cardinality(Undecided) - 1
    BY <2>1, <1>f, FS_RemoveElement
  <2>3. /\ Decided' = Decided + 1
        /\ NotReviewed' = NotReviewed \/ NotReviewed' = NotReviewed + 1
        /\ approved' = approved \/ approved' = approved + 1
    BY <1>2, <1>n DEF CountDecision, Decision, Decide, Decided, NotReviewed
  <2>4. processed' = processed /\ view' = view
    BY <1>2 DEF CountDecision
  <2>5. DecisionsCounted'
    BY <1>n, <1>d, <1>f, <2>2, <2>3, <2>4
  <2>6. ScrapeOwes'
    BY <1>n, <1>d, <2>3, <2>4
  <2>7. QED
    BY <1>t, <2>5, <2>6
<1>3. ASSUME NEW w \in Workers, CountFires(w) \/ Observe(w) \/ KeepRecent(w)
      PROVE  DInv'
  <2>1. Undecided' = Undecided
    BY <1>3, <1>w DEF CountFires, Observe, KeepRecent, Undecided
  <2>2. UNCHANGED <<processed, decisions, view>>
    BY <1>3 DEF CountFires, Observe, KeepRecent
  <2>3. QED
    BY <1>t, <2>1, <2>2 DEF Decided, NotReviewed
<1>4. CASE Tick
  <2>1. UNCHANGED <<stage, processed, decisions, view>>
    BY <1>4 DEF Tick, TickLoads, StoreRate, StoreSnap, Counted
  <2>2. QED
    BY <1>t, <2>1 DEF Undecided, Decided, NotReviewed
<1>5. CASE Scrape
  <2>1. UNCHANGED <<stage, processed, decisions>>
    BY <1>5 DEF Scrape, ReadProcessed, ReadReviewed, ReadDeclined, ReadApproved, ReadBucket,
                Read, Scraped
  <2>2. DecisionsCounted' /\ Decided' = Decided /\ NotReviewed' = NotReviewed
    BY <2>1 DEF Undecided, Decided, NotReviewed
  <2>3. CASE ReadProcessed
    <3>1. Owed <= Decided
      BY <1>t, <1>n, <1>d, UndecidedFinite, FewUncounted DEF Owed
    <3>2. view' = [view EXCEPT !.owed = Owed, !.stage = "reviewed"]
      BY <2>3 DEF ReadProcessed, Read
    <3>3. QED
      BY <1>t, <1>v, <1>d, <2>1, <2>2, <3>1, <3>2
  <2>4. CASE ReadReviewed
    BY <1>t, <1>n, <1>d, <1>v, <2>1, <2>2, <2>4 DEF ReadReviewed, Read, Decided, NotReviewed
  <2>5. CASE ReadDeclined
    BY <1>t, <1>n, <1>d, <1>v, <2>1, <2>2, <2>5 DEF ReadDeclined, Read, Decided, NotReviewed
  <2>6. CASE ReadApproved
    BY <1>t, <1>n, <1>d, <1>v, <2>1, <2>2, <2>6 DEF ReadApproved, Read, Decided, NotReviewed
  <2>7. CASE ReadBucket
    BY <1>t, <1>n, <1>v, <2>1, <2>2, <2>7 DEF ReadBucket, Read
  <2>8. CASE Scraped
    BY <1>t, <2>1, <2>2, <2>8 DEF Scraped, NoView
  <2>9. QED
    BY <1>5, <2>3, <2>4, <2>5, <2>6, <2>7, <2>8 DEF Scrape
<1>6. CASE UNCHANGED vars
  BY <1>6, <1>t DEF vars, Undecided, Decided, NotReviewed
<1>7. QED
  BY <1>1, <1>2, <1>3, <1>4, <1>5, <1>6 DEF Next, Work

(* A scrape shows a decision for every transaction that was processed and  *)
(* off a worker's hands when it began, however many are scored meanwhile:  *)
(* the half of ScrapeAgrees that is about the decisions.                   *)
THEOREM ScrapeMissesNoDecision == Spec => []DecisionsOwed
<1>1. DInv => DecisionsOwed
  BY DEF DInv, ScrapeOwes
<1>2. QED
  BY <1>1, DInit, DStep, PTL DEF Spec
----------------------------------------------------------------------------
(* The feed.                                                               *)

(* Who is about to write to the ring has something to show.                *)
RingIsShown == \A w \in Workers : stage[w] = "ring" => Shown(job[w])

FInv == TInv /\ FeedMissesNothing /\ RingIsShown

LEMMA AppendNew ==
  ASSUME NEW S, NEW s \in Seq(S), NEW e \in S, IsInjective(s), e \notin Range(s)
  PROVE  IsInjective(Append(s, e)) /\ Range(Append(s, e)) = Range(s) \cup {e}
<1>1. /\ DOMAIN s = 1 .. Len(s) /\ DOMAIN Append(s, e) = 1 .. Len(s) + 1 /\ Len(s) \in Nat
      /\ \A i \in 1 .. Len(s) : Append(s, e)[i] = s[i]
      /\ Append(s, e)[Len(s) + 1] = e
  OBVIOUS
<1>2. \A i \in 1 .. Len(s) : s[i] # e
  BY <1>1 DEF Range
<1>3. IsInjective(Append(s, e))
  BY <1>1, <1>2 DEF IsInjective
<1>4. Range(Append(s, e)) = Range(s) \cup {e}
  BY <1>1 DEF Range
<1>5. QED
  BY <1>3, <1>4

(* What a transaction is does not change once it is processed.             *)
LEMMA ShownStays ==
  ASSUME TInv, NEW s \in Samples, log' = Append(log, s), NEW n \in 1 .. processed
  PROVE  Shown(n)' <=> Shown(n)
<1>1. log'[n] = log[n]
  BY DEF TInv, TypeOK, ScoredTypeOK
<1>2. QED
  BY <1>1 DEF Shown, Decision

(* What is in a worker's hands after it is done with its transaction.      *)
LEMMA JobGone ==
  ASSUME TInv, NEW w \in Workers, stage[w] # "idle", job' = [job EXCEPT ![w] = 0]
  PROVE  \A n \in 1 .. processed : n \in Range(job') <=> n \in Range(job) /\ n # job[w]
BY DEF TInv, TypeOK, ScoredTypeOK, JobsDiffer, Range

LEMMA FInit == Init => FInv
<1> SUFFICES ASSUME Init PROVE FInv
  OBVIOUS
<1>1. FeedMissesNothing
  BY DEF Init, FeedMissesNothing, IsInjective, Range
<1>2. QED
  BY <1>1, TInit DEF Init, FInv, RingIsShown

LEMMA FStep == FInv /\ [Next]_vars => FInv'
<1> SUFFICES ASSUME FInv, [Next]_vars PROVE FInv'
  OBVIOUS
<1>t. TInv /\ TInv' /\ FeedMissesNothing /\ RingIsShown
  BY TStep DEF FInv
<1>w. /\ stage \in [Workers -> {"idle", "decide", "fires", "observe", "ring"}]
      /\ job \in [Workers -> 0 .. processed] /\ processed \in Nat
      /\ \A w \in Workers : stage[w] = "idle" <=> job[w] = 0
      /\ feed \in Seq(1 .. processed)
  BY <1>t DEF TInv, TypeOK, ScoredTypeOK, RecentTypeOK
<1> USE DEF decisions, recent, rate
<1>1. ASSUME NEW w \in Workers, Process(w)
      PROVE  FInv'
  <2> USE <1>1 DEF Process
  <2>1. PICK s \in Samples : log' = Append(log, s)
    OBVIOUS
  <2>2. \A n \in 1 .. processed : Shown(n)' <=> Shown(n)
    BY <2>1, <1>t, ShownStays
  <2>3. \A n \in 1 .. processed' : n \in Range(job') <=> n \in Range(job) \/ n = processed'
    BY <1>w DEF Range
  <2>4. 1 .. processed' = (1 .. processed) \cup {processed'} /\ processed' \notin 1 .. processed
    BY <1>w
  <2>5. Range(feed) = {n \in 1 .. processed' : Shown(n)'} \ Range(job')
    BY <2>2, <2>3, <2>4, <1>t DEF FeedMissesNothing
  <2>6. FeedMissesNothing'
    BY <2>5, <1>t DEF FeedMissesNothing
  <2>7. RingIsShown'
    <3>1. \A n \in 1 .. processed : log'[n] = log[n]
      BY <2>1, <1>t DEF TInv, TypeOK, ScoredTypeOK
    <3>2. \A v \in Workers : stage'[v] = "ring" =>
             stage[v] = "ring" /\ job'[v] = job[v] /\ job[v] \in 1 .. processed
      BY <1>w
    <3>3. QED
      BY <3>1, <3>2, <1>t DEF RingIsShown, Shown, Decision
  <2>8. QED
    BY <1>t, <2>6, <2>7 DEF FInv
<1>2. ASSUME NEW w \in Workers, CountDecision(w) \/ CountFires(w)
      PROVE  FInv'
  <2>1. /\ UNCHANGED <<log, job, processed, feed>>
        /\ stage' = [stage EXCEPT ![w] = stage'[w]] /\ stage'[w] # "ring"
    BY <1>2, <1>w DEF CountDecision, CountFires
  <2>2. FeedMissesNothing'
    BY <2>1, <1>t DEF FeedMissesNothing, Shown, Decision
  <2>3. RingIsShown'
    BY <2>1, <1>t, <1>w DEF RingIsShown, Shown, Decision
  <2>4. QED
    BY <1>t, <2>2, <2>3 DEF FInv
<1>3. ASSUME NEW w \in Workers, Observe(w)
      PROVE  FInv'
  <2>1. UNCHANGED <<log, processed, feed>> /\ stage[w] # "idle" /\ job[w] \in 1 .. processed
    BY <1>3, <1>w DEF Observe
  <2>2. \A n : Shown(n)' <=> Shown(n)
    BY <2>1 DEF Shown, Decision
  <2>3. CASE Shown(job[w])
    <3>1. job' = job /\ stage' = [stage EXCEPT ![w] = "ring"]
      BY <1>3, <2>3 DEF Observe
    <3>2. FeedMissesNothing'
      BY <2>1, <2>2, <3>1, <1>t DEF FeedMissesNothing
    <3>3. RingIsShown'
      BY <2>2, <2>3, <3>1, <1>t, <1>w DEF RingIsShown
    <3>4. QED
      BY <1>t, <3>2, <3>3 DEF FInv
  <2>4. CASE ~Shown(job[w])
    <3>1. job' = [job EXCEPT ![w] = 0] /\ stage' = [stage EXCEPT ![w] = "idle"]
      BY <1>3, <2>4 DEF Observe
    <3>2. \A n \in 1 .. processed : n \in Range(job') <=> n \in Range(job) /\ n # job[w]
      BY <1>t, <2>1, <3>1, JobGone
    <3>3. FeedMissesNothing'
      BY <2>1, <2>2, <2>4, <3>2, <1>t DEF FeedMissesNothing
    <3>4. RingIsShown'
      BY <2>2, <3>1, <1>t, <1>w DEF RingIsShown
    <3>5. QED
      BY <1>t, <3>3, <3>4 DEF FInv
  <2>5. QED
    BY <2>3, <2>4
<1>4. ASSUME NEW w \in Workers, KeepRecent(w)
      PROVE  FInv'
  <2> USE <1>4 DEF KeepRecent
  <2>1. job[w] \in 1 .. processed /\ Shown(job[w]) /\ job[w] \in Range(job)
    BY <1>w, <1>t DEF RingIsShown, Range
  <2>2. \A n \in 1 .. processed : n \in Range(job') <=> n \in Range(job) /\ n # job[w]
    BY <1>t, JobGone
  <2>3. IsInjective(feed') /\ Range(feed') = Range(feed) \cup {job[w]}
    <3>1. IsInjective(feed) /\ job[w] \notin Range(feed)
      BY <1>t, <2>1 DEF FeedMissesNothing
    <3>2. QED
      BY <3>1, <2>1, <1>w, AppendNew
  <2>4. \A n : Shown(n)' <=> Shown(n)
    BY DEF Shown, Decision
  <2>5. FeedMissesNothing'
    BY <2>1, <2>2, <2>3, <2>4, <1>t DEF FeedMissesNothing
  <2>6. RingIsShown'
    BY <2>4, <1>t, <1>w DEF RingIsShown
  <2>7. QED
    BY <1>t, <2>5, <2>6 DEF FInv
<1>5. CASE Tick \/ Scrape \/ UNCHANGED vars
  <2>1. UNCHANGED <<log, stage, job, processed, feed>>
    BY <1>5 DEF Tick, TickLoads, StoreRate, StoreSnap, Counted, Scrape, ReadProcessed,
                ReadReviewed, ReadDeclined, ReadApproved, ReadBucket, Read, Scraped, vars
  <2>2. QED
    BY <2>1, <1>t DEF FInv, FeedMissesNothing, RingIsShown, Shown, Decision
<1>6. QED
  BY <1>1, <1>2, <1>3, <1>4, <1>5 DEF Next, Work

(* Every flagged verdict and every Trickle-th transaction is put into the  *)
(* ring exactly once, and nothing else is: the half of FeedIsTrue that is  *)
(* about the workers.                                                      *)
THEOREM FeedIsComplete == Spec => []FeedMissesNothing
<1>1. FInv => FeedMissesNothing
  BY DEF FInv
<1>2. QED
  BY <1>1, FInit, FStep, PTL DEF Spec
----------------------------------------------------------------------------
(* The ring.                                                               *)

(* The i-th slot back from the one written next.                           *)
Back(at, i) == IF i < at THEN at - 1 - i ELSE at - 1 - i + RingSize

(* Counted back from the one written next, the slots hold what was put     *)
(* into the ring last, and the ones never written hold nothing.            *)
RingHolds ==
    \A i \in 0 .. RingSize - 1 :
        ring[Back(ringAt, i)] = IF i < Len(feed) THEN feed[Len(feed) - i] ELSE 0

(* The remainders the ring's index needs.                                  *)
LEMMA Wraps ==
  ASSUME NEW r \in Nat \ {0}, NEW a \in 0 .. r - 1
  PROVE  a % r = a /\ (a + r) % r = a /\ (a + r * 2) % r = a
<1>1. a % r = a
  OBVIOUS
<1>2. (a + r) % r = a
  OBVIOUS
<1>3. (a + r * 2) % r = a
  OBVIOUS
<1>4. QED
  BY <1>1, <1>2, <1>3

LEMMA SlotIsBack ==
  ASSUME NEW at \in 0 .. RingSize - 1, NEW i \in 0 .. RingSize - 1
  PROVE  /\ (at - 1 - i + RingSize * 2) % RingSize = Back(at, i)
         /\ Back(at, i) \in 0 .. RingSize - 1
<1>1. RingSize \in Nat \ {0}
  BY ConstantsAssumption
<1>2. CASE i < at
  <2> DEFINE a == at - 1 - i
  <2>1. a \in 0 .. RingSize - 1 /\ at - 1 - i + RingSize * 2 = a + RingSize * 2
    BY <1>1, <1>2
  <2> HIDE DEF a
  <2>2. (a + RingSize * 2) % RingSize = a
    BY <1>1, <2>1, Wraps
  <2>3. QED
    BY <1>2, <2>1, <2>2 DEF Back, a
<1>3. CASE ~(i < at)
  <2> DEFINE a == at - 1 - i + RingSize
  <2>1. a \in 0 .. RingSize - 1 /\ at - 1 - i + RingSize * 2 = a + RingSize
    BY <1>1, <1>3
  <2> HIDE DEF a
  <2>2. (a + RingSize) % RingSize = a
    BY <1>1, <2>1, Wraps
  <2>3. QED
    BY <1>3, <2>1, <2>2 DEF Back, a
<1>4. QED
  BY <1>2, <1>3

(* After a write the newest slot is the one written, and the others are    *)
(* one further back.                                                       *)
LEMMA BackOneMore ==
  ASSUME NEW at \in 0 .. RingSize - 1
  PROVE  LET next == (at + 1) % RingSize IN
         /\ next \in 0 .. RingSize - 1 /\ Back(next, 0) = at
         /\ \A i \in 1 .. RingSize - 1 : Back(next, i) = Back(at, i - 1) /\ Back(at, i - 1) # at
<1> DEFINE next == (at + 1) % RingSize
<1>1. RingSize \in Nat \ {0}
  BY ConstantsAssumption
<1>2. CASE at + 1 < RingSize
  <2>1. next = at + 1
    BY <1>1, <1>2, Wraps
  <2>2. QED
    BY <1>1, <1>2, <2>1 DEF Back
<1>3. CASE at + 1 = RingSize
  <2>1. (0 + RingSize) % RingSize = 0
    BY <1>1, Wraps
  <2>2. next = 0
    BY <1>1, <1>3, <2>1
  <2>3. QED
    BY <1>1, <1>3, <2>2 DEF Back
<1>4. QED
  BY <1>1, <1>2, <1>3

LEMMA RingInit == Init => RingHolds
<1> SUFFICES ASSUME Init, NEW i \in 0 .. RingSize - 1
             PROVE  ring[Back(ringAt, i)] = IF i < Len(feed) THEN feed[Len(feed) - i] ELSE 0
  BY DEF RingHolds
<1>1. ringAt = 0 /\ feed = <<>> /\ ring = [j \in 0 .. RingSize - 1 |-> 0] /\ RingSize \in Nat \ {0}
  BY ConstantsAssumption DEF Init
<1>2. Back(0, i) \in 0 .. RingSize - 1
  <2>1. 0 \in 0 .. RingSize - 1
    BY <1>1
  <2>2. QED
    BY <2>1, SlotIsBack
<1>3. QED
  BY <1>1, <1>2

LEMMA RingStep ==
  ASSUME TInv, TInv', RingHolds, [Next]_vars
  PROVE  RingHolds'
<1>w. /\ ring \in [0 .. RingSize - 1 -> 0 .. processed] /\ ringAt \in 0 .. RingSize - 1
      /\ feed \in Seq(1 .. processed) /\ Len(feed) \in Nat /\ RingSize \in Nat \ {0}
      /\ job \in [Workers -> 0 .. processed]
      /\ \A w \in Workers : stage[w] = "idle" <=> job[w] = 0
  BY ConstantsAssumption DEF TInv, TypeOK, ScoredTypeOK, RecentTypeOK
<1>1. ASSUME NEW w \in Workers, KeepRecent(w) PROVE RingHolds'
  <2>1. /\ ring' = [ring EXCEPT ![ringAt] = job[w]] /\ ringAt' = (ringAt + 1) % RingSize
        /\ feed' = Append(feed, job[w]) /\ job[w] \in 1 .. processed
    BY <1>1, <1>w DEF KeepRecent
  <2>2. /\ Len(feed') = Len(feed) + 1 /\ feed'[Len(feed) + 1] = job[w]
        /\ \A i \in 1 .. Len(feed) : feed'[i] = feed[i]
    BY <1>w, <2>1
  <2>3. /\ Back(ringAt', 0) = ringAt
        /\ \A i \in 1 .. RingSize - 1 :
              Back(ringAt', i) = Back(ringAt, i - 1) /\ Back(ringAt, i - 1) # ringAt
    <3>1. LET next == (ringAt + 1) % RingSize IN
          /\ Back(next, 0) = ringAt
          /\ \A i \in 1 .. RingSize - 1 :
                Back(next, i) = Back(ringAt, i - 1) /\ Back(ringAt, i - 1) # ringAt
      BY <1>w, BackOneMore
    <3>2. QED
      BY <2>1, <3>1
  <2>4. ASSUME NEW i \in 0 .. RingSize - 1
        PROVE  ring'[Back(ringAt', i)]
                 = IF i < Len(feed') THEN feed'[Len(feed') - i] ELSE 0
    <3>1. CASE i = 0
      <4>1. ring'[Back(ringAt', i)] = job[w]
        BY <1>w, <2>1, <2>3, <3>1
      <4>2. i < Len(feed') /\ Len(feed') - i = Len(feed) + 1
        BY <1>w, <2>2, <3>1
      <4>3. QED
        BY <2>2, <4>1, <4>2
    <3>2. CASE i # 0
      <4>1. i \in 1 .. RingSize - 1 /\ i - 1 \in 0 .. RingSize - 1
        BY <1>w, <3>2
      <4>2. Back(ringAt, i - 1) \in 0 .. RingSize - 1
        BY <1>w, <4>1, SlotIsBack
      <4>3. ring'[Back(ringAt', i)] = ring[Back(ringAt, i - 1)]
        BY <1>w, <2>1, <2>3, <4>1, <4>2
      <4>4. ring[Back(ringAt, i - 1)]
              = IF i - 1 < Len(feed) THEN feed[Len(feed) - (i - 1)] ELSE 0
        BY <4>1 DEF RingHolds
      <4>5. i < Len(feed') <=> i - 1 < Len(feed)
        BY <1>w, <2>2, <4>1
      <4>6. i - 1 < Len(feed) =>
               Len(feed) - (i - 1) \in 1 .. Len(feed) /\ Len(feed') - i = Len(feed) - (i - 1)
        BY <1>w, <2>2, <4>1
      <4>7. QED
        BY <2>2, <4>3, <4>4, <4>5, <4>6
    <3>3. QED
      BY <3>1, <3>2
  <2>5. QED
    BY <2>4 DEF RingHolds, Back
<1>2. CASE UNCHANGED <<ring, ringAt, feed>>
  BY <1>2 DEF RingHolds, Back
<1>3. QED
  BY <1>1, <1>2 DEF Next, Work, Process, CountDecision, CountFires, Observe, Tick, TickLoads,
     StoreRate, StoreSnap, Counted, Scrape, ReadProcessed, ReadReviewed, ReadDeclined,
     ReadApproved, ReadBucket, Read, Scraped, vars, recent, rate, decisions

(* What Recent returns is what was put into the ring last, newest first.   *)
LEMMA NewestIsRead ==
  ASSUME TInv, RingHolds
  PROVE  RecentIsNewest
<1> DEFINE slot(i) == (ringAt - 1 - i + RingSize * 2) % RingSize
           s == [i \in 1 .. RingSize |-> ring[slot(i - 1)]]
           n == Len(feed)
           k == IF n < RingSize THEN n ELSE RingSize
           m == Max({1, n - RingSize + 1})
<1>1. /\ ring \in [0 .. RingSize - 1 -> 0 .. processed] /\ ringAt \in 0 .. RingSize - 1
      /\ feed \in Seq(1 .. processed) /\ n \in Nat /\ RingSize \in Nat \ {0}
      /\ \A i \in 1 .. n : feed[i] \in 1 .. processed
      /\ processed \in Nat
  BY ConstantsAssumption DEF TInv, TypeOK, ScoredTypeOK, RecentTypeOK
<1>2. ASSUME NEW i \in 1 .. RingSize
      PROVE  s[i] = IF i - 1 < n THEN feed[n - (i - 1)] ELSE 0
  <2>1. i - 1 \in 0 .. RingSize - 1
    BY <1>1
  <2>2. slot(i - 1) = Back(ringAt, i - 1)
    BY <1>1, <2>1, SlotIsBack
  <2>3. QED
    BY <2>1, <2>2 DEF RingHolds
<1>3. s \in Seq(0 .. processed) /\ Len(s) = RingSize
  <2>1. \A i \in 1 .. RingSize : s[i] \in 0 .. processed
    BY <1>1, <1>2
  <2>2. QED
    BY <1>1, <2>1
<1>k. k \in 0 .. RingSize /\ k \in 0 .. n /\ \A i \in 1 .. RingSize : i - 1 < n <=> i <= k
  BY <1>1
<1> HIDE DEF s, k
<1>4. k \in 0 .. Len(s) /\ \A i \in 1 .. Len(s) : (s[i] = 0) <=> (i > k)
  <2>1. ASSUME NEW i \in 1 .. RingSize PROVE s[i] = 0 <=> i > k
    <3>1. CASE i <= k
      <4>1. n - (i - 1) \in 1 .. n /\ i - 1 < n
        BY <1>1, <1>k, <3>1
      <4>2. s[i] = feed[n - (i - 1)]
        BY <1>2, <4>1
      <4>3. s[i] \in 1 .. processed
        BY <1>1, <4>1, <4>2
      <4>4. QED
        BY <1>1, <1>k, <3>1, <4>3
    <3>2. CASE i > k
      BY <1>1, <1>2, <1>k, <3>2
    <3>3. QED
      BY <1>k, <3>1, <3>2
  <2>2. QED
    BY <1>3, <1>k, <2>1
<1>5. /\ Without(s, 0) \in Seq(0 .. processed) /\ Len(Without(s, 0)) = k
      /\ \A i \in 1 .. k : Without(s, 0)[i] = s[i]
  <2>1. ASSUME NEW S, s \in Seq(S)
        PROVE  /\ Without(s, 0) \in Seq(S) /\ Len(Without(s, 0)) = k
               /\ \A i \in 1 .. k : Without(s, 0)[i] = s[i]
    BY <1>4, <2>1, WithoutTail
  <2>2. QED
    BY <1>3, <2>1
<1>6. \A i \in 1 .. k : Without(s, 0)[i] = feed[n - (i - 1)]
  <2>1. ASSUME NEW i \in 1 .. k PROVE Without(s, 0)[i] = feed[n - (i - 1)]
    <3>1. i \in 1 .. RingSize /\ i - 1 < n
      BY <1>1, <1>k
    <3>2. s[i] = feed[n - (i - 1)]
      BY <1>2, <3>1
    <3>3. QED
      BY <1>5, <3>2
  <2>2. QED
    BY <2>1
<1>7. m = n - k + 1
  <2>1. m = IF 1 < n - RingSize + 1 THEN n - RingSize + 1 ELSE 1
    BY <1>1, MaxOfTwo
  <2>2. QED
    BY <1>1, <2>1 DEF k
<1> DEFINE t == SubSeq(feed, m, n)
<1>8. Len(t) = k /\ t \in Seq(1 .. processed) /\ \A j \in 1 .. k : t[j] = feed[m + j - 1]
  <2> HIDE DEF m
  <2>1. m \in Int /\ m >= 1 /\ n - m + 1 = k /\ m <= n + 1
    BY <1>1, <1>k, <1>7
  <2>2. t \in Seq(1 .. processed) /\ Len(t) = n - m + 1
    BY <1>1, <2>1
  <2>3. \A j \in 1 .. n - m + 1 : t[j] = feed[m + j - 1]
    BY <1>1, <2>1
  <2>4. QED
    BY <2>1, <2>2, <2>3
<1> HIDE DEF t, m
<1>9. Reverse(t) = [i \in 1 .. k |-> t[k - i + 1]]
  BY <1>8 DEF Reverse
<1>10. \A i \in 1 .. k : t[k - i + 1] = feed[n - (i - 1)]
  <2>1. ASSUME NEW i \in 1 .. k PROVE t[k - i + 1] = feed[n - (i - 1)]
    <3>1. k - i + 1 \in 1 .. k /\ m + (k - i + 1) - 1 = n - (i - 1)
      BY <1>1, <1>k, <1>7
    <3>2. QED
      BY <1>8, <3>1
  <2>2. QED
    BY <2>1
<1>11. Without(s, 0) = [i \in 1 .. k |-> Without(s, 0)[i]]
  BY <1>5
<1>12. Without(s, 0) = Reverse(t)
  BY <1>6, <1>9, <1>10, <1>11
<1>13. QED
  BY <1>12 DEF RecentIsNewest, Recent, s, t, m

(* What GET /api/stats says of the feed is what happened: the newest of    *)
(* what was put into the ring, newest first, and nothing that should have  *)
(* been put there was left out, for any workers, ring size and trickle.    *)
THEOREM FeedTrue == Spec => []FeedIsTrue
<1>1. TInv /\ RingHolds /\ FeedMissesNothing => FeedIsTrue
  BY NewestIsRead DEF FeedIsTrue
<1>2. QED
  BY <1>1, FeedIsComplete, TInit, TStep, RingInit, RingStep, PTL DEF Spec
----------------------------------------------------------------------------
(* The histogram.                                                          *)

(* A bucket holds as many observations as fall into it.                    *)
InBucket(i) == {n \in Observed : Bucket(log[n].us) = i}

HistogramCounts == \A i \in Buckets : counts[i] = Cardinality(InBucket(i))

HInv == TInv /\ HistogramCounts

LEMMA ObservedFinite ==
  ASSUME TInv
  PROVE  /\ IsFiniteSet(Observed) /\ Observed \subseteq 1 .. processed
         /\ Cardinality(Observed) \in Nat
         /\ \A n \in Observed : log[n] \in Samples /\ log[n].us \in Nat
<1>1. processed \in Nat /\ log \in Seq(Samples) /\ Len(log) = processed
  BY DEF TInv, TypeOK, ScoredTypeOK
<1>2. Observed \subseteq 1 .. processed
  BY DEF Observed
<1>3. IsFiniteSet(Observed) /\ Cardinality(Observed) \in Nat
  <2>1. IsFiniteSet(1 .. processed)
    BY <1>1, FS_Interval
  <2>2. IsFiniteSet(Observed)
    BY <1>2, <2>1, FS_Subset
  <2>3. QED
    BY <2>2, FS_CardinalityType
<1>4. QED
  BY <1>1, <1>2, <1>3, ConstantsAssumption

(* All that has been processed is observed or in somebody's hands.         *)
LEMMA ObservedCardinality ==
  ASSUME TInv
  PROVE  Cardinality(Observed) = Owed
<1> DEFINE Held == {job[w] : w \in Uncounted}
           f == [w \in Uncounted |-> job[w]]
<1>1. processed \in Nat /\ IsFiniteSet(1 .. processed) /\ Cardinality(1 .. processed) = processed
  BY FS_Interval DEF TInv, TypeOK, ScoredTypeOK
<1>2. Held \subseteq 1 .. processed
  BY DEF TInv, TypeOK, ScoredTypeOK, Uncounted
<1>3. f \in Bijection(Uncounted, Held)
  <2>1. f \in [Uncounted -> Held]
    OBVIOUS
  <2>2. \A v, w \in Uncounted : f[v] = f[w] => v = w
    BY DEF TInv, JobsDiffer, Uncounted
  <2>3. \A n \in Held : \E w \in Uncounted : f[w] = n
    OBVIOUS
  <2>4. QED
    BY <2>1, <2>2, <2>3 DEF Bijection, Injection, Surjection, IsInjective
<1>4. Cardinality(Held) = Cardinality(Uncounted)
  BY <1>3, FewUncounted, FS_Bijection DEF ExistsBijection
<1>5. Cardinality((1 .. processed) \ Held) = processed - Cardinality((1 .. processed) \cap Held)
  BY <1>1, FS_Difference
<1>6. (1 .. processed) \cap Held = Held
  BY <1>2
<1>7. QED
  BY <1>4, <1>5, <1>6 DEF Owed, Observed

LEMMA HInit == Init => HInv
<1> SUFFICES ASSUME Init PROVE HInv
  OBVIOUS
<1>1. Observed = {}
  BY DEF Init, Observed
<1>2. \A i \in Buckets : InBucket(i) = {}
  BY <1>1 DEF InBucket
<1>3. QED
  BY <1>2, TInit, FS_EmptySet DEF Init, HInv, HistogramCounts

(* Only Observe changes what is observed.                                  *)
LEMMA ObservedSteps ==
  ASSUME TInv, [Next]_vars
  PROVE  /\ \A n \in Observed : log'[n] = log[n]
         /\ \/ Observed' = Observed /\ counts' = counts
            \/ \E n \in (1 .. processed) \ Observed :
                  /\ Observed' = Observed \cup {n} /\ log' = log
                  /\ counts' = [counts EXCEPT ![Bucket(log[n].us)] = @ + 1]
<1>w. /\ stage \in [Workers -> {"idle", "decide", "fires", "observe", "ring"}]
      /\ job \in [Workers -> 0 .. processed] /\ processed \in Nat
      /\ \A w \in Workers : stage[w] = "idle" <=> job[w] = 0
      /\ log \in Seq(Samples) /\ Len(log) = processed
  BY DEF TInv, TypeOK, ScoredTypeOK
<1> USE DEF decisions, recent, rate
<1>1. ASSUME NEW w \in Workers, Process(w)
      PROVE  /\ \A n \in Observed : log'[n] = log[n]
             /\ Observed' = Observed /\ counts' = counts
  <2>1. Uncounted' = Uncounted \cup {w} /\ w \notin Uncounted
    BY <1>1, <1>w DEF Process, Uncounted
  <2>2. {job'[v] : v \in Uncounted'} = {job[v] : v \in Uncounted} \cup {processed'}
    BY <1>1, <1>w, <2>1 DEF Process, Uncounted
  <2>3. 1 .. processed' = (1 .. processed) \cup {processed'} /\ processed' \notin 1 .. processed
    BY <1>1, <1>w DEF Process
  <2>4. Observed' = Observed
    BY <2>2, <2>3, <1>w DEF Observed, Uncounted
  <2>5. \A n \in 1 .. processed : log'[n] = log[n]
    BY <1>1, <1>w DEF Process
  <2>6. QED
    BY <1>1, <2>4, <2>5 DEF Process, Observed
<1>2. ASSUME NEW w \in Workers, CountDecision(w) \/ CountFires(w)
      PROVE  UNCHANGED <<Observed, log, counts>>
  <2>1. Uncounted' = Uncounted
    BY <1>2, <1>w DEF CountDecision, CountFires, Uncounted
  <2>2. QED
    BY <1>2, <2>1 DEF CountDecision, CountFires, Observed
<1>3. ASSUME NEW w \in Workers, Observe(w)
      PROVE  \E n \in (1 .. processed) \ Observed :
                /\ Observed' = Observed \cup {n} /\ log' = log
                /\ counts' = [counts EXCEPT ![Bucket(log[n].us)] = @ + 1]
  <2>1. Uncounted' = Uncounted \ {w} /\ w \in Uncounted /\ job[w] \in 1 .. processed
    BY <1>3, <1>w DEF Observe, Uncounted
  <2>2. \A v \in Uncounted : v # w => job'[v] = job[v] /\ job[v] # job[w]
    BY <1>3, <1>w DEF Observe, Uncounted, TInv, JobsDiffer
  <2>3. {job'[v] : v \in Uncounted'} = {job[v] : v \in Uncounted} \ {job[w]}
    BY <2>1, <2>2
  <2>4. Observed' = Observed \cup {job[w]} /\ job[w] \notin Observed
    BY <1>3, <2>1, <2>3 DEF Observe, Observed
  <2>5. QED
    BY <1>3, <2>1, <2>4 DEF Observe
<1>4. ASSUME NEW w \in Workers, KeepRecent(w)
      PROVE  UNCHANGED <<Observed, log, counts>>
  <2>1. Uncounted' = Uncounted /\ w \notin Uncounted
    BY <1>4, <1>w DEF KeepRecent, Uncounted
  <2>2. {job'[v] : v \in Uncounted'} = {job[v] : v \in Uncounted}
    BY <1>4, <1>w, <2>1 DEF KeepRecent, Uncounted
  <2>3. QED
    BY <1>4, <2>2 DEF KeepRecent, Observed
<1>5. CASE Tick \/ Scrape \/ UNCHANGED vars
  <2>1. UNCHANGED <<log, stage, job, processed, counts>>
    BY <1>5 DEF Tick, TickLoads, StoreRate, StoreSnap, Counted, Scrape, ReadProcessed,
                ReadReviewed, ReadDeclined, ReadApproved, ReadBucket, Read, Scraped, vars
  <2>2. QED
    BY <2>1 DEF Observed, Uncounted
<1>6. QED
  BY <1>1, <1>2, <1>3, <1>4, <1>5 DEF Next, Work

LEMMA HStep == HInv /\ [Next]_vars => HInv'
<1> SUFFICES ASSUME HInv, [Next]_vars PROVE HInv'
  OBVIOUS
<1>1. TInv /\ TInv' /\ HistogramCounts
  BY TStep DEF HInv
<1>2. CASE Observed' = Observed /\ counts' = counts
  <2>1. \A i \in Buckets : InBucket(i)' = InBucket(i)
    BY <1>1, <1>2, ObservedSteps DEF InBucket
  <2>2. QED
    BY <1>1, <1>2, <2>1 DEF HInv, HistogramCounts
<1>3. ASSUME NEW n \in (1 .. processed) \ Observed,
             Observed' = Observed \cup {n}, log' = log,
             counts' = [counts EXCEPT ![Bucket(log[n].us)] = @ + 1]
      PROVE  HInv'
  <2>1. \A i \in Buckets :
           InBucket(i)' = IF i = Bucket(log[n].us) THEN InBucket(i) \cup {n} ELSE InBucket(i)
    BY <1>3 DEF InBucket
  <2>2. counts \in [Buckets -> Nat]
    BY <1>1 DEF TInv, TypeOK, CountersTypeOK
  <2>3. ASSUME NEW i \in Buckets
        PROVE  counts'[i] = Cardinality(InBucket(i)')
    <3>1. IsFiniteSet(InBucket(i)) /\ n \notin InBucket(i) /\ counts[i] = Cardinality(InBucket(i))
      BY <1>1, <1>3, ObservedFinite, FS_Subset DEF InBucket, HistogramCounts
    <3>2. CASE i = Bucket(log[n].us)
      <4>1. Cardinality(InBucket(i)') = Cardinality(InBucket(i)) + 1
        BY <2>1, <3>1, <3>2, FS_AddElement
      <4>2. counts'[i] = counts[i] + 1
        BY <1>3, <2>2, <3>2
      <4>3. QED
        BY <3>1, <4>1, <4>2
    <3>3. CASE i # Bucket(log[n].us)
      BY <1>3, <2>1, <2>2, <3>1, <3>3
    <3>4. QED
      BY <3>2, <3>3
  <2>4. QED
    BY <1>1, <2>3 DEF HInv, HistogramCounts
<1>4. QED
  BY <1>1, <1>2, <1>3, ObservedSteps
----------------------------------------------------------------------------
(* The quantiles.                                                          *)

(* There is one function that sums up the counts from the left.            *)
LEMMA RunningSum ==
  ASSUME NEW cs \in [Buckets -> Nat], NEW f \in [0 .. Infinite -> Nat],
         f[0] = 0, \A i \in Buckets : f[i] = f[i - 1] + cs[i]
  PROVE  Cumulative(cs) = f
<1> DEFINE Sums(g) == g = [i \in 0 .. Infinite |-> IF i = 0 THEN 0 ELSE g[i - 1] + cs[i]]
           c == CHOOSE g : Sums(g)
<1> USE InfiniteType
<1>1. Sums(f)
  <2>1. \A i \in 0 .. Infinite : f[i] = IF i = 0 THEN 0 ELSE f[i - 1] + cs[i]
    OBVIOUS
  <2>2. QED
    BY <2>1
<1>2. Sums(c)
  BY <1>1
<1>3. Cumulative(cs) = c
  BY DEF Cumulative
<1> HIDE DEF c
<1>4. c = [i \in 0 .. Infinite |-> IF i = 0 THEN 0 ELSE c[i - 1] + cs[i]]
  BY <1>2
<1> HIDE DEF Sums
<1>5. DOMAIN c = 0 .. Infinite /\ \A i \in 0 .. Infinite : c[i] = IF i = 0 THEN 0 ELSE c[i - 1] + cs[i]
  BY <1>4
<1>6. \A i \in 0 .. Infinite : c[i] = f[i]
  <2> DEFINE Bad == {i \in 0 .. Infinite : c[i] # f[i]}
  <2>1. SUFFICES ASSUME Bad # {} PROVE FALSE
    OBVIOUS
  <2>2. \E m \in Bad : \A i \in Bad : m <= i
    <3>1. Bad \in SUBSET Nat
      OBVIOUS
    <3> HIDE DEF Bad
    <3>2. QED
      BY <2>1, <3>1, MinIsLeast
  <2>3. PICK m \in Bad : \A i \in Bad : m <= i
    BY <2>2
  <2>4. m \in 0 .. Infinite /\ m # 0 /\ c[m] = c[m - 1] + cs[m] /\ m \in Buckets
    BY <1>5
  <2>5. m - 1 \in 0 .. Infinite /\ m - 1 \notin Bad
    BY <2>3, <2>4
  <2>6. c[m - 1] = f[m - 1]
    BY <2>5
  <2>7. QED
    BY <2>4, <2>6
<1>7. c = [i \in 0 .. Infinite |-> c[i]] /\ f = [i \in 0 .. Infinite |-> f[i]]
  BY <1>4
<1>8. QED
  BY <1>3, <1>6, <1>7

(* The cumulative count of a bucket is the number of observations that do  *)
(* not exceed its bound; that of the last one is all observations.         *)
UptoBucket(i) == {n \in Observed : Bucket(log[n].us) <= i}

LEMMA CumulativeCounts ==
  ASSUME HInv
  PROVE  /\ Cumulative(counts) = [i \in 0 .. Infinite |-> Cardinality(UptoBucket(i))]
         /\ \A i \in 0 .. Infinite : Cardinality(UptoBucket(i)) \in Nat
         /\ Cumulative(counts)[Infinite] = Cardinality(Observed)
         /\ \A i \in DOMAIN Bounds : Cumulative(counts)[i] = Upto(Bounds[i])
<1> DEFINE f == [i \in 0 .. Infinite |-> Cardinality(UptoBucket(i))]
<1>1. TInv /\ HistogramCounts /\ counts \in [Buckets -> Nat]
  BY DEF HInv, TInv, TypeOK, CountersTypeOK
<1>2. \A n \in Observed : log[n].us \in Nat /\ Bucket(log[n].us) \in Buckets
  BY <1>1, ObservedFinite, BucketFits
<1>3. IsFiniteSet(Observed)
  BY <1>1, ObservedFinite
<1>4. \A i : IsFiniteSet(UptoBucket(i)) /\ Cardinality(UptoBucket(i)) \in Nat
  BY <1>3, FS_Subset, FS_CardinalityType DEF UptoBucket
<1>5. f \in [0 .. Infinite -> Nat]
  BY <1>4
<1>6. f[0] = 0
  <2>1. UptoBucket(0) = {}
    BY <1>2, InfiniteType DEF UptoBucket
  <2>2. QED
    BY <2>1, FS_EmptySet, InfiniteType
<1>7. ASSUME NEW i \in Buckets
      PROVE  f[i] = f[i - 1] + counts[i]
  <2>1. UptoBucket(i) = UptoBucket(i - 1) \cup InBucket(i)
    BY <1>2, InfiniteType DEF UptoBucket, InBucket
  <2>2. UptoBucket(i - 1) \cap InBucket(i) = {}
    BY <1>2, InfiniteType DEF UptoBucket, InBucket
  <2>3. IsFiniteSet(InBucket(i)) /\ Cardinality(InBucket(i)) = counts[i]
    BY <1>1, <1>3, FS_Subset DEF InBucket, HistogramCounts
  <2>4. Cardinality(UptoBucket(i)) = Cardinality(UptoBucket(i - 1)) + counts[i] - Cardinality({})
    BY <1>4, <2>1, <2>2, <2>3, FS_Union
  <2>5. counts[i] \in Nat /\ i \in 0 .. Infinite /\ i - 1 \in 0 .. Infinite
    BY <1>1, InfiniteType
  <2>6. QED
    BY <1>4, <2>4, <2>5, FS_EmptySet
<1>8. Cumulative(counts) = f
  BY <1>1, <1>5, <1>6, <1>7, RunningSum
<1>9. UptoBucket(Infinite) = Observed
  BY <1>2, InfiniteType DEF UptoBucket
<1>10. ASSUME NEW i \in DOMAIN Bounds
       PROVE  Cumulative(counts)[i] = Upto(Bounds[i])
  <2>1. i \in 0 .. Infinite
    BY BoundsAssumption DEF Infinite
  <2>2. UptoBucket(i) = {n \in Observed : log[n].us <= Bounds[i]}
    BY <1>2, BucketFits DEF UptoBucket
  <2>3. QED
    BY <1>8, <2>1, <2>2 DEF Upto
<1>11. QED
  BY <1>4, <1>8, <1>9, <1>10, InfiniteType

LEMMA RankOfQuantile ==
  ASSUME HInv, NEW num \in Nat, NEW den \in Nat \ {0}, num <= den
  PROVE  LET bound == Quantile(counts, num, den)
             Reaches(v) == Upto(v) * den >= Cardinality(Observed) * num
         IN  IF Observed = {} THEN bound = 0
             ELSE IF bound = Overflow THEN ~Reaches(Last(Bounds))
             ELSE /\ bound \in Range(Bounds) /\ Reaches(bound)
                  /\ \A b \in Range(Bounds) : b < bound => ~Reaches(b)
<1> DEFINE cum == Cumulative(counts)
           bound == Quantile(counts, num, den)
           Reaches(v) == Upto(v) * den >= Cardinality(Observed) * num
           S == {i \in Buckets : cum[i] * den >= cum[Infinite] * num}
           at == Min(S)
<1>1. /\ \A i \in DOMAIN Bounds : cum[i] = Upto(Bounds[i])
      /\ cum[Infinite] = Cardinality(Observed)
  BY CumulativeCounts
<1>2. IsFiniteSet(Observed) /\ Cardinality(Observed) \in Nat
  BY ObservedFinite DEF HInv
<1>3. bound = IF Cardinality(Observed) = 0 THEN 0 ELSE IF at = Infinite THEN Overflow ELSE Bounds[at]
  BY <1>1 DEF Quantile
<1>4. CASE Observed = {}
  BY <1>3, <1>4, FS_EmptySet
<1>5. CASE Observed # {}
  <2>1. Cardinality(Observed) # 0
    BY <1>2, <1>5, FS_EmptySet
  <2>2. Infinite \in S
    <3>1. Cardinality(Observed) * den >= Cardinality(Observed) * num
      BY <1>2
    <3>2. QED
      BY <1>1, <3>1, InfiniteType
  <2>3. at \in S /\ \A i \in S : at <= i
    <3>1. S \in SUBSET Nat
      BY InfiniteType
    <3> HIDE DEF S
    <3>2. QED
      BY <2>2, <3>1, MinIsLeast
  <2>4. /\ DOMAIN Bounds = 1 .. Len(Bounds) /\ Len(Bounds) \in Nat \ {0}
        /\ Buckets = DOMAIN Bounds \cup {Infinite} /\ Infinite = Len(Bounds) + 1
        /\ \A i \in DOMAIN Bounds : Bounds[i] \in Nat
        /\ \A i, j \in DOMAIN Bounds : i < j => Bounds[i] < Bounds[j]
    BY BoundsAssumption DEF Buckets, Infinite
  <2>5. \A i \in DOMAIN Bounds : i \in S <=> Reaches(Bounds[i])
    BY <1>1, <2>4
  <2> HIDE DEF S, Reaches, bound, cum
  <2>6. CASE at = Infinite
    <3>1. Last(Bounds) = Bounds[Len(Bounds)] /\ Len(Bounds) \in DOMAIN Bounds
      BY <2>4 DEF Last
    <3>2. Len(Bounds) \notin S
      BY <2>3, <2>4, <2>6
    <3>3. bound = Overflow /\ ~Reaches(Last(Bounds))
      BY <1>3, <2>1, <2>5, <2>6, <3>1, <3>2
    <3>4. QED
      BY <1>5, <3>3 DEF bound, Reaches
  <2>7. CASE at # Infinite
    <3>1. at \in DOMAIN Bounds /\ bound = Bounds[at]
      BY <1>3, <2>1, <2>3, <2>4, <2>7 DEF S
    <3>2. bound \in Range(Bounds) /\ bound # Overflow /\ Reaches(bound)
      BY <2>3, <2>4, <2>5, <3>1 DEF Range, Overflow
    <3>3. ASSUME NEW b \in Range(Bounds), b < bound
          PROVE  ~Reaches(b)
      <4>1. PICK j \in DOMAIN Bounds : b = Bounds[j]
        BY DEF Range
      <4>2. j < at
        BY <2>4, <3>1, <3>3, <4>1
      <4>3. QED
        BY <2>3, <2>4, <2>5, <3>1, <4>1, <4>2
    <3>4. QED
      BY <1>5, <3>2, <3>3 DEF bound, Reaches
  <2>8. QED
    BY <2>6, <2>7
<1>6. QED
  BY <1>4, <1>5

(* The percentiles are the bucket bounds at their rank, for any number of  *)
(* transactions, any latencies and any ascending bounds.                   *)
THEOREM PercentilesAreRanks == Spec => []QuantileIsRank
<1>1. HInv => QuantileIsRank
  <2> SUFFICES ASSUME HInv, NEW q \in {<<1, 2>>, <<99, 100>>}
               PROVE  LET bound == Quantile(counts, q[1], q[2])
                          Reaches(v) == Upto(v) * q[2] >= Cardinality(Observed) * q[1]
                      IN  IF Observed = {} THEN bound = 0
                          ELSE IF bound = Overflow THEN ~Reaches(Last(Bounds))
                          ELSE /\ bound \in Range(Bounds) /\ Reaches(bound)
                               /\ \A b \in Range(Bounds) : b < bound => ~Reaches(b)
    BY DEF QuantileIsRank
  <2>1. q[1] \in Nat /\ q[2] \in Nat \ {0} /\ q[1] <= q[2]
    OBVIOUS
  <2>2. QED
    BY <2>1, RankOfQuantile
<1>2. QED
  BY <1>1, HInit, HStep, PTL DEF Spec
----------------------------------------------------------------------------
(* A scrape's latencies.                                                   *)

NotApproved == reviewed + declined

(* Everything owed is observed.  From the first bucket on, the count holds *)
(* what was observed by then in the buckets already read, at the least.    *)
ScrapeCovers ==
    /\ view.stage \in {"reviewed", "declined", "approved"} => view.owed <= Cardinality(Observed)
    /\ view.stage = "declined" => view.shown <= reviewed
    /\ view.stage = "approved" => view.shown <= NotApproved
    /\ view.stage \in {"buckets", "done"} =>
          \E O \in SUBSET Observed :
             /\ view.owed <= Cardinality(O) /\ view.shown - Cardinality(Workers) <= Cardinality(O)
             /\ Cardinality({n \in O : Bucket(log[n].us) < view.at}) <= view.count

SInv == DInv /\ HInv /\ ScrapeCovers

LEMMA SInit == Init => SInv
<1> SUFFICES ASSUME Init PROVE SInv
  OBVIOUS
<1>1. view.stage = "idle"
  BY DEF Init, NoView
<1>2. QED
  BY <1>1, DInit, HInit DEF SInv, ScrapeCovers

(* The steps of the workers and of the ticker.                             *)
LEMMA SWhileOthersWork ==
  ASSUME SInv, DInv', HInv', [Next]_vars, view' = view
  PROVE  ScrapeCovers'
<1>1. TInv /\ TInv'
  BY DEF SInv, DInv
<1>2. /\ Observed \subseteq Observed' /\ \A n \in Observed : log'[n] = log[n]
      /\ Cardinality(Observed) <= Cardinality(Observed') /\ Cardinality(Observed') \in Nat
  <2>1. Observed \subseteq Observed' /\ \A n \in Observed : log'[n] = log[n]
    BY <1>1, ObservedSteps
  <2>2. IsFiniteSet(1 .. processed') /\ Observed' \in SUBSET (1 .. processed')
    BY <1>1, FS_Interval DEF TInv, TypeOK, ScoredTypeOK, Observed
  <2>3. IsFiniteSet(Observed') /\ Cardinality(Observed') \in Nat
    BY <2>2, FS_Subset, FS_CardinalityType
  <2>4. QED
    BY <2>1, <2>3, FS_Subset
<1>3. /\ view.owed \in Nat /\ view.shown \in Nat
      /\ Cardinality(Observed) \in Nat /\ Cardinality(Observed') \in Nat
      /\ reviewed \in Nat /\ declined \in Nat /\ approved \in Nat
  <2>1. Cardinality(Observed) \in Nat
    BY <1>1, ObservedFinite
  <2>2. QED
    BY <2>1, <1>1, <1>2 DEF TInv, TypeOK, CountersTypeOK, ViewTypeOK
<1>4. NotApproved \in Nat
  BY <1>3 DEF NotApproved
<1>5. /\ reviewed' = reviewed \/ reviewed' = reviewed + 1
      /\ NotApproved' = NotApproved \/ NotApproved' = NotApproved + 1
  <2>1. ASSUME NEW w \in Workers, CountDecision(w)
        PROVE  /\ reviewed' = reviewed \/ reviewed' = reviewed + 1
               /\ NotApproved' = NotApproved \/ NotApproved' = NotApproved + 1
    BY <2>1, <1>3 DEF CountDecision, Decision, Decide, NotApproved
  <2>2. CASE UNCHANGED decisions
    BY <2>2 DEF decisions, NotApproved
  <2>3. (\E w \in Workers : CountDecision(w)) \/ UNCHANGED decisions
    BY DEF Next, Work, Process, CountFires, Observe, KeepRecent, Tick, TickLoads, StoreRate,
           StoreSnap, Counted, Scrape, ReadProcessed, ReadReviewed, ReadDeclined, ReadApproved,
           ReadBucket, Read, Scraped, vars
  <2>4. QED
    BY <2>1, <2>2, <2>3
<1>6. CASE view.stage \in {"buckets", "done"}
  <2>1. PICK O \in SUBSET Observed :
          /\ view.owed <= Cardinality(O) /\ view.shown - Cardinality(Workers) <= Cardinality(O)
          /\ Cardinality({n \in O : Bucket(log[n].us) < view.at}) <= view.count
    BY <1>6 DEF SInv, ScrapeCovers
  <2>2. {n \in O : Bucket(log[n].us) < view.at} = {n \in O : Bucket(log'[n].us) < view.at}
    BY <1>2
  <2>3. O \in SUBSET Observed'
    BY <1>2
  <2>4. QED
    BY <2>1, <2>2, <2>3, <1>6 DEF ScrapeCovers
<1>7. CASE view.stage \notin {"buckets", "done"}
  <2>1. view.stage \in {"reviewed", "declined", "approved"} => view.owed <= Cardinality(Observed')
    BY <1>2, <1>3 DEF SInv, ScrapeCovers
  <2>2. view.stage = "declined" => view.shown <= reviewed'
    BY <1>3, <1>5 DEF SInv, ScrapeCovers
  <2>3. view.stage = "approved" => view.shown <= NotApproved'
    BY <1>3, <1>4, <1>5 DEF SInv, ScrapeCovers
  <2>4. QED
    BY <1>7, <2>1, <2>2, <2>3 DEF ScrapeCovers
<1>8. QED
  BY <1>6, <1>7

(* The steps of the scrape itself. *)
LEMMA SWhileScraping ==
  ASSUME SInv, DInv', HInv', Scrape
  PROVE  ScrapeCovers'
<1>1. TInv /\ DInv /\ HistogramCounts
  BY DEF SInv, DInv, HInv
<1>2. /\ UNCHANGED <<log, processed, approved, reviewed, declined, counts>>
      /\ Observed' = Observed /\ NotApproved' = NotApproved
  BY DEF Scrape, ReadProcessed, ReadReviewed, ReadDeclined, ReadApproved, ReadBucket, Read,
         Scraped, Observed, Uncounted, NotApproved, decisions
<1>3. /\ view \in [stage : {"idle", "reviewed", "declined", "approved", "buckets", "done"},
                   owed : Nat, shown : Nat, at : 1 .. Infinite + 1, count : Nat]
      /\ counts \in [Buckets -> Nat] /\ processed \in Nat
      /\ reviewed \in Nat /\ declined \in Nat /\ approved \in Nat
  BY <1>1 DEF TInv, TypeOK, ScoredTypeOK, CountersTypeOK, ViewTypeOK
<1>4. /\ IsFiniteSet(Observed) /\ Cardinality(Observed) \in Nat
      /\ \A n \in Observed : Bucket(log[n].us) \in Buckets
  BY <1>1, ObservedFinite, BucketFits
<1>5. CASE ReadProcessed
  <2>1. view'.stage = "reviewed" /\ view'.owed = Cardinality(Observed)
    BY <1>1, <1>3, <1>5, ObservedCardinality DEF ReadProcessed, Read
  <2>2. QED
    BY <1>2, <1>4, <2>1 DEF ScrapeCovers
<1>6. CASE ReadReviewed
  <2>1. view.stage = "reviewed" /\ view'.stage = "declined" /\ view'.owed = view.owed /\ view'.shown = reviewed
    BY <1>3, <1>6 DEF ReadReviewed, Read
  <2>2. QED
    BY <1>2, <1>3, <2>1 DEF SInv, ScrapeCovers
<1>7. CASE ReadDeclined
  <2>1. /\ view.stage = "declined" /\ view'.stage = "approved" /\ view'.owed = view.owed
        /\ view'.shown = view.shown + declined /\ view.shown <= reviewed /\ view.shown \in Nat
    BY <1>3, <1>7 DEF ReadDeclined, Read, SInv, ScrapeCovers
  <2>2. view'.shown <= NotApproved
    BY <1>3, <2>1 DEF NotApproved
  <2>3. QED
    BY <1>2, <2>1, <2>2 DEF SInv, ScrapeCovers
<1>8. CASE ReadApproved
  <2>1. /\ view.stage = "approved" /\ view'.stage = "buckets" /\ view'.owed = view.owed
        /\ view'.shown = view.shown + approved /\ view'.at = view.at /\ view'.count = view.count
        /\ view.owed <= Cardinality(Observed) /\ view.shown <= NotApproved /\ view.shown \in Nat
    BY <1>3, <1>8 DEF ReadApproved, Read, SInv, ScrapeCovers
  <2>2. view'.shown <= Decided /\ Decided <= processed
    <3>1. view'.shown <= Decided /\ Decided \in Nat
      BY <1>3, <2>1 DEF NotApproved, Decided
    <3>2. QED
      BY <3>1, <1>1, <1>3, UndecidedFinite DEF DInv, DecisionsCounted
  <2>3. /\ Cardinality(Workers) \in Nat
        /\ processed - Cardinality(Workers) <= Cardinality(Observed)
    <3>1. Uncounted \in SUBSET Workers /\ IsFiniteSet(Workers)
      BY ConstantsAssumption DEF Uncounted
    <3>2. Cardinality(Uncounted) <= Cardinality(Workers) /\ Cardinality(Workers) \in Nat
      BY <3>1, FS_Subset, FS_CardinalityType
    <3>3. Cardinality(Uncounted) \in Nat
      BY <1>1, FewUncounted
    <3>4. QED
      BY <1>1, <1>3, <3>2, <3>3, ObservedCardinality DEF Owed
  <2>4. view'.shown \in Nat /\ Decided \in Nat
    BY <1>3, <2>1 DEF Decided
  <2>5. view'.shown - Cardinality(Workers) <= Cardinality(Observed)
    BY <1>3, <1>4, <2>2, <2>3, <2>4
  <2>6. Cardinality({n \in Observed : Bucket(log'[n].us) < view'.at}) <= view'.count
    <3>1. view.at = 1 /\ view.count \in Nat
      BY <1>1, <1>3, <2>1 DEF TInv, BucketsInTurn
    <3>2. {n \in Observed : Bucket(log'[n].us) < view'.at} = {}
      BY <1>2, <1>4, <2>1, <3>1, InfiniteType
    <3>3. Cardinality({}) = 0 /\ 0 <= view'.count
      BY <2>1, <3>1, FS_EmptySet
    <3>4. QED
      BY <3>2, <3>3
  <2>7. QED
    BY <1>2, <2>1, <2>5, <2>6 DEF ScrapeCovers
<1>9. CASE ReadBucket
  <2>1. /\ view.stage = "buckets" /\ view'.stage \in {"buckets", "done"} /\ view'.owed = view.owed
        /\ view'.shown = view.shown /\ view'.at = view.at + 1
        /\ view'.count = view.count + counts[view.at]
    BY <1>3, <1>9 DEF ReadBucket, Read
  <2>2. view.at \in Buckets /\ view.count \in Nat
    BY <1>1, <1>3, <2>1 DEF TInv, BucketsInTurn
  <2>3. PICK O \in SUBSET Observed :
          /\ view.owed <= Cardinality(O) /\ view.shown - Cardinality(Workers) <= Cardinality(O)
          /\ Cardinality({n \in O : Bucket(log[n].us) < view.at}) <= view.count
    BY <2>1 DEF SInv, ScrapeCovers
  <2> DEFINE Past == {n \in O : Bucket(log[n].us) < view.at}
             Here == {n \in O : Bucket(log[n].us) = view.at}
  <2>4. {n \in O : Bucket(log[n].us) < view.at + 1} = Past \cup Here /\ Past \cap Here = {}
    BY <1>4, <2>2, InfiniteType
  <2>5. /\ IsFiniteSet(Past) /\ IsFiniteSet(Here)
        /\ Cardinality(Past) \in Nat /\ Cardinality(Here) \in Nat
    BY <1>4, FS_Subset, FS_CardinalityType
  <2>6. Cardinality(Here) <= counts[view.at]
    <3>1. Here \in SUBSET InBucket(view.at) /\ IsFiniteSet(InBucket(view.at))
      BY <1>4, FS_Subset DEF InBucket
    <3>2. QED
      BY <1>1, <2>2, <3>1, FS_Subset DEF HistogramCounts
  <2>7. Cardinality(Past \cup Here) = Cardinality(Past) + Cardinality(Here)
    <3>1. Cardinality(Past \cup Here) = Cardinality(Past) + Cardinality(Here) - Cardinality({})
      BY <2>4, <2>5, FS_Union
    <3>2. QED
      BY <2>5, <3>1, FS_EmptySet
  <2>8. counts[view.at] \in Nat
    BY <1>3, <2>2
  <2>9. Cardinality(Past \cup Here) <= view'.count
    BY <2>1, <2>2, <2>3, <2>5, <2>6, <2>7, <2>8
  <2>10. {n \in O : Bucket(log'[n].us) < view'.at} = Past \cup Here
    BY <1>2, <2>1, <2>4
  <2>11. O \in SUBSET Observed'
    BY <1>2
  <2> HIDE DEF Past, Here
  <2>12. QED
    BY <2>1, <2>3, <2>9, <2>10, <2>11 DEF ScrapeCovers
<1>10. CASE Scraped
  <2>1. view'.stage = "idle"
    BY <1>10 DEF Scraped, NoView
  <2>2. QED
    BY <2>1 DEF ScrapeCovers
<1>11. QED
  BY <1>5, <1>6, <1>7, <1>8, <1>9, <1>10 DEF Scrape

LEMMA SStep == SInv /\ [Next]_vars => SInv'
<1> SUFFICES ASSUME SInv, [Next]_vars PROVE SInv'
  OBVIOUS
<1>1. DInv' /\ HInv'
  BY DStep, HStep DEF SInv
<1>2. view' = view \/ Scrape
  BY DEF Next, Work, Process, CountDecision, CountFires, Observe, KeepRecent, Tick, TickLoads,
         StoreRate, StoreSnap, Counted, vars
<1>3. QED
  BY <1>1, <1>2, SWhileOthersWork, SWhileScraping DEF SInv

(* The parts of a scrape agree, for any number of workers that score on    *)
(* while it reads: neither the decisions nor the latencies lack a          *)
(* transaction that was done when it began, and the latencies trail the    *)
(* decisions by one per worker at most.                                    *)
THEOREM ScrapesAgree == Spec => []ScrapeAgrees
<1>1. SInv => ScrapeAgrees
  <2> SUFFICES ASSUME SInv PROVE ScrapeAgrees
    OBVIOUS
  <2>1. DecisionsOwed
    BY DEF SInv, DInv, ScrapeOwes
  <2>2. ASSUME view.stage = "done"
        PROVE  view.owed <= view.count /\ view.shown - Cardinality(Workers) <= view.count
    <3>1. PICK O \in SUBSET Observed :
            /\ view.owed <= Cardinality(O) /\ view.shown - Cardinality(Workers) <= Cardinality(O)
            /\ Cardinality({n \in O : Bucket(log[n].us) < view.at}) <= view.count
      BY <2>2 DEF SInv, ScrapeCovers
    <3>2. TInv /\ IsFiniteSet(O) /\ Cardinality(O) \in Nat
      BY ObservedFinite, FS_Subset, FS_CardinalityType DEF SInv, HInv
    <3>3. {n \in O : Bucket(log[n].us) < view.at} = O
      <4>1. view.at = Infinite + 1
        BY <2>2, <3>2 DEF TInv, BucketsInTurn
      <4>2. \A n \in O : Bucket(log[n].us) \in Buckets
        BY <3>2, ObservedFinite, BucketFits
      <4>3. QED
        BY <4>1, <4>2, InfiniteType
    <3>4. /\ view.owed \in Nat /\ view.shown \in Nat /\ view.count \in Nat
          /\ Cardinality(Workers) \in Nat
      BY <3>2, ConstantsAssumption, FS_CardinalityType DEF TInv, TypeOK, ViewTypeOK
    <3>5. Cardinality(O) <= view.count
      BY <3>1, <3>3
    <3>6. QED
      BY <3>1, <3>2, <3>4, <3>5
  <2>3. QED
    BY <2>1, <2>2 DEF ScrapeAgrees
<1>2. QED
  BY <1>1, SInit, SStep, PTL DEF Spec

----------------------------------------------------------------------------
(* Every decision is explained by the rules that fired.                    *)

(* What a decision claims of the rules: a review one, a decline two.       *)
Claims(n) == IF Decision(n) = "decline" THEN 2 ELSE IF Decision(n) = "review" THEN 1 ELSE 0

(* The claims whose flags are not counted yet.                             *)
owing == [w \in Workers |-> IF stage[w] = "fires" THEN Claims(job[w]) ELSE 0]
Owing == SumFunctionOnSet(owing, Workers)

Fired == SumFunctionOnSet(fires, RuleNames)

ClaimsCovered == reviewed + 2 * declined <= Fired + Owing

EInv == TInv /\ ClaimsCovered

LEMMA RuleNamesFinite == IsFiniteSet(RuleNames)
<1>1. RuleNames = {"amount_extreme"} \cup {"amount_high"} \cup {"card_velocity_extreme"}
                    \cup {"card_velocity"} \cup {"ip_fanout_extreme"} \cup {"ip_fanout"}
                    \cup {"geo_mismatch"} \cup {"high_risk_mcc"}
  BY DEF RuleNames, Points
<1>2. \A S, e : IsFiniteSet(S) => IsFiniteSet(S \cup {e})
  BY FS_AddElement
<1>3. IsFiniteSet({"amount_extreme"})
  BY FS_Singleton
<1>4. QED
  BY <1>1, <1>2, <1>3

(* The claims of one worker, and of all.                                   *)
LEMMA OwingType ==
  ASSUME TInv
  PROVE  /\ \A w \in Workers : owing[w] \in 0 .. 2
         /\ Owing \in Nat /\ Fired \in Nat
<1>1. \A w \in Workers : owing[w] \in 0 .. 2
  BY DEF owing, Claims
<1>2. \A r \in RuleNames : fires[r] \in Nat
  BY DEF TInv, TypeOK, CountersTypeOK
<1>3. QED
  BY <1>1, <1>2, SumType, RuleNamesFinite, ConstantsAssumption DEF Owing, Fired

(* A step of worker w changes what w owes alone.                           *)
LEMMA OwingChange ==
  ASSUME TInv, TInv', NEW w \in Workers,
         \A v \in Workers \ {w} : owing'[v] = owing[v]
  PROVE  Owing' = Owing - owing[w] + owing'[w]
<1>1. \A v \in Workers : owing[v] \in Nat /\ owing'[v] \in Nat
  BY DEF owing, Claims
<1>2. SumFunctionOnSet(owing', Workers) = SumFunctionOnSet(owing, Workers) - owing[w] + owing'[w]
  BY <1>1, SumChange, ConstantsAssumption
<1>3. QED
  BY <1>2 DEF Owing

(* Counting the flags of a transaction covers its claims.                  *)
LEMMA FlagsCoverClaims ==
  ASSUME TInv, NEW n \in 1 .. processed, NEW gs \in [RuleNames -> Nat],
         gs = [r \in RuleNames |-> IF r \in Flags(log[n].tx) THEN fires[r] + 1 ELSE fires[r]]
  PROVE  SumFunctionOnSet(gs, RuleNames) >= Fired + Claims(n)
<1> DEFINE tx == log[n].tx
<1>1. tx \in Features /\ \A r \in RuleNames : fires[r] \in Nat
  BY ConstantsAssumption DEF TInv, TypeOK, ScoredTypeOK, CountersTypeOK
<1>2. \A r \in RuleNames : fires[r] <= gs[r]
  BY <1>1
<1>3. Flags(tx) \subseteq RuleNames
  BY <1>1, FlagsRaised, Answers DEF RuleNames, Points
<1>4. CASE Claims(n) = 0
  <2>1. SumFunctionOnSet(fires, RuleNames) <= SumFunctionOnSet(gs, RuleNames)
    BY <1>1, <1>2, SumLess, RuleNamesFinite
  <2>2. QED
    BY <1>4, <2>1, OwingType, SumType, RuleNamesFinite DEF Fired
<1>5. ASSUME NEW f \in Flags(tx)
      PROVE  LET one == [fires EXCEPT ![f] = @ + 1]
             IN  /\ SumFunctionOnSet(one, RuleNames) = Fired + 1
                 /\ one \in [RuleNames -> Nat] /\ \A r \in RuleNames : one[r] <= gs[r]
  <2> DEFINE one == [fires EXCEPT ![f] = @ + 1]
  <2>1. f \in RuleNames /\ fires \in [RuleNames -> Nat]
    BY <1>3 DEF TInv, TypeOK, CountersTypeOK
  <2>2. /\ one \in [RuleNames -> Nat] /\ one[f] = fires[f] + 1
        /\ \A r \in RuleNames \ {f} : one[r] = fires[r]
    BY <1>1, <2>1
  <2> HIDE DEF one
  <2>3. SumFunctionOnSet(one, RuleNames) = SumFunctionOnSet(fires, RuleNames) - fires[f] + one[f]
    BY <1>1, <2>1, <2>2, SumChange, RuleNamesFinite
  <2>4. SumFunctionOnSet(one, RuleNames) = Fired + 1
    BY <1>1, <2>1, <2>2, <2>3, OwingType DEF Fired
  <2>5. \A r \in RuleNames : one[r] <= gs[r]
    BY <1>1, <1>2, <2>1, <2>2
  <2>6. QED
    BY <2>2, <2>4, <2>5 DEF one
<1>6. CASE Claims(n) = 1
  <2>1. PICK f \in Flags(tx) : TRUE
    BY <1>1, <1>6, FlaggedHasAReason DEF Claims, Decision
  <2> DEFINE one == [fires EXCEPT ![f] = @ + 1]
  <2>2. /\ SumFunctionOnSet(one, RuleNames) = Fired + 1
        /\ one \in [RuleNames -> Nat] /\ \A r \in RuleNames : one[r] <= gs[r]
    BY <1>5
  <2> HIDE DEF one
  <2>3. SumFunctionOnSet(one, RuleNames) <= SumFunctionOnSet(gs, RuleNames)
    BY <2>2, SumLess, RuleNamesFinite
  <2>4. QED
    BY <1>6, <2>2, <2>3, OwingType, SumType, RuleNamesFinite
<1>7. CASE Claims(n) = 2
  <2>1. PICK f, g \in Flags(tx) : f # g
    BY <1>1, <1>7, DeclineTakesTwo DEF Claims, Decision
  <2> DEFINE one == [fires EXCEPT ![f] = @ + 1]
             two == [one EXCEPT ![g] = @ + 1]
  <2>2. /\ SumFunctionOnSet(one, RuleNames) = Fired + 1
        /\ one \in [RuleNames -> Nat] /\ \A r \in RuleNames : one[r] <= gs[r]
    BY <1>5
  <2>3. g \in RuleNames /\ one[g] = fires[g] /\ gs[g] = fires[g] + 1 /\ fires[g] \in Nat
    BY <1>1, <1>3, <2>1 DEF TInv, TypeOK, CountersTypeOK
  <2> HIDE DEF one
  <2>4. /\ two \in [RuleNames -> Nat] /\ two[g] = one[g] + 1
        /\ \A r \in RuleNames \ {g} : two[r] = one[r]
    BY <2>2, <2>3
  <2> HIDE DEF two
  <2>5. SumFunctionOnSet(two, RuleNames) = SumFunctionOnSet(one, RuleNames) - one[g] + two[g]
    BY <2>2, <2>3, <2>4, SumChange, RuleNamesFinite
  <2>6. \A r \in RuleNames : two[r] <= gs[r]
    BY <2>2, <2>3, <2>4
  <2>7. SumFunctionOnSet(two, RuleNames) <= SumFunctionOnSet(gs, RuleNames)
    BY <2>4, <2>6, SumLess, RuleNamesFinite
  <2>8. QED
    BY <1>7, <2>2, <2>3, <2>4, <2>5, <2>7, OwingType, SumType, RuleNamesFinite
<1>8. QED
  BY <1>4, <1>6, <1>7 DEF Claims

LEMMA EInit == Init => EInv
<1> SUFFICES ASSUME Init PROVE EInv
  OBVIOUS
<1>1. TInv
  BY TInit
<1>2. QED
  BY <1>1, OwingType DEF Init, EInv, ClaimsCovered

LEMMA EStep == EInv /\ [Next]_vars => EInv'
<1> SUFFICES ASSUME EInv, [Next]_vars PROVE EInv'
  OBVIOUS
<1>t. TInv /\ TInv' /\ ClaimsCovered
  BY TStep DEF EInv
<1>w. /\ stage \in [Workers -> {"idle", "decide", "fires", "observe", "ring"}]
      /\ job \in [Workers -> 0 .. processed] /\ processed \in Nat
      /\ \A w \in Workers : stage[w] = "idle" <=> job[w] = 0
      /\ log \in Seq(Samples) /\ Len(log) = processed
      /\ reviewed \in Nat /\ declined \in Nat /\ reviewed' \in Nat /\ declined' \in Nat
      /\ fires \in [RuleNames -> Nat]
  BY <1>t DEF TInv, TypeOK, ScoredTypeOK, CountersTypeOK
<1>n. Owing \in Nat /\ Fired \in Nat /\ Fired' \in Nat
  <2>1. \A r \in RuleNames : fires'[r] \in Nat
    BY <1>t DEF TInv, TypeOK, CountersTypeOK
  <2>2. QED
    BY <1>t, <2>1, OwingType, SumType, RuleNamesFinite DEF Fired
<1>1. ASSUME NEW w \in Workers, Process(w)
      PROVE  ClaimsCovered'
  <2>1. UNCHANGED <<reviewed, declined, fires>>
    BY <1>1 DEF Process, decisions
  <2>2. \A v \in Workers : owing'[v] = owing[v]
    <3>1. \A n \in 1 .. processed : log'[n] = log[n]
      BY <1>1, <1>w DEF Process
    <3>2. \A v \in Workers : stage'[v] = "fires" <=> stage[v] = "fires"
      BY <1>1, <1>w DEF Process
    <3>3. \A v \in Workers : stage[v] = "fires" => job'[v] = job[v] /\ job[v] \in 1 .. processed
      BY <1>1, <1>w DEF Process
    <3>4. QED
      BY <3>1, <3>2, <3>3 DEF owing, Claims, Decision
  <2>3. Owing' = Owing
    <3>1. SumFunctionOnSet(owing', Workers) = SumFunctionOnSet(owing, Workers)
      BY <1>t, <2>2, OwingType, SumSame, ConstantsAssumption
    <3>2. QED
      BY <3>1 DEF Owing
  <2>4. QED
    BY <1>t, <2>1, <2>3 DEF ClaimsCovered, Fired
<1>2. ASSUME NEW w \in Workers, CountDecision(w)
      PROVE  ClaimsCovered'
  <2>1. /\ UNCHANGED <<log, job, fires>> /\ stage[w] = "decide" /\ job[w] \in 1 .. processed
        /\ \A v \in Workers \ {w} : stage'[v] = stage[v]
        /\ stage'[w] = IF Flags(log[job[w]].tx) = {} THEN "observe" ELSE "fires"
    BY <1>2, <1>w DEF CountDecision
  <2>2. reviewed' + 2 * declined' = reviewed + 2 * declined + Claims(job[w])
    BY <1>2, <1>w DEF CountDecision, Claims
  <2>3. owing[w] = 0 /\ owing'[w] = Claims(job[w])
    <3>1. log[job[w]].tx \in Features
      BY <1>w, <2>1, ConstantsAssumption
    <3>2. Claims(job[w]) # 0 => Flags(log[job[w]].tx) # {}
      BY <3>1, FlaggedHasAReason DEF Claims, Decision
    <3>3. QED
      BY <2>1, <3>2 DEF owing, Claims, Decision
  <2>4. \A v \in Workers \ {w} : owing'[v] = owing[v]
    BY <2>1 DEF owing, Claims, Decision
  <2>5. Owing' = Owing + Claims(job[w])
    BY <1>t, <1>n, <2>3, <2>4, OwingChange, OwingType DEF Claims
  <2>6. Claims(job[w]) \in Nat /\ Fired' = Fired
    BY <2>1 DEF Claims, Fired
  <2>7. reviewed' + 2 * declined' <= Fired' + Owing'
    <3>1. reviewed + 2 * declined <= Fired + Owing
      BY <1>t DEF ClaimsCovered
    <3>2. /\ reviewed \in Nat /\ declined \in Nat /\ reviewed' \in Nat /\ declined' \in Nat
          /\ Owing \in Nat /\ Fired \in Nat
      BY <1>w, <1>n
    <3>3. QED
      BY <2>2, <2>5, <2>6, <3>1, <3>2
  <2>8. QED
    BY <2>7 DEF ClaimsCovered
<1>3. ASSUME NEW w \in Workers, CountFires(w)
      PROVE  ClaimsCovered'
  <2>1. /\ UNCHANGED <<log, job, reviewed, declined>> /\ stage[w] = "fires"
        /\ job[w] \in 1 .. processed
        /\ \A v \in Workers \ {w} : stage'[v] = stage[v]
        /\ stage'[w] = "observe"
    BY <1>3, <1>w DEF CountFires, decisions
  <2>2. owing[w] = Claims(job[w]) /\ owing'[w] = 0
    BY <2>1 DEF owing
  <2>3. \A v \in Workers \ {w} : owing'[v] = owing[v]
    BY <2>1 DEF owing, Claims, Decision
  <2>4. Owing' = Owing - Claims(job[w])
    BY <1>t, <1>n, <2>2, <2>3, OwingChange DEF Claims
  <2>5. SumFunctionOnSet(fires', RuleNames) >= Fired + Claims(job[w])
    <3>1. fires' \in [RuleNames -> Nat]
      BY <1>t DEF TInv, TypeOK, CountersTypeOK
    <3>2. fires' = [r \in RuleNames |-> IF r \in Flags(log[job[w]].tx) THEN fires[r] + 1 ELSE fires[r]]
      BY <1>3 DEF CountFires
    <3>3. QED
      BY <1>t, <2>1, <3>1, <3>2, FlagsCoverClaims
  <2>6. Claims(job[w]) \in Nat /\ Fired' >= Fired + Claims(job[w])
    BY <2>5 DEF Claims, Fired
  <2>7. QED
    <3>1. reviewed + 2 * declined <= Fired + Owing
      BY <1>t DEF ClaimsCovered
    <3>2. /\ reviewed \in Nat /\ declined \in Nat /\ reviewed' = reviewed /\ declined' = declined
          /\ Owing \in Nat /\ Fired \in Nat /\ Fired' \in Nat
      BY <1>w, <1>n, <2>1
    <3>3. reviewed' + 2 * declined' <= Fired' + Owing'
      BY <2>4, <2>6, <3>1, <3>2
    <3>4. QED
      BY <3>3 DEF ClaimsCovered
<1>4. ASSUME NEW w \in Workers, Observe(w) \/ KeepRecent(w)
      PROVE  ClaimsCovered'
  <2>1. /\ UNCHANGED <<log, reviewed, declined, fires>>
        /\ \A v \in Workers \ {w} : stage'[v] = stage[v] /\ job'[v] = job[v]
        /\ stage[w] # "fires" /\ stage'[w] # "fires"
    BY <1>4, <1>w DEF Observe, KeepRecent, decisions
  <2>2. \A v \in Workers : owing'[v] = owing[v]
    BY <2>1 DEF owing, Claims, Decision
  <2>3. SumFunctionOnSet(owing', Workers) = SumFunctionOnSet(owing, Workers)
    BY <1>t, <2>2, OwingType, SumSame, ConstantsAssumption
  <2>4. Owing' = Owing /\ Fired' = Fired
    BY <2>1, <2>3 DEF Owing, Fired
  <2>5. QED
    BY <1>t, <2>1, <2>4 DEF ClaimsCovered
<1>5. CASE Tick \/ Scrape \/ UNCHANGED vars
  <2>1. UNCHANGED <<log, stage, job, reviewed, declined, fires>>
    BY <1>5 DEF Tick, TickLoads, StoreRate, StoreSnap, Counted, Scrape, ReadProcessed, decisions,
                ReadReviewed, ReadDeclined, ReadApproved, ReadBucket, Read, Scraped, vars
  <2>2. Owing' = Owing /\ Fired' = Fired
    BY <2>1 DEF Owing, owing, Fired, Claims, Decision
  <2>3. QED
    BY <2>1, <2>2, <1>t DEF EInv, ClaimsCovered
<1>6. QED
  BY <1>t, <1>1, <1>2, <1>3, <1>4, <1>5 DEF Next, Work, EInv

(* Whatever is flagged has fired a rule and whatever is declined two, but   *)
(* for what the workers are about to count: no decision is ever unexplained *)
(* by the counters of the rules, for any workers and samples.               *)
THEOREM DecisionsExplained == Spec => []DecisionsAreExplained
<1>1. ASSUME EInv PROVE DecisionsAreExplained
  <2> DEFINE F == {w \in Workers : stage[w] = "fires"}
  <2>1. TInv /\ ClaimsCovered /\ IsFiniteSet(F)
    BY <1>1, FS_Subset, ConstantsAssumption DEF EInv
  <2>2. Owing = SumFunctionOnSet(owing, F)
    <3>1. \A w \in Workers \ F : owing[w] = 0
      BY DEF owing
    <3>2. \A w \in Workers : owing[w] \in Nat
      BY <2>1, OwingType
    <3> HIDE DEF F
    <3>3. QED
      BY <2>1, <3>1, <3>2, SumWhere, ConstantsAssumption DEF Owing, F
  <2>3. SumFunctionOnSet(owing, F) <= Cardinality(F) * 2
    <3>1. \A w \in F : owing[w] \in 0 .. 2
      BY <2>1, OwingType
    <3> HIDE DEF F
    <3>2. QED
      BY <2>1, <3>1, SumBounded
  <2>4. SumFunction(fires) = Fired
    BY <2>1 DEF SumFunction, Fired, TInv, TypeOK, CountersTypeOK
  <2>5. Cardinality(F) \in Nat /\ Owing \in Nat /\ Fired \in Nat /\ reviewed \in Nat /\ declined \in Nat
    BY <2>1, FS_CardinalityType, OwingType DEF TInv, TypeOK, CountersTypeOK
  <2> HIDE DEF F
  <2>6. reviewed + 2 * declined <= SumFunction(fires) + 2 * Cardinality(F)
    BY <2>1, <2>2, <2>3, <2>4, <2>5 DEF ClaimsCovered
  <2>7. QED
    BY <2>6 DEF DecisionsAreExplained, F
<1>2. QED
  BY <1>1, EInit, EStep, PTL DEF Spec
=============================================================================
