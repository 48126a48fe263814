------------------------------- MODULE Scoring -------------------------------
(***************************************************************************)
(* The rule chain of internal/engine/rules.go as functions of what a rule  *)
(* sees of a transaction: its amount, how many events its card and its IP  *)
(* have in their windows (what touch returned, see VelocityWindow), whether *)
(* its card was issued in another country, and whether the merchant        *)
(* category is a risky one.                                                *)
(***************************************************************************)
EXTENDS Integers, Sequences, Functions

Features ==
    [amount : Nat, card : Nat, ip : Nat, abroad : BOOLEAN, riskyMCC : BOOLEAN]

(* What each flag is worth; a rule that passes has none. *)
Points ==
    [none |-> 0,
     amount_extreme |-> 45, amount_high |-> 20,
     card_velocity_extreme |-> 50, card_velocity |-> 25,
     ip_fanout_extreme |-> 40, ip_fanout |-> 20,
     geo_mismatch |-> 25, high_risk_mcc |-> 15]

RuleNames == DOMAIN Points \ {"none"}

RuleAmount(tx) ==
    IF tx.amount >= 5000 THEN "amount_extreme"
    ELSE IF tx.amount >= 1500 THEN "amount_high" ELSE "none"

RuleCardVelocity(tx) ==
    IF tx.card >= 8 THEN "card_velocity_extreme"
    ELSE IF tx.card >= 4 THEN "card_velocity" ELSE "none"

RuleIPFanOut(tx) ==
    IF tx.ip >= 30 THEN "ip_fanout_extreme"
    ELSE IF tx.ip >= 12 THEN "ip_fanout" ELSE "none"

RuleGeoMismatch(tx) == IF tx.abroad THEN "geo_mismatch" ELSE "none"

RuleHighRiskMCC(tx) == IF tx.riskyMCC THEN "high_risk_mcc" ELSE "none"

DefaultRules(tx) ==
    <<RuleAmount(tx), RuleCardVelocity(tx), RuleIPFanOut(tx),
      RuleGeoMismatch(tx), RuleHighRiskMCC(tx)>>

(* score, the loop over the rules: the flags raised and the points. *)
Flags(tx) == Range(DefaultRules(tx)) \ {"none"}

Total(tx) ==
    Points[RuleAmount(tx)] + Points[RuleCardVelocity(tx)] + Points[RuleIPFanOut(tx)]
        + Points[RuleGeoMismatch(tx)] + Points[RuleHighRiskMCC(tx)]

(* Fault: one threshold for both decisions. *)
DecideAtForty(score) == IF score >= 40 THEN "decline" ELSE "approve"

Decide(score) ==
    IF score >= 70 THEN "decline" ELSE IF score >= 40 THEN "review" ELSE "approve"
=============================================================================
