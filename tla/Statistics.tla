----------------------------- MODULE Statistics -----------------------------
(***************************************************************************)
(* What the engine counts (internal/engine/engine.go, from score down) and *)
(* what reads the counts while they change: the rate ticker, GET /metrics, *)
(* GET /api/stats and the feed.  Every atomic operation and every locked    *)
(* section is a step of its own.                                           *)
(*                                                                          *)
(* A transaction is known by its number, what processed.Add returned.  log *)
(* and feed are history: what the transactions were, and what was put into *)
(* the ring.  The sum of the latencies and the counter of shed load, which *)
(* no property relates to the others, are left out (for the latter see      *)
(* Engine).                                                                 *)
(***************************************************************************)
EXTENDS Scoring, Histogram, SequencesExt, Filter

CONSTANTS
    Workers,
    Samples,    \* transactions to come: [tx : Features, us : latency]
    RingSize,
    Trickle,    \* every Trickle-th approval is shown as well: 97
    MaxScored   \* bound: transactions

ASSUME ConstantsAssumption ==
    /\ IsFiniteSet(Workers)
    /\ Samples \subseteq [tx : Features, us : Nat]
    /\ {RingSize, Trickle} \subseteq Nat \ {0} /\ MaxScored \in Nat

VARIABLES
    log,
    stage,     \* stage[w]: what worker w does next with its transaction
    job,       \* job[w]: the number of that transaction
    processed, approved, reviewed, declined,
    fires,     \* ruleFires
    counts,    \* the histogram
    ring, ringAt, feed,
    lastSnap,
    ticker,    \* the rate ticker: [stage, now]
    rated,     \* history: the sum of all the values lastRate has had
    view       \* a scrape on its way

recent == <<ring, ringAt, feed>>
rate == <<lastSnap, ticker, rated>>
decisions == <<approved, reviewed, declined>>
vars == <<log, stage, job, processed, decisions, fires, counts, recent, rate, view>>

NoView == [stage |-> "idle", owed |-> 0, shown |-> 0, at |-> 1, count |-> 0]

Init ==
    /\ log = <<>>
    /\ stage = [w \in Workers |-> "idle"] /\ job = [w \in Workers |-> 0]
    /\ processed = 0 /\ approved = 0 /\ reviewed = 0 /\ declined = 0
    /\ fires = [r \in RuleNames |-> 0]
    /\ counts = [i \in Buckets |-> 0]
    /\ ring = [i \in 0 .. RingSize - 1 |-> 0] /\ ringAt = 0 /\ feed = <<>>
    /\ lastSnap = 0 /\ rated = 0
    /\ ticker = [stage |-> "wait", now |-> 0]
    /\ view = NoView

----------------------------------------------------------------------------
(* score, after the rules have run. *)

Decision(n) == Decide(Total(log[n].tx))

(* processed.Add gives the transaction its number. *)
Process(w) ==
    /\ stage[w] = "idle" /\ processed < MaxScored
    /\ \E s \in Samples : log' = Append(log, s)
    /\ processed' = processed + 1
    /\ job' = [job EXCEPT ![w] = processed']
    /\ stage' = [stage EXCEPT ![w] = "decide"]
    /\ UNCHANGED <<decisions, fires, counts, recent, rate, view>>

CountDecision(w) ==
    LET decision == Decision(job[w]) IN
    /\ stage[w] = "decide"
    /\ approved' = IF decision = "approve" THEN approved + 1 ELSE approved
    /\ reviewed' = IF decision = "review" THEN reviewed + 1 ELSE reviewed
    /\ declined' = IF decision = "decline" THEN declined + 1 ELSE declined
    /\ stage' = [stage EXCEPT ![w] = IF Flags(log[job[w]].tx) = {} THEN "observe" ELSE "fires"]
    /\ UNCHANGED <<log, job, processed, fires, counts, recent, rate, view>>

(* Under ruleMu. *)
CountFires(w) ==
    LET flags == Flags(log[job[w]].tx) IN
    /\ stage[w] = "fires"
    /\ fires' = [r \in RuleNames |-> IF r \in flags THEN fires[r] + 1 ELSE fires[r]]
    /\ stage' = [stage EXCEPT ![w] = "observe"]
    /\ UNCHANGED <<log, job, processed, decisions, counts, recent, rate, view>>

(* Fault: the trickle goes by how many have been processed by now. *)
ShownByNow(n) == Decision(n) # "approve" \/ processed % Trickle = 0

(* Flagged verdicts, and a trickle of approvals. *)
Shown(n) == Decision(n) # "approve" \/ n % Trickle = 0

(* lat.observe; then OnFlagged, which leaves the statistics alone. *)
Observe(w) ==
    LET n == job[w] IN
    /\ stage[w] = "observe"
    /\ counts' = [counts EXCEPT ![Bucket(log[n].us)] = @ + 1]
    /\ stage' = [stage EXCEPT ![w] = IF Shown(n) THEN "ring" ELSE "idle"]
    /\ job' = IF Shown(n) THEN job ELSE [job EXCEPT ![w] = 0]
    /\ UNCHANGED <<log, processed, decisions, fires, recent, rate, view>>

(* Fault: the index is not wrapped around. *)
KeepRecentRunsOver(w) ==
    /\ stage[w] = "ring"
    /\ ring' = [ring EXCEPT ![ringAt] = job[w]]
    /\ ringAt' = ringAt + 1
    /\ feed' = Append(feed, job[w])
    /\ stage' = [stage EXCEPT ![w] = "idle"] /\ job' = [job EXCEPT ![w] = 0]
    /\ UNCHANGED <<log, processed, decisions, fires, counts, rate, view>>

(* Under ringMu. *)
KeepRecent(w) ==
    /\ stage[w] = "ring"
    /\ ring' = [ring EXCEPT ![ringAt] = job[w]]
    /\ ringAt' = (ringAt + 1) % RingSize
    /\ feed' = Append(feed, job[w])
    /\ stage' = [stage EXCEPT ![w] = "idle"] /\ job' = [job EXCEPT ![w] = 0]
    /\ UNCHANGED <<log, processed, decisions, fires, counts, rate, view>>

----------------------------------------------------------------------------
(* rateTicker, once a second. *)

Counted == <<log, stage, job, processed, decisions, fires, counts, recent, view>>

TickLoads ==
    /\ ticker.stage = "wait"
    /\ ticker' = [stage |-> "rate", now |-> processed]
    /\ UNCHANGED <<Counted, lastSnap, rated>>

StoreRate ==
    /\ ticker.stage = "rate"
    /\ rated' = rated + (ticker.now - lastSnap)
    /\ ticker' = [ticker EXCEPT !.stage = "snap"]
    /\ UNCHANGED <<Counted, lastSnap>>

(* Fault: processed is loaded again. *)
StoreSnapReloads ==
    /\ ticker.stage = "snap"
    /\ lastSnap' = processed
    /\ ticker' = [stage |-> "wait", now |-> 0]
    /\ UNCHANGED <<Counted, rated>>

StoreSnap ==
    /\ ticker.stage = "snap"
    /\ lastSnap' = ticker.now
    /\ ticker' = [stage |-> "wait", now |-> 0]
    /\ UNCHANGED <<Counted, rated>>

----------------------------------------------------------------------------
(* GET /metrics: Snapshot, in its order, then the buckets one by one.  The *)
(* buckets Snapshot reads for its percentiles come in between and are left *)
(* out.  owed is what the scrape has to show: the transactions processed   *)
(* when it began, but for those in the hands of a worker; shown is the sum *)
(* of the three decisions it reports.                                      *)

Uncounted == {w \in Workers : stage[w] \in {"decide", "fires", "observe"}}

Read(from, to, change) ==
    /\ view.stage = from
    /\ view' = [change EXCEPT !.stage = to]
    /\ UNCHANGED <<log, stage, job, processed, decisions, fires, counts, recent, rate>>

Owed == processed - Cardinality(Uncounted)

ReadProcessed == Read("idle", "reviewed", [view EXCEPT !.owed = Owed])

ReadReviewed == Read("reviewed", "declined", [view EXCEPT !.shown = reviewed])

ReadDeclined == Read("declined", "approved", [view EXCEPT !.shown = @ + declined])

(* Fault: processed is loaded beside approved, where the result is built. *)
ReadApprovedAndProcessed ==
    Read("approved", "buckets", [view EXCEPT !.shown = @ + approved, !.owed = Owed])

ReadApproved == Read("approved", "buckets", [view EXCEPT !.shown = @ + approved])

ReadBucket ==
    Read("buckets", IF view.at = Infinite THEN "done" ELSE "buckets",
         [view EXCEPT !.count = @ + counts[view.at], !.at = @ + 1])

Scraped ==
    /\ view.stage = "done"
    /\ view' = NoView
    /\ UNCHANGED <<log, stage, job, processed, decisions, fires, counts, recent, rate>>

(* Recent: the ring, newest first, without the empty slots. *)
Recent ==
    LET slot(i) == (ringAt - 1 - i + RingSize * 2) % RingSize
    IN  Without([i \in 1 .. RingSize |-> ring[slot(i - 1)]], 0)

----------------------------------------------------------------------------
Work(w) ==
    \/ Process(w) \/ CountDecision(w) \/ CountFires(w) \/ Observe(w) \/ KeepRecent(w)

Tick == TickLoads \/ StoreRate \/ StoreSnap

Scrape ==
    \/ ReadProcessed \/ ReadReviewed \/ ReadDeclined \/ ReadApproved \/ ReadBucket
    \/ Scraped

Next == (\E w \in Workers : Work(w)) \/ Tick \/ Scrape

Spec == Init /\ [][Next]_vars

----------------------------------------------------------------------------
(* Properties. *)

ScoredTypeOK ==
    /\ log \in Seq(Samples) /\ Len(log) = processed /\ processed \in 0 .. MaxScored
    /\ stage \in [Workers -> {"idle", "decide", "fires", "observe", "ring"}]
    /\ job \in [Workers -> 0 .. processed]
    /\ \A w \in Workers : stage[w] = "idle" <=> job[w] = 0

CountersTypeOK ==
    /\ approved \in Nat /\ reviewed \in Nat /\ declined \in Nat
    /\ fires \in [RuleNames -> Nat] /\ counts \in [Buckets -> Nat]

RecentTypeOK ==
    /\ ring \in [0 .. RingSize - 1 -> 0 .. processed] /\ ringAt \in 0 .. RingSize - 1
    /\ feed \in Seq(1 .. processed)

RateTypeOK ==
    /\ lastSnap \in 0 .. processed /\ rated \in 0 .. processed
    /\ ticker \in [stage : {"wait", "rate", "snap"}, now : 0 .. processed]

ViewTypeOK ==
    view \in [stage : {"idle", "reviewed", "declined", "approved", "buckets", "done"},
              owed : Nat, shown : Nat, at : 1 .. Infinite + 1, count : Nat]

(* Every variable keeps its type; the ring is never indexed past its end.  *)
TypeOK == ScoredTypeOK /\ CountersTypeOK /\ RecentTypeOK /\ RateTypeOK /\ ViewTypeOK

(* A scrape reads one counter after another while the workers go on: it    *)
(* still shows a decision for every transaction it owes.                   *)
DecisionsOwed ==
    view.stage \in {"buckets", "done"} => view.owed <= view.shown

(* The parts of a scrape agree to within what the workers have in hand:    *)
(* neither the decisions nor the latencies lack a transaction that was     *)
(* done when the scrape began, and the latencies trail the decisions by    *)
(* one per worker at most.                                                 *)
ScrapeAgrees ==
    /\ DecisionsOwed
    /\ view.stage = "done" =>
          /\ view.owed <= view.count
          /\ view.shown - Cardinality(Workers) <= view.count

(* No rule decides alone: whatever is flagged has fired a rule, and what   *)
(* is declined two, but for what a worker is about to count.               *)
DecisionsAreExplained ==
    reviewed + 2 * declined <=
        SumFunction(fires) + 2 * Cardinality({w \in Workers : stage[w] = "fires"})

(* The rates of all seconds add up to what was processed when the last one *)
(* ended: no transaction falls between two seconds or into both.           *)
RatesAddUp ==
    /\ rated = IF ticker.stage = "snap" THEN ticker.now ELSE lastSnap
    /\ lastSnap <= ticker.now \/ ticker.stage = "wait"
    /\ lastSnap <= processed

(* The feed is what was put into the ring last, newest first.              *)
RecentIsNewest ==
    Recent = Reverse(SubSeq(feed, Max({1, Len(feed) - RingSize + 1}), Len(feed)))

(* Each flagged verdict and each Trickle-th transaction gets into the ring *)
(* once, whichever workers score at the same time, and nothing else does.  *)
FeedMissesNothing ==
    /\ IsInjective(feed)
    /\ Range(feed) = {n \in 1 .. processed : Shown(n)}
                        \ Range(job)

(* What GET /api/stats says of the feed is what happened.                  *)
FeedIsTrue == RecentIsNewest /\ FeedMissesNothing

(* The transactions whose latency has been observed, as a reference. *)
Observed == (1 .. processed) \ {job[w] : w \in Uncounted}

Upto(v) == Cardinality({n \in Observed : log[n].us <= v})

(* The percentiles are the upper bounds of the buckets that hold the       *)
(* observation at that rank (the smallest that at least that share of the  *)
(* observations does not exceed), at a bucket's edge too, and Overflow if  *)
(* and only if that observation is above all bounds.                       *)
QuantileIsRank ==
    \A q \in {<<1, 2>>, <<99, 100>>} :
        LET bound == Quantile(counts, q[1], q[2])
            Reaches(v) == Upto(v) * q[2] >= Cardinality(Observed) * q[1]
        IN  IF Observed = {} THEN bound = 0
            ELSE IF bound = Overflow THEN ~Reaches(Last(Bounds))
            ELSE /\ bound \in Range(Bounds) /\ Reaches(bound)
                 /\ \A b \in Range(Bounds) : b < bound => ~Reaches(b)
=============================================================================
