# Lambari: a TLA+ model

Lambari scores payment transactions for fraud: a Go service (`src/backend`) with a
sharded worker pool, an optional Kafka front end and an in-memory case store, and a React
dashboard (`src/frontend`) fed by server-sent events.  This directory holds a TLA+ model of
the parts where order, concurrency and failure matter, TLC configurations that check it,
and TLAPS proofs of every safety property those configurations check.

    tlc -workers 2 -config KafkaSafety.cfg MCKafkaConsumer     # and so on, see "Runs"
    for m in *Proofs.tla; do tlapm $m; done

## Inventory

| Component | State | Operations | Hard behaviour | What makes it correct |
|---|---|---|---|---|
| Kafka consumer (`kafka/kafka.go`, goroutine in `cmd/api/main.go`) | polled and committed offsets, sticky publish-error counters of two producers | poll, decode, `SubmitBatch`, flush, commit; revoke / lost hooks; `Close` | crash or eviction between any two steps, a publish that fails while `Flush` returns nil, one of somebody else's through the same producer, SIGTERM in the middle of a flush, rebalances | at least once: what is committed has been handled; a poisoned record is parked before it is skipped; after a lost publish no commit is begun until the restart |
| Engine (`engine/engine.go`) and ingest (`api/server.go`) | a bounded queue per worker, WaitGroups, shed counter | `Submit`, `SubmitBatch`, `TrySubmit`, worker loop, `Stop` | full queues, one card among many workers, partial acceptance, drain | order per card, the accepted ones are a prefix, `SubmitBatch` returns after the last hook, `Stop` drains |
| Velocity windows (`engine/rules.go`) | ascending timestamps per key | `touch`, sweeper | late and future transactions, cap, expiry by event time but sweep by wall clock | the count is exact but for what expiry and cap took, neither changes a decision on the newest; what is swept is missed by none that is on time |
| Simulator and shutdown (`api/server.go`, `cmd/api/main.go`) | `simMu`, stop/done channels, `simRate`, `simActive`; what the DLQ still buffers | `simulate`, `runSimulator`, `stopIf`, `StopSimulator`, `main` after the signal | start/stop/expiry races, waiting under a lock, shutdown timeouts, a close that waits for the broker | one simulator at the right rate, no submit to a closed engine, shutdown waits for nobody but the broker |
| Case store (`cases/cases.go`) | open cases, insertion order, label counters, history of the resolved | `Open`, `Resolve`, `List`, `Counts` | reopening after resolve or eviction, capacity | FIFO of exactly the open cases, one label per opening, the history lists the newest resolutions |
| Event stream and review queue (`api/server.go`, `casesReducer.ts`, `ReviewQueue.tsx`) | last frame; rows, busy, pending, deferred, paused | stream tick, `resolveCase`, reducer actions | frames and answers overtake each other, lost answers, two analysts, hover pause | rows are unique, gone stays gone, rows converge to the server's queue |
| Consumer lag (`kafka/lag.go`) | last offset and lag per partition read | `Observe`, `Forget`, `Snapshot` | a partition that moves away, and back; watermarks that trail | what is reported is kept by its reporter and is no more than its distance to the head |
| Statistics (`engine/engine.go`, `histogram.go`) | atomic counters, rule fires, histogram, ring of recent verdicts, rate | `score` after the rules, `rateTicker`, `Snapshot`, `Recent`, `observe`, `quantile` | counters read one by one while workers add to them; a ticker beside the workers; bucket edges, the open last bucket, the ring's wrap-around | the parts of a scrape agree to within the work in hand; every transaction in one second's rate; the feed is what was shown last; a percentile is a rank |
| Scoring rules (`engine/rules.go`) | none | `DefaultRules`, `Decide` | points that add up, thresholds | nothing is flagged without a reason; no rule declines alone |
| Metrics scrape (`metrics/metrics.go`) | none | `Snapshot`, then the buckets | see statistics | the order of the reads keeps what a reader derives sensible |
| Load generator (`cmd/loadgen/main.go`, `Producer` in `kafka/kafka.go`) | counters all workers share, what the client buffers, `failed` | `planWork`, HTTP and Kafka senders, `settleAsync`, report | answers that come late or never, asynchronous failures, the end of the duration in the middle of a send, rates below one per tick | the report leaves nothing out and claims nothing that was not kept; it comes; the plan keeps the rate |
| Metrics text, middleware, transaction generator, presentation, deployment | | | | not modelled, see the end |

How they interact.  The consumer, the simulator and the ingest handler send transactions to
the engine (channel sends).  A worker scores one, which touches the velocity windows under a
shard lock, and runs the `OnFlagged` hook of `main`: it opens a case in the store and, with
Kafka, hands the verdict to the verdict producer.  The stream handler polls engine and store
every 400 ms and pushes a frame; a metrics scrape reads the same counters; the dashboard's reducer merges frames with the answers to its
own resolve requests.  `main` owns the order of shutdown.  The
load generator is a process of its own that talks to the ingest handler or to the broker.

## Modules

| Module | Models | Notes |
|---|---|---|
| `Delivery` | the promise of the consumer | abstract: a log, what is handled, what is committed |
| `KafkaConsumer` | `kafka.go`, the consumer goroutine and the exit of `main`, the group coordinator and the broker | any number of processes and partitions |
| `BatchScoring` | the promise of the engine | abstract; what `KafkaConsumer` assumes of `SubmitBatch` |
| `Engine` | worker pool, its callers, `Stop` | implements `BatchScoring` |
| `VelocityWindow` | one key's window, the sweeper | with exact counts over what arrived, in all and since the last sweep |
| `Scoring` | the five rules and `Decide` | functions; used by `Statistics` |
| `Histogram` | `histogram.go` without its concurrency | functions; used by `Statistics` |
| `Statistics` | `score` after the rules, ticker, ring, scrape | the verdicts are those of `Scoring` |
| `LoadGenerator` | `cmd/loadgen` and `kafka.Producer` | the far end keeps a prefix of a batch, as `Engine` shows |
| `Lifecycle` | `Lifecycle` | simulator control and shutdown | the engine is a counter and a closed flag, the DLQ whether it owes |
| `CaseStore` | `MemStore` | state and operations, driven by `ReviewQueue` |
| `ReviewQueue` | stream, resolve request, reducer | composes with `CaseStore` |
| `Filter` | `slices.DeleteFunc` and `Array.prototype.filter` of one element | used by `CaseStore`, `ReviewQueue` and `Statistics`; unlike `SelectSeq`, a proof can look into it |
| `...Proofs` | | theorems, a module per component; `StatisticsProofs` also has those on `Scoring` |
| `CollectionProofs` | | lemmas on minima, sums over sets, and what appending, inserting and removing does to a list |
| `MC...` | | constants for TLC |

### KafkaConsumer and Delivery

A consumer process is a record of state variables indexed by process: whether it runs
(`Loop` and the shutdown steps are labels of one program counter), the partitions and
positions it holds, the batch in hand, what it has buffered in the two producers and whether a
publish has failed.  `Poll` is `handleFetches`, `Decode`..`Commit` the steps of
`processBatch` in their order, `Hook...` those of the revoke hook, `AllowRebalance` the end of
a round.  Assignment, eviction, session expiry, the broker's acknowledgements and the group's
offset store are external: they do what the client library and Kafka document and no more (a
commit from an old generation is refused, a position starts at the committed offset).
A publish that fails counts for good in its producer (`publishErrors`), whatever `Flush`
returns later.  The verdict producer is not the consumer's alone: the hook at `main.go:80`
publishes every flagged verdict, also of the simulator and of HTTP ingest.  Of those the model keeps
what the consumer can notice: `OtherPublishFails`, at any moment, also between a flush that
found nothing and the commit after it.  That a flush waits for their publishes too is left
out: it is taken to be served in turn.  `MaxFaults` bounds crashes, evictions, lost publishes and failed commits,
`MaxMoves` the orderly rebalances and SIGTERMs, `MaxLog` the records per partition.

The lag tracker is part of the same module, since partitions move: `Observe` takes each fetched
partition's last offset and high watermark (any up to the head: it may trail), in polls with
records and in empty ones (`PollEmpty`), and `Forget` runs at the start of the revoke hook, on
`Close` and in `Lost`.  `lastOffset[c][p] = NotSeen` is the absence of `p` from the map, and
`Reported` is what `Snapshot` exports.

`Delivery` knows only the log, the records handled (verdict published or parked on the DLQ)
and the committed offset.  `KeepsPromise` instantiates it with `handled <- Handled`.

### Engine and BatchScoring

One action per channel operation: `Submit` and `TrySubmit` are successful sends, `Shed` the
first refusal, `Receive` .. `Done` the worker's loop with the rules and the hook as separate
steps, so that a card's next transaction or a `Stop` may come between them.  The rules
themselves are left out: `ruled[card]` records the order in which they saw the card's
transactions.  That `Stop` comes after all callers have returned is the contract at
`main.go:127`; `Lifecycle` asks whether it is kept.  Counting the rejected ones
(`RecordRejected`) is one step with the refusal: nothing reads the counter in between.

### VelocityWindow

`touch` is an operator on sequences, written from the code's three `sort.Search`es, the insertion and
the cap; `Score` applies it for a transaction that is ahead of the clock by up to `Skew`, or behind it
by any time at all: `Validate` has no lower bound, and a replayed backlog is as late as it is.  The
thresholds of the two velocity rules are the constants `High` and `Extreme`; that none exceeds
`maxWindowEvents` is the assumption the comment at `rules.go:47` makes.

What the properties compare with is history: `arrivals` counts every transaction, `since` those
that came after the sweeper last took the key.  `HoldsTheNewest`, `NewestFlaggedExactly` and
`CountsItsWindow` speak of the latter, for any lateness: they say what the window, the cap and the
expiry make of what is not swept, and `CountsItsWindow` gives the count of every transaction exactly.
`SweptIsForgettable` compares the two: nothing that was ever forgotten is in the window of a
transaction that is at most `Retention - Window` behind the clock.  With the code's numbers that
is 4 minutes for a card and nothing for an IP, whose window is the whole retention: of later ones
nothing is claimed, they do miss what was swept (see "Findings").

### Lifecycle

Handlers are cut at the points where they block: reading the body, taking `simMu`, waiting for
`simDone`.  A simulator is a goroutine of its own with a slice still to emit; a send blocks
while the queue is full and panics when it is closed.  `net/http` recovers a panicking handler,
any other goroutine takes the process down.  `main` walks through `serving`, `shutdown`,
`consumer`, `stopSimulator`, `drain`, with both timeouts as alternatives that may come at any
moment.  It then either exits at once (`ExitFailed`: `os.Exit(1)` after the consumer's error) or returns,
and the deferred `dlq.Close` of `main.go:56` flushes with no deadline (`MainReturns`, `Exit`): the
process ends when the DLQ owes nothing.  The consumer polls, submits and flushes; `dlqOwes` says
that a record for the DLQ is buffered, and `DLQSettles` is the broker's answer.  This is the process with
Kafka; without it neither consumer nor DLQ exist and those waits are not there.

### Statistics, Scoring and Histogram

`Process`, `CountDecision`, `CountFires`, `Observe` and `KeepRecent` are the atomic operations and
locked sections of `score` in their order; `TickLoads`, `StoreRate` and `StoreSnap` those of the ticker;
`ReadProcessed` .. `ReadBucket` the loads of a scrape, in the order of `Snapshot` and then
`Buckets`.  A transaction is known by its number; `log`, `feed`, `rated` (the sum of all values of
`lastRate`) and `view.owed` are history.  A sample is what the rules see of a transaction, with what `touch` returned as a
number, and its latency.

Left out: the latency sum; in a scrape the copied rule fires, queue depth, uptime and the shed
counter (`Engine` has the latter); `Snapshot`'s own reading of the buckets for its
percentiles, which come between the two readings modelled; the floating-point rounding of
q times N (a quantile is a fraction here); the `done` channel that ends the ticker.

### LoadGenerator

`PlanWork` computes what a worker sends per tick and the pacing.  A worker's round is `Begin`, a
send over one of the transports, and the counting of its outcome, until the context of the duration
is done; the `select` between tick and context is nondeterministic.  Over HTTP the server may serve
a post whose answer is lost, or serve it later (`late`).  Over Kafka a record is handed to the
client's buffer and its callback comes at any time after; a failed one may have reached the broker.
Server, broker and client library are external.  Left out: the contents of the transactions, the
pacing in time, the wording of the report.

### CaseStore and ReviewQueue

Each store operation runs under the store's lock and is one step.  The history of the resolved
cases is capped at the same size as the queue, and `ListResolved` reads it backwards; a case
in it is a record of its label and of which resolution it was, so that a property can tell
the newest from the oldest.  `openedAt` has the
resolution of a millisecond, so two cases may tie, and since `List` sorts what ranging over a map
yields, a tie comes in any order: `Lists` is the set of what it may return.  The stream
compares one reading of the store with the last and then marshals a second one, which is what
it sends: `StreamTick` and `StreamSend`.  The frame's statistics, which change with every
verdict, are stood for by the number of openings.  The wall clock is taken not to step
back.  A row's buttons are disabled while a resolve is in flight, so the component sends one at a
time.  `told`, `tainted` and `held` are history: which cases the server said are gone, which of
them a frame already under way still listed, and whether the reducer itself last kept a row
out or put one back.

## Runs

| Run | Bounds | States | What it shows |
|---|---|---|---|
| `kafka_safety` | 2 processes, 1 partition, 2 records (one undecodable), 2 faults, 2 moves | 904 k | type; `AtLeastOnce`; `PoisonParked`; `NoReplayWithoutFault`; `LagIsOwnBacklog`; `StopsCommittingForGood`; refinement of `Delivery` |
| `kafka_liveness` | as above, 1 record | 87 k | every record is handled in the end |
| `engine` | 2 workers, 2 cards, a batch, the simulator, 2 posts, queues of 1 and 2 | 114 k | `CardOrder`; `AcceptedIsAPrefix`, with nothing of an invalid batch and the shed counter; `StopDrains`; everything returns; refinement of `BatchScoring` |
| `velocity` | window 2, retention 4, cap 3, 7 arrivals, 7 ticks | 262 k | the window agrees with the exact counts; `CountsItsWindow` says what a late transaction counts, `SweptIsForgettable` what the sweeper may forget |
| `statistics` | 2 workers, 3 transactions of 3 kinds, ring of 2, every 2nd approval shown, 2 bounds | 1.6 M | `ScrapeAgrees`, `DecisionsAreExplained`, `RatesAddUp`, `FeedIsTrue`, `QuantileIsRank` |
| `load_generator` | 2 workers, rates 0, 10 and 80, batches of 2, 2 sends each | 81 k | `ReportIsTrue`; the report comes |
| `lifecycle` | 3 requests, 3 rates, a post, the consumer, 1 slot | 1.6 M | `OneSimulatorAtItsRate`, `ReportedTruthfully`, `ExpiryStopsItsOwn`, `NoPanicUnlessTimedOut` |
| `lifecycle_liveness` | 2 requests, 2 rates, the consumer | 36 k | `main` outwaits all but the broker; if the broker answers, the process ends and so does every switch |
| `lifecycle_closed` | 2 requests, a post | violation | after a timeout something submits to the closed engine |
| `review_queue` | 3 cases (two tie), store and frame of 2, 3 openings, 1 fault | 1.8 M | store order without a repeat, labels, the newest resolutions, unique rows, `GoneStaysGone` |
| `review_liveness` | 2 cases that tie, 3 openings, 1 fault | 529 k | rows converge |
| `review_stale` | 1 case, no fault | violation | resuming may bring a resolved case back |

Why the bounds are enough to be interesting.  Two faults allow a crash during the recovery
from another failure, two moves a rebalance and a shutdown; two records put the poisoned one
before and beside a good one, in one batch or two.  In `engine` the hot card's worker has a
queue shorter than the load, so sends block and posts shed.  In `velocity` seven arrivals
exceed twice the cap, the clock passes the retention by more than the window, and a transaction may come
after the sweep of a window it belongs to.  In `statistics` three
transactions wrap the ring and include an approval, a review by one rule and a decline by two,
with latencies on the bounds and above the last; two workers and the ticker interleave
with a scrape at every load.  In `load_generator` the rates are none, one below a transaction
per tick (so the plan paces by time) and two per tick.  One queue slot in `lifecycle`
makes the simulator block under a waiting `stopSimulatorLocked`.  Three openings of three cases
reach eviction, and reopening after resolving or evicting.  One label in the review runs: no
step branches on it.  `SYMMETRY` is used only in runs without liveness, over values nothing
distinguishes (`b` and `c` have the same score).  `CHECK_DEADLOCK FALSE` is set where the
bounds or the end of the process let the system stop.

### Fairness

* `kafka_liveness`: weak fairness of the processes' own steps, of the coordinator's
  assignment and of the broker's answers, and of the restart (container restart policy).  No
  fault or rebalance has to happen.
* `engine`: weak fairness of every caller and worker: goroutines that can run do run.  A blocked
  send is served in turn by Go's channels; with the few competitors here weak fairness suffices.
  A worker's hook is taken to return: that it blocks in the Kafka client while the verdict
  buffer is full is `Lifecycle`'s premise `BrokerAnswers`.
* `load_generator`: weak fairness of the duration's timer, the workers, the client's timeout of
  a post (`ReadAnswer \/ PostFails`), the end of a record whose context is done, and the report.
  No answer and no acknowledgement has to come.  A worker is not forced to see the context
  before its sends run out: `select` chooses at random, and the bound on sends ends the round.
* `lifecycle_liveness`: strong fairness for taking `simMu` (Go's mutex starves nobody), for
  blocked sends (served in order) and for a `select` whose stop channel stays ready
  (`select` chooses at random).  The client's body and the consumer's return are not fair: they may never
  come.  Nor is the broker: that `main` gets past the wait for the consumer needs nothing of it, but
  that the process ends and that a switch ends is claimed under the premise `BrokerAnswers`, weak
  fairness of `DLQSettles` and of `Work`, in the property itself.  The workers are in it because
  a hook that publishes a verdict blocks in the client while its buffer is full.  The premise is needed:
  without it, and with either half alone, TLC refutes `ctxDone ~> ~Up`.
* `review_liveness`: the stream ticks, frames and answers arrive or fail.  The analyst owes
  nothing; convergence is claimed only if she lets go of the queue.

## What is proved

For every value of the constants that meets the assumptions stated in the modules.

**KafkaConsumerProofs** (any sets of processes and partitions, any log bound, any
number of faults and moves):

* `TypeCorrect`: `Spec => []TypeOK`;
* `NoRecordLost`: `AtLeastOnce`, every offset below a committed one is handled;
* `CommitsStop`: `StopsCommittingForGood`, a process with a failed publish begins no commit
  until it is started again.  One exception is in the code and in the formula: a verdict of the simulator or of HTTP
  ingest that fails between the consumer's look at the counter and its commit does not hold up that
  commit, which covers only records whose own outcome is there;
* `ImplementsDelivery`: `KeepsPromise`, refinement of `Delivery`;
* `LagIsReal`: `LagIsOwnBacklog`, a reported partition is kept and its lag is within the log;
* `PoisonIsParked`: `PoisonParked`; `NothingReplayed`: `NoReplayWithoutFault`.

`AtLeastOnce` is not inductive: that a commit is safe depends on the
flushes before it, on the batch in hand and on who owns a partition.  The invariant
`IInv` is the conjunction of

* `TypeOK`, `WithinLog`, `Appended`: positions and commits lie within what was appended;
* `OwnerIsAhead`: an owner's position is not behind the committed offset;
* `BatchInHand`: the batch in hand is what lies between what the process accounted for and its position;
* `FlushedBeforeCommit`: once the DLQ is flushed nothing is buffered there and no publish to it has
  failed, until after the commit (of the verdicts this cannot be said: somebody else's may fail);
* `HandledBeforeCommit`: at a commit every record that was polled has its outcome;
* `OwnsNothingWhenClosed`: a process that left, was dropped or crashed owns nothing;
* `PolledIsAccounted`: whatever an owner polled is handled, buffered, in hand or lost with the
  sticky counter set; this is the link between a position and `AtLeastOnce`;
* `AtLeastOnce`.

`LagIsReal` rests on a second invariant, `LagInv`, beside `IInv`: a reported partition is owned and
not being given up, its last offset is the one before the position (so that an empty fetch compares
the watermark with the right offset), and nothing is being given up outside a hook (so that a poll
observes no partition that a hook has just forgotten).  `PoisonIsParked` needs only that an
undecodable record is never scored or published as a verdict (`NeverScored`): by `AtLeastOnce` it
is then handled by the DLQ.  `NothingReplayed` uses `Calm`, which holds until the first fault: no
publish has failed, owners and coordinator agree, a revoke hook ends with everything it owned
committed, and what was ever seen lies before the position of an owner or the committed offset.

**EngineProofs** (any workers, queues, cards and callers):

* `TypeCorrect`: no WaitGroup below zero, no queue above its capacity; the WaitGroup of a batch is
  the number of its unsettled transactions (`WInv`);
* `StopLosesNothing`: `StopDrains`;
* `PostsTakeAPrefix`: `TakenIsAPrefix`, the pool's half of `AcceptedIsAPrefix`, and `ShedIsCounted`:
  all of it, with the shed counter as the sum over the posts that returned;
* `CardsStayInOrder`: `CardOrder`;
* `ImplementsBatchScoring`: `KeepsPromise`, refinement of `BatchScoring`.

`PInv` says where every transaction is: a call has handed over a prefix, a worker holds only
transactions of its own cards, each once, and what was taken is scored or held.  `OInv` adds, for
each card, that the rules have seen the first `Passed` of what entered and that the rest waits
at the card's worker in that order.  Besides the constants' types the proofs assume `OneCallEach`:
a transaction belongs to one call and appears there once (transactions are identities, not contents).

**StatisticsProofs** (any workers, ring, trickle, bounds and latencies):

* `TypeCorrect`, with the index always in the ring; `NoTransactionBetweenSeconds`: `RatesAddUp`;
* `ScrapesAgree`: `ScrapeAgrees`, from the fact that processed is what is decided plus what workers are
  about to decide (`DecisionsCounted`) and that each bucket holds the latencies observed
  (`HistogramCounts`), with a bound for each stage of the scrape (`ScrapeOwes`, `ScrapeCovers`);
* `DecisionsExplained`: `DecisionsAreExplained`, by one sum that every step of a worker keeps: what its
  transaction adds to the decisions it later adds to the rule fires, and no rule declines alone;
* `FeedIsComplete`: `FeedMissesNothing`, the workers' half of `FeedIsTrue`, and `FeedTrue`: all of
  it.  The ring is the last `RingSize` of the feed, each at its index modulo the size; read backwards
  from `ringAt` its used slots come first and the empty ones are a tail that is filtered away;
* `PercentilesAreRanks`: `QuantileIsRank`, from `HistogramCounts` and the lemma that the cumulative
  counts are the numbers of observations up to each bound.

On the rules: `FlaggedHasAReason`, `DeclineTakesTwo`, and `SaturationDecidesTheSame`: no threshold lies
above the cap, so a count that is saturated there decides as it would in full.  That is half of what the
comment at `rules.go:47` claims; the other half, that what the cap has cut is not missed, holds for
the newest transaction of a key (`FlaggedExactly`) and not for a late one (`CountsItsWindow`).

**VelocityProofs** (any window, cap, thresholds, skew and order of arrival, transactions any time late):

* `TypeCorrect`: ascending and within the cap;
* `TheNewestAreHeld`: `HoldsTheNewest`; `OnlyForgettableIsSwept`: `SweptIsForgettable`;
* `FlaggedExactly`: `NewestFlaggedExactly`; `WindowCountedFairly`: `CountsItsWindow`.

An ascending window is described by `Count(seen, t)`, how many of its timestamps are `t` or later.
Each operation of `touch` changes that number in a simple way: expiry and cap take a
minimum, the insertion adds one up to its own timestamp.  So the window of a key whose newest
timestamp is `n` has `min(MaxEvents, how many came since the last sweep dated max(t, n - Window) or
later)` at `t` or later (`WInv`, `Holds`), whatever the order of arrival, and the answer to a
transaction is an expression in those alone (`AInv`), which need not look at the window again; its
closed form is `CountClosed`.  `SweptIsForgettable` comes from `FInv`: what is dated in the `Retention`
before the clock has all come since the last sweep, because the sweeper takes a key only
when nothing in its window, and so by `WInv` nothing that came since, is that young.
No hypothesis on lateness is left: the theorems hold for the card's window and for the IP's.

**ReviewQueueProofs** (any cases, labels, scores, capacities, frames and faults):

* `TypeCorrect`; `StoreInOrder`: `OldestFirst`; `LabelledOnce`: `EachOpeningLabelledOnce`;
* `ShownOnce`: `EachCaseShownOnce`; `GoneForGood`: `GoneStaysGone`.

The store's part rests on `StoreInv` (the insertion order has each open case once and nothing else,
by the time it was opened) and `LabelInv` (labels and open cases use up openings, the history is as long as labels
and cap allow, its entries are the last resolutions in their order, and no label is in it more often than it was counted).  The browser's part follows a
case through all the places it may wait in: `FramesOK` (a frame lists a case once and keeps to its
length), `InFlightOK` (the row kept for rollback is the one whose request is under way), `RowsOK` (rows are
unique, without that one, and outgrow a frame by one only while nothing is in flight) and
`GoneInv`: a case that was told gone and is not tainted is closed in the store and in no frame under way, no row and no
deferred snapshot, and is not the one in flight.
They assume that there are finitely many labels and that `None` is no case, frame, request or row.

**LoadGeneratorProofs**: `ReportTrue`: `ReportIsTrue`, for any workers, rates, batches and failures: whatever
was offered is counted or in the hands of a worker (`NothingLost`), and what the far end has beyond the
counters is bounded by what workers are about to count and by the failures (`HttpInv`, `KafkaInv`).  `PlanKeepsTheRate`:
the arithmetic of `planWork` for every rate and number of workers.

**LifecycleProofs** (any requests, posts, rates and queue):

* `TypeCorrect`; `OneSimulator`: `OneSimulatorAtItsRate`; `ReportIsTruthful`: `ReportedTruthfully`,
  from `SInv`: only the holder of `simMu` is between lock and unlock; the simulator that `simStop` names
  is the only one, and it is gone before whoever stops it sets `simStop` to nil;
* `ExpiryIsItsOwn`: `ExpiryStopsItsOwn`;
* `NoSendOnClosed`: `NoPanicUnlessTimedOut`, from `DInv`: unless a timeout ran out, each stage of the
  shutdown is entered only when those it waited for are done.

They assume that requests, posts, expiries and `main` are different actors.

**CollectionProofs** has what these share.  The library's induction theorems cannot be
used with the provers at hand, so a fact that needs induction is proved by looking at a least
counterexample (`WFMin`), and a sum over a finite set by counting cells: `f[x]` of
them for each `x`, so that what is known of cardinalities carries over (`SumIsCells`).

Only model-checked: all liveness (`EveryRecordHandled`, `EverythingReturns`, `ReportComes`, `ShutdownEnds`,
`SwitchingEnds`, `RowsConverge`), which rests on fairness and `ENABLED`, out of the prover's reach.  The two runs
that end in a violation are counterexamples, and stay with TLC as well.

## Findings

1. `lifecycle_closed`: `main.go:127`, "Nothing may Submit once the engine's channel is
   closed", does not hold once either shutdown timeout has run out.
2. `review_stale`: `casesReducer.ts:43` claims that resuming cannot bring a resolved case back; a
   frame made before the resolve and delivered after its answer does, until the next frame.

Noticed while modelling, without a run of their own:

* `engine_test.go:250` says arrival order never changes a count, but a late transaction does not
  count events of its own window that expired relative to a newer one or that the cap dropped
  (`CountsItsWindow` is what does hold).
* `rules.go:54` says the sweeper keeps entries exactly as long as the longest window needs them.  That is so for
  transactions that are on time.  The sweeper goes by the wall clock: an IP's window, as long as
  the retention, has no slack for a late one, and a card's 4 minutes.  While an older
  backlog is replayed live windows are swept, and what comes after counts from one
  again; `SweptIsForgettable` with any later bound is refuted.
* `dlq.Close` at `main.go:56` flushes without a deadline.  With DLQ records buffered and the broker
  gone the process does not end after the 10 s for the consumer, though `main.go:124` logs that it leaves the group by
  the session timeout; and a worker whose hook is blocked in the client keeps `eng.Stop` waiting.
* A simulator or ingest verdict that fails to publish stops the consumer for good, like one of its own;
  and one that fails between flush and commit is followed by that commit.
* `TrySubmit` refuses when one worker's queue is full although the pool is not.
* When a publish fails during a SIGTERM the process may exit 0.
* After a rollback whose request had succeeded the row stays until the next frame, which comes only when the
  queue changes, and a case that is reopened while the answer to its resolve is under way stays hidden
  until then (`held` in `RowsConverge` excuses both).

## Not modelled

* The text of metrics, logs and errors, and the wording of the load generator's report: formatting.
* CORS, content-type checks, health and stats handlers: stateless filters and pure reads.
* Parsing of the environment: strings read once at start.
* `model.Validate` and the transaction generator: validity enters the models as a set, the clock skew
  as a bound; the generator is random data.
* Presentation components and `SimControl`; the chart history of `useStream`; the stream's
  keep-alives and the statistics in a frame.
* Build, deployment and schema files.

PROJECT.json lists each with its reason, and what is left out of a modelled part is said in the notes above.

## Plan

Done, in the order of importance: delivery (Kafka), engine, velocity, lifecycle, cases and review
queue, statistics and scoring, load generator; proofs of every safety property of their runs.
Left:

1. `SimControl`'s optimistic switch against the stream's report of `simActive`.
2. The half of `RowsConverge` that is safety: while nothing is under way and nothing held, the rows are a
   list the server could give.
