--------------------------- MODULE VelocityWindow ---------------------------
(***************************************************************************)
(* One key's sliding window of internal/engine/rules.go: touch, which       *)
(* records a transaction's own timestamp and counts the window that ends    *)
(* there, and the sweeper, which forgets idle keys by the wall clock.       *)
(*                                                                          *)
(* touch runs under its shard's lock, and so does the sweep of one key:     *)
(* each is one action.  Transactions come in any timestamp order, at most   *)
(* Skew (model.MaxClockSkew) ahead of the wall clock and any time behind it *)
(* (a backlog that is replayed).  arrivals, since and last are history:     *)
(* what came so far, how much of it since the sweeper last took the key,    *)
(* and the latest answer.                                                   *)
(***************************************************************************)
EXTENDS Integers, Sequences, SequencesExt, FiniteSetsExt

CONSTANTS
    Window,        \* cardWindowMS or ipWindowMS
    Retention,     \* what the sweeper keeps: ipWindowMS
    MaxEvents,     \* maxWindowEvents
    High, Extreme, \* the two thresholds of the key's rule
    Skew,          \* model.MaxClockSkew
    Horizon, MaxArrivals   \* bounds: the last clock tick, the arrivals

ASSUME ConstantsAssumption ==
    /\ {Window, Retention, Skew, Horizon, MaxArrivals} \subseteq Nat
    /\ {High, Extreme, MaxEvents} \subseteq Nat \ {0}
    /\ High <= Extreme /\ Extreme <= MaxEvents /\ Window <= Retention

Times == 0 .. Horizon + Skew

VARIABLES
    clock,     \* time.Now() of the server
    seen,      \* shard.seen[key], ascending; <<>> when the key is absent
    arrivals,  \* arrivals[t]: transactions dated t that were scored so far
    since,     \* since[t]: those of them that came after the last sweep
    last       \* timestamp and count of the latest one

vars == <<clock, seen, arrivals, since, last>>

Init ==
    /\ clock = 0
    /\ seen = <<>>
    /\ arrivals = [t \in Times |-> 0]
    /\ since = [t \in Times |-> 0]
    /\ last = [ts |-> 0, count |-> 0]

----------------------------------------------------------------------------
(* sort.Search: the first of the ascending events that is not below t; so  *)
(* many are.                                                               *)
Below(events, t) ==
    Min({i \in 1 .. Len(events) : events[i] >= t} \cup {Len(events) + 1}) - 1

Since(events, t) == SubSeq(events, Below(events, t) + 1, Len(events))

Newest(events, ts) ==
    IF events # <<>> /\ Last(events) > ts THEN Last(events) ELSE ts

Insert(events, ts) == InsertAt(events, Below(events, ts + 1) + 1, ts)

KeepNewest(events, n) ==
    IF Len(events) <= n THEN events ELSE SubSeq(events, Len(events) - n + 1, Len(events))

(* Fault: a full window is trimmed one event too late. *)
TouchOneTooMany(events, ts) ==
    LET fresh == Since(events, Newest(events, ts) - Window)
        window == Insert(fresh, ts)
    IN  IF ts < Newest(events, ts) - Window
        THEN [events |-> fresh, count |-> 1]
        ELSE [events |-> KeepNewest(window, MaxEvents + 1),
              count  |-> Min({Below(window, ts + 1) - Below(window, ts - Window), MaxEvents})]

(* Fault: entries expire relative to the incoming timestamp, so a late     *)
(* event is filed beside entries newer than its own window.                *)
TouchByOwnTime(events, ts) ==
    LET window == Insert(Since(events, ts - Window), ts)
    IN  [events |-> KeepNewest(window, MaxEvents),
         count  |-> Min({Below(window, ts + 1), MaxEvents})]

(* Fault: the cap is one below the largest threshold. *)
TouchSmallCap(events, ts) ==
    LET fresh == Since(events, Newest(events, ts) - Window)
        window == Insert(fresh, ts)
    IN  IF ts < Newest(events, ts) - Window
        THEN [events |-> fresh, count |-> 1]
        ELSE [events |-> KeepNewest(window, MaxEvents - 1),
              count  |-> Min({Below(window, ts + 1) - Below(window, ts - Window), MaxEvents - 1})]

(* Fault: a late event counts the whole window, what came later included. *)
TouchCountsAll(events, ts) ==
    LET fresh == Since(events, Newest(events, ts) - Window)
        window == Insert(fresh, ts)
    IN  IF ts < Newest(events, ts) - Window
        THEN [events |-> fresh, count |-> 1]
        ELSE [events |-> KeepNewest(window, MaxEvents), count |-> Min({Len(window), MaxEvents})]

(* Fault: the count is taken after the cap. *)
TouchCapsFirst(events, ts) ==
    LET fresh == Since(events, Newest(events, ts) - Window)
        window == KeepNewest(Insert(fresh, ts), MaxEvents)
    IN  IF ts < Newest(events, ts) - Window
        THEN [events |-> fresh, count |-> 1]
        ELSE [events |-> window,
              count  |-> Min({Below(window, ts + 1) - Below(window, ts - Window), MaxEvents})]

(* The window after an event at ts, and the count that is returned.  What  *)
(* expired is dropped first; an event older than the whole window leaves   *)
(* it alone; the count is taken before the cap drops the oldest.           *)
touch(events, ts) ==
    LET fresh == Since(events, Newest(events, ts) - Window)
        window == Insert(fresh, ts)
    IN  IF ts < Newest(events, ts) - Window
        THEN [events |-> fresh, count |-> 1]
        ELSE [events |-> KeepNewest(window, MaxEvents),
              count  |-> Min({Below(window, ts + 1) - Below(window, ts - Window), MaxEvents})]

(* The flag of RuleCardVelocity or RuleIPFanOut. *)
Flag(count) ==
    IF count >= Extreme THEN "extreme" ELSE IF count >= High THEN "high" ELSE "none"

(* Validate refuses what is too far ahead; nothing is too late. *)
Arrivable == {t \in Times : t <= clock + Skew}

(* A transaction dated ts is scored. *)
Score(ts) ==
    /\ ts \in Arrivable
    /\ SumFunction(arrivals) < MaxArrivals
    /\ seen' = touch(seen, ts).events
    /\ last' = [ts |-> ts, count |-> touch(seen, ts).count]
    /\ arrivals' = [arrivals EXCEPT ![ts] = @ + 1]
    /\ since' = [since EXCEPT ![ts] = @ + 1]
    /\ UNCHANGED clock

Tick ==
    /\ clock < Horizon
    /\ clock' = clock + 1
    /\ UNCHANGED <<seen, arrivals, since, last>>

Forgotten == seen' = <<>> /\ since' = [t \in Times |-> 0]

(* Fault: a key goes when its oldest entry is past the retention. *)
SweepByOldest ==
    /\ seen # <<>> /\ seen[1] < clock - Retention
    /\ Forgotten
    /\ UNCHANGED <<clock, arrivals, last>>

(* The sweeper comes by: a key idle for longer than Retention is deleted.  *)
Sweep ==
    /\ seen # <<>> /\ Last(seen) < clock - Retention
    /\ Forgotten
    /\ UNCHANGED <<clock, arrivals, last>>

Next ==
    \/ \E ts \in Times : Score(ts)
    \/ Tick
    \/ Sweep

Spec == Init /\ [][Next]_vars

----------------------------------------------------------------------------
(* Properties.  Kept(a, b) is the reference: the transactions dated from a *)
(* to b that came since the last sweep, in whatever order they came.       *)

Kept(a, b) == SumFunctionOnSet(since, {t \in Times : a <= t /\ t <= b})
Latest == Horizon + Skew

Occurrences(t) == Cardinality({i \in DOMAIN seen : seen[i] = t})

(* The window is an ascending sequence of at most MaxEvents timestamps.    *)
TypeOK ==
    /\ clock \in 0 .. Horizon
    /\ Len(seen) <= MaxEvents
    /\ \A i \in 1 .. Len(seen) : seen[i] \in Times /\ \A j \in 1 .. i : seen[j] <= seen[i]
    /\ arrivals \in [Times -> 0 .. MaxArrivals]
    /\ since \in [Times -> 0 .. MaxArrivals]
    /\ last \in [ts : Times, count : 0 .. MaxEvents]

(* Late events never push newer history out, and arrival order is          *)
(* forgotten: a live window holds exactly the MaxEvents newest of all that *)
(* came since the last sweep and is dated in the Window before the newest. *)
HoldsTheNewest ==
    seen # <<>> =>
        /\ Kept(Last(seen) + 1, Latest) = 0
        /\ \A t \in Times :
              Occurrences(t) =
                 IF t < Last(seen) - Window THEN 0
                 ELSE Min({since[t], Max({0, MaxEvents - Kept(t + 1, Latest)})})

(* The cap and the expiry change no decision about a transaction that is   *)
(* the newest of its key: it is flagged as by a window that cuts nothing.  *)
NewestFlaggedExactly ==
    seen # <<>> /\ Kept(last.ts + 1, Latest) = 0 =>
        Flag(last.count) = Flag(Kept(last.ts - Window, last.ts))

(* No transaction, late or not, is charged for one outside its window or   *)
(* dated after it.  Of its own window it counts itself and all of the rest *)
(* but what the newest transaction has expired and what the cap had cut    *)
(* before it came.                                                         *)
CountsItsWindow ==
    LET expiry == Max({last.ts} \cup {t \in Times : since[t] > 0}) - Window
        cut == Max({0, Kept(expiry, Latest) - 1 - MaxEvents})
    IN  seen # <<>> =>
           /\ last.count <= Kept(last.ts - Window, last.ts)
           /\ last.count = Max({1, Min({MaxEvents, Kept(expiry, last.ts) - cut})})

(* The sweeper goes by the wall clock.  Nothing it ever forgot is missed   *)
(* by a transaction that comes, now, at most Retention - Window behind the *)
(* clock (4 minutes for a card, 0 for an IP): of what is dated in its      *)
(* window or later, all that ever came still counts.                       *)
SweptIsForgettable ==
    \A ts \in Arrivable : clock - ts <= Retention - Window =>
        \A t \in Times : t >= ts - Window => since[t] = arrivals[t]
=============================================================================
