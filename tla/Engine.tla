------------------------------- MODULE Engine -------------------------------
(***************************************************************************)
(* The worker pool of internal/engine/engine.go and the callers that feed   *)
(* it: SubmitBatch (the Kafka consumer), Submit (the simulator) and the     *)
(* ingest handler of internal/api/server.go over TrySubmit.  Every worker   *)
(* has a bounded queue, a card always goes to the same one, and Stop closes *)
(* the queues and waits for the workers.                                    *)
(*                                                                          *)
(* Each caller makes one call, with the transactions Work[c].  What the     *)
(* rules decide is left out.  entered, ruled and finished are history.      *)
(***************************************************************************)
EXTENDS Integers, Sequences, FiniteSets, FiniteSetsExt, SequencesExt

CONSTANTS
    Txs, Cards, Workers,
    Batchers,      \* callers of SubmitBatch
    Simulators,    \* callers of Submit
    Posters,       \* requests to POST /api/transactions
    Work,          \* Work[c]: the transactions of caller c, in order
    Invalid,       \* transactions that do not validate
    CardOf,        \* CardOf[t]: the card hash
    HashOf,        \* HashOf[card]: the worker it hashes to
    Capacity       \* Capacity[w]: slots of the queue of w

Callers == Batchers \cup Simulators \cup Posters

ASSUME ConstantsAssumption ==
    /\ Work \in [Callers -> Seq(Txs)] /\ Invalid \subseteq Txs
    /\ CardOf \in [Txs -> Cards] /\ HashOf \in [Cards -> Workers]
    /\ Capacity \in [Workers -> Nat \ {0}]
    /\ Batchers \cap Simulators = {} /\ Posters \cap (Batchers \cup Simulators) = {}

(* Every transaction belongs to one call and appears there once. *)
ASSUME OneCallEach ==
    \A c, d \in Callers : \A i \in DOMAIN Work[c], j \in DOMAIN Work[d] :
        Work[c][i] = Work[d][j] => c = d /\ i = j

VARIABLES
    queue,     \* queue[w]: the buffered jobs of w
    closed,    \* Stop has closed the queues
    cur,       \* cur[w]: the job in hand
    stage,     \* stage[w]: where worker w stands with it
    sent,      \* sent[c]: transactions of c accepted so far
    returned,  \* calls that returned
    wg,        \* wg[c]: the WaitGroup of the SubmitBatch call c
    rejected,  \* the counter of shed transactions
    stopped,   \* Stop has returned
    entered,   \* entered[card]: its transactions, as they were queued
    ruled,     \* ruled[card]: its transactions, as the rules saw them
    finished   \* transactions whose score call returned

pool == <<queue, cur, stage>>
calls == <<sent, returned, rejected>>
history == <<entered, ruled, finished>>
vars == <<pool, calls, history, closed, wg, stopped>>

Batch(c) == Range(Work[c])
CallerOf(t) == CHOOSE c \in Callers : t \in Batch(c)

Init ==
    /\ queue = [w \in Workers |-> <<>>]
    /\ closed = FALSE
    /\ cur = [w \in Workers |-> {}]
    /\ stage = [w \in Workers |-> "receive"]
    /\ sent = [c \in Callers |-> 0]
    /\ returned = {}
    /\ wg = [c \in Batchers |-> Len(Work[c])]
    /\ rejected = 0
    /\ stopped = FALSE
    /\ entered = [k \in Cards |-> <<>>]
    /\ ruled = [k \in Cards |-> <<>>]
    /\ finished = {}

----------------------------------------------------------------------------
(* The callers. *)

Calling(c) == c \notin returned /\ sent[c] < Len(Work[c])
NextTx(c) == Work[c][sent[c] + 1]

(* Fault: all workers share the load, whatever the card. *)
QueueForAny(t, w) == \A v \in Workers : Len(queue[w]) <= Len(queue[v])

(* queueFor: the card's own worker. *)
QueueFor(t, w) == w = HashOf[CardOf[t]]

HasRoom(t) == \E w \in Workers : QueueFor(t, w) /\ Len(queue[w]) < Capacity[w]

(* Fault: the queues have no bound. *)
EnqueueUnbounded(c) ==
    LET t == NextTx(c) IN
    /\ \E w \in Workers : QueueFor(t, w) /\ queue' = [queue EXCEPT ![w] = Append(@, t)]
    /\ sent' = [sent EXCEPT ![c] = @ + 1]
    /\ entered' = [entered EXCEPT ![CardOf[t]] = Append(@, t)]
    /\ UNCHANGED <<cur, stage, closed, wg, stopped, ruled, finished>>

(* The send of the next transaction of c succeeds. *)
Enqueue(c) ==
    LET t == NextTx(c) IN
    /\ \E w \in Workers :
          /\ QueueFor(t, w) /\ Len(queue[w]) < Capacity[w]
          /\ queue' = [queue EXCEPT ![w] = Append(@, t)]
    /\ sent' = [sent EXCEPT ![c] = @ + 1]
    /\ entered' = [entered EXCEPT ![CardOf[t]] = Append(@, t)]
    /\ UNCHANGED <<cur, stage, closed, wg, stopped, ruled, finished>>

(* SubmitBatch and Submit block while the queue is full. *)
Submit(c) ==
    /\ c \in Batchers \cup Simulators /\ Calling(c)
    /\ Enqueue(c)
    /\ UNCHANGED <<returned, rejected>>

(* The simulator fires and forgets. *)
SubmitReturns(c) ==
    /\ c \in Simulators \ returned /\ ~Calling(c)
    /\ returned' = returned \cup {c}
    /\ UNCHANGED <<pool, history, sent, rejected, closed, wg, stopped>>

SubmitBatchReturns(c) ==
    /\ c \in Batchers \ returned /\ ~Calling(c) /\ wg[c] = 0
    /\ returned' = returned \cup {c}
    /\ UNCHANGED <<pool, history, sent, rejected, closed, wg, stopped>>

(* Fault: a transaction is validated when its turn comes. *)
ValidSoFar(c) == ~Calling(c) \/ NextTx(c) \notin Invalid

Valid(c) == Batch(c) \cap Invalid = {}

(* ingest, on the transactions before the first refusal. *)
TrySubmit(c) ==
    /\ c \in Posters /\ Calling(c) /\ Valid(c)
    /\ Enqueue(c)
    /\ UNCHANGED <<returned, rejected>>

(* Fault: a refused transaction is skipped and the next one is tried.      *)
ShedOne(c) ==
    /\ c \in Posters /\ Calling(c) /\ Valid(c) /\ ~HasRoom(NextTx(c))
    /\ rejected' = rejected + 1
    /\ sent' = [sent EXCEPT ![c] = @ + 1]
    /\ UNCHANGED <<pool, history, returned, closed, wg, stopped>>

(* The first refusal ends the batch: the whole remainder is counted.       *)
Shed(c) ==
    /\ c \in Posters /\ Calling(c) /\ Valid(c) /\ ~HasRoom(NextTx(c))
    /\ rejected' = rejected + Len(Work[c]) - sent[c]
    /\ returned' = returned \cup {c}
    /\ UNCHANGED <<pool, history, sent, closed, wg, stopped>>

(* All accepted, 200; or invalid, 400. *)
IngestReturns(c) ==
    /\ c \in Posters \ returned /\ (~Calling(c) \/ ~Valid(c))
    /\ returned' = returned \cup {c}
    /\ UNCHANGED <<pool, history, sent, rejected, closed, wg, stopped>>

----------------------------------------------------------------------------
(* The workers. *)

(* worker receives a job. *)
Receive(w) ==
    /\ stage[w] = "receive" /\ queue[w] # <<>>
    /\ cur' = [cur EXCEPT ![w] = {Head(queue[w])}]
    /\ queue' = [queue EXCEPT ![w] = Tail(@)]
    /\ stage' = [stage EXCEPT ![w] = "rules"]
    /\ UNCHANGED <<calls, history, closed, wg, stopped>>

(* score: the rules run and update the velocity windows; the decision is   *)
(* made and counted.                                                       *)
ApplyRules(w) ==
    /\ stage[w] = "rules"
    /\ \E t \in cur[w] : ruled' = [ruled EXCEPT ![CardOf[t]] = Append(@, t)]
    /\ stage' = [stage EXCEPT ![w] = "hook"]
    /\ UNCHANGED <<queue, cur, calls, entered, finished, closed, wg, stopped>>

(* Fault: score hands the verdict to a goroutine that has yet to run.      *)
HookLater(w) ==
    /\ stage[w] = "hook"
    /\ finished' = finished
    /\ stage' = [stage EXCEPT ![w] = "done"]
    /\ UNCHANGED <<queue, cur, calls, entered, ruled, closed, wg, stopped>>

(* score: the OnFlagged hook of a flagged verdict runs, and score returns. *)
FlaggedHook(w) ==
    /\ stage[w] = "hook"
    /\ finished' = finished \cup cur[w]
    /\ stage' = [stage EXCEPT ![w] = "done"]
    /\ UNCHANGED <<queue, cur, calls, entered, ruled, closed, wg, stopped>>

(* worker: wg.Done for a job of a batch. *)
Done(w) ==
    /\ stage[w] = "done"
    /\ wg' = [c \in Batchers |-> IF cur[w] \subseteq Batch(c) THEN wg[c] - 1 ELSE wg[c]]
    /\ cur' = [cur EXCEPT ![w] = {}]
    /\ stage' = [stage EXCEPT ![w] = "receive"]
    /\ UNCHANGED <<queue, calls, history, closed, stopped>>

(* Fault: the worker selects on a done channel and leaves jobs behind. *)
ExitAtOnce(w) ==
    /\ stage[w] = "receive" /\ closed
    /\ stage' = [stage EXCEPT ![w] = "exited"]
    /\ UNCHANGED <<queue, cur, calls, history, closed, wg, stopped>>

(* Fault: the worker returns when it finds its queue empty. *)
ExitWhenIdle(w) ==
    /\ stage[w] = "receive" /\ queue[w] = <<>>
    /\ stage' = [stage EXCEPT ![w] = "exited"]
    /\ UNCHANGED <<queue, cur, calls, history, closed, wg, stopped>>

(* The range over a closed queue ends when the queue is empty. *)
WorkerExits(w) ==
    /\ stage[w] = "receive" /\ closed /\ queue[w] = <<>>
    /\ stage' = [stage EXCEPT ![w] = "exited"]
    /\ UNCHANGED <<queue, cur, calls, history, closed, wg, stopped>>

----------------------------------------------------------------------------
(* Stop.  main calls it once nothing submits any more: that contract is    *)
(* taken here as it stands in main.go:127.                                 *)
Stop ==
    /\ ~closed /\ Callers \subseteq returned
    /\ closed' = TRUE
    /\ UNCHANGED <<pool, calls, history, wg, stopped>>

StopReturns ==
    /\ closed /\ ~stopped /\ \A w \in Workers : stage[w] = "exited"
    /\ stopped' = TRUE
    /\ UNCHANGED <<pool, calls, history, closed, wg>>

Call(c) ==
    \/ Submit(c) \/ SubmitReturns(c) \/ SubmitBatchReturns(c)
    \/ TrySubmit(c) \/ Shed(c) \/ IngestReturns(c)

Step(w) == Receive(w) \/ ApplyRules(w) \/ FlaggedHook(w) \/ Done(w) \/ WorkerExits(w)

Next ==
    \/ \E c \in Callers : Call(c)
    \/ \E w \in Workers : Step(w)
    \/ Stop \/ StopReturns

Spec == Init /\ [][Next]_vars

(* Goroutines that can run do run.  A blocked send is woken when its queue *)
(* has room again, and the transactions that could take its place are few. *)
FairSpec ==
    /\ Spec
    /\ \A c \in Callers : WF_vars(Call(c))
    /\ \A w \in Workers : WF_vars(Step(w))
    /\ WF_vars(Stop) /\ WF_vars(StopReturns)

----------------------------------------------------------------------------
(* Properties. *)

(* Every variable keeps its type; no queue outgrows its slots.             *)
TypeOK ==
    /\ queue \in [Workers -> Seq(Txs)] /\ \A w \in Workers : Len(queue[w]) <= Capacity[w]
    /\ cur \in [Workers -> SUBSET Txs]
    /\ stage \in [Workers -> {"receive", "rules", "hook", "done", "exited"}]
    /\ sent \in [Callers -> Nat] /\ returned \subseteq Callers
    /\ wg \in [Batchers -> Nat] /\ rejected \in Nat /\ finished \subseteq Txs
    /\ entered \in [Cards -> Seq(Txs)] /\ ruled \in [Cards -> Seq(Txs)]
    /\ closed \in BOOLEAN /\ stopped \in BOOLEAN

(* One card's transactions pass the rules in the order they were queued,   *)
(* whatever the workers do: a velocity flag lands on the right one.        *)
CardOrder == \A k \in Cards : IsPrefix(ruled[k], entered[k])

Taken == UNION {Range(entered[k]) : k \in Cards}

(* The part of it that concerns the pool: the first sent[c] were taken and *)
(* nothing after them, and nothing at all of a batch that gets a 400.      *)
TakenIsAPrefix ==
    \A c \in Posters :
        /\ \A i \in DOMAIN Work[c] : Work[c][i] \in Taken <=> i <= sent[c]
        /\ Batch(c) \cap Invalid # {} => sent[c] = 0

(* What an ingest response says is what happened: a prefix was taken, and  *)
(* the rest is in the shed counter.                                        *)
AcceptedIsAPrefix ==
    /\ TakenIsAPrefix
    /\ rejected = SumFunctionOnSet([c \in Callers |-> Len(Work[c]) - sent[c]],
                                   {c \in Posters \cap returned : Batch(c) \cap Invalid = {}})

(* Stop loses nothing: when it returns every transaction the engine took   *)
(* has been scored.                                                        *)
StopDrains == stopped => Taken = finished

(* Every call returns, every taken transaction is scored, and Stop         *)
(* returns: no full queue and no waiting batch blocks the pool for good.   *)
EverythingReturns == <>(stopped /\ Callers \subseteq returned /\ Taken = finished)

(* Engine implements BatchScoring. *)
Promise == INSTANCE BatchScoring WITH
    Batches <- [c \in Batchers |-> Batch(c)],
    taken <- Taken, scored <- finished, returned <- returned \cap Batchers
KeepsPromise == Promise!Spec
=============================================================================
