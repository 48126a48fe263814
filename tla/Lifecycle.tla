----------------------------- MODULE Lifecycle -----------------------------
(***************************************************************************)
(* The life of the API process: the simulator of internal/api/server.go     *)
(* (start, stop, expiry, all under simMu), the requests and the consumer    *)
(* that feed the engine beside it, and the shutdown of cmd/api/main.go.     *)
(*                                                                          *)
(* A simulator is named by the request that started it.  The engine is      *)
(* reduced to how many transactions are buffered and whether Stop has       *)
(* closed its queues: a send on a closed queue panics.  Engine.tla says     *)
(* what the pool does.  The dead letter queue is reduced to whether a       *)
(* record for it is still buffered.                                         *)
(***************************************************************************)
EXTENDS Integers, FiniteSets

CONSTANTS
    Requests,   \* POST /api/simulate
    Rates,      \* the rates they may ask for, 0 to stop
    Posts,      \* POST /api/transactions, one transaction each
    Main, None,
    Capacity,   \* slots of the engine
    MaxBatch    \* most transactions of one 20 ms slice

Expirers == {<<"expire", r>> : r \in Requests}   \* the goroutines of stopIf

ASSUME ConstantsAssumption ==
    /\ Rates \subseteq Nat
    /\ Capacity \in Nat \ {0} /\ MaxBatch \in Nat \ {0}
    /\ Requests \cap Posts = {} /\ Main \notin Requests \cup Posts
    /\ None \notin Requests \cup Posts \cup {Main}
    /\ Expirers \cap (Requests \cup Posts \cup {Main, None}) = {}

Lockers == Requests \cup Expirers \cup {Main}
Handlers == Requests \cup Posts

VARIABLES
    pc,        \* pc[a]: where a handler, a stopIf goroutine or StopSimulator stands
    want,      \* want[r]: the rate request r asked for
    simMu,     \* the holder of simMu, or None
    simStop,   \* the simulator whose stop channel is in simStop, or None
    closedCh,  \* simulators whose stop channel is closed
    simRate,   \* the atomic simRate
    simActive, \* the atomic simActive
    sim,       \* sim[r]: the goroutine of runSimulator
    left,      \* left[r]: what is left of its slice
    expired,   \* simulators whose expire channel has fired
    consumer,  \* the Kafka consumer goroutine
    dlqOwes,   \* a record for the dead letter queue is buffered, not settled
    buffered,  \* transactions in the engine's queues
    closed,    \* Engine.Stop has closed the queues
    ctxDone,   \* the signal context is cancelled
    main,      \* where main stands
    timedOut,  \* the 5 s or the 10 s of the shutdown ran out
    failed,    \* main has seen the consumer return an error
    panics     \* who sent on a closed queue

locks == <<pc, want, simMu, simStop, closedCh, simRate, simActive>>
sims == <<sim, left, expired>>
kafka == <<consumer, dlqOwes>>
process == <<ctxDone, main, timedOut, failed>>
vars == <<locks, sims, kafka, buffered, closed, process, panics>>

Init ==
    /\ pc = [a \in Lockers \cup Posts |-> "idle"]
    /\ want = [r \in Requests |-> 0]
    /\ simMu = None /\ simStop = None /\ closedCh = {}
    /\ simRate = 0 /\ simActive = FALSE
    /\ sim = [r \in Requests |-> "none"]
    /\ left = [r \in Requests |-> 0]
    /\ expired = {}
    /\ consumer = "poll" /\ dlqOwes = FALSE
    /\ buffered = 0 /\ closed = FALSE
    /\ ctxDone = FALSE /\ main = "serving" /\ timedOut = FALSE /\ failed = FALSE
    /\ panics = {}

Goto(a, label) == pc' = [pc EXCEPT ![a] = label]
Ended == {"exited", "crashed"}
Up == main \notin Ended

----------------------------------------------------------------------------
(* Submitting to the engine. *)

(* Fault: the queue has no bound. *)
EnqueuedUnbounded == ~closed /\ buffered' = buffered + 1

(* The queue has room and is open: the transaction is buffered.            *)
Enqueued == ~closed /\ buffered < Capacity /\ buffered' = buffered + 1

(* A send on a closed queue.  net/http recovers the panic of a handler;    *)
(* in any other goroutine it ends the process.                             *)
Panic(a) ==
    /\ closed
    /\ panics' = panics \cup {a}
    /\ main' = IF a \in Posts THEN main ELSE "crashed"
    /\ UNCHANGED <<ctxDone, timedOut, failed>>

(* A worker scores a buffered transaction. *)
Work ==
    /\ Up /\ buffered > 0
    /\ buffered' = buffered - 1
    /\ UNCHANGED <<locks, sims, kafka, closed, process, panics>>

----------------------------------------------------------------------------
(* The handlers. *)

(* A request is accepted. *)
Arrive(a) ==
    /\ main = "serving" /\ a \in Handlers /\ pc[a] = "idle"
    /\ Goto(a, "reading")
    /\ UNCHANGED <<want, simMu, simStop, closedCh, simRate, simActive, sims, kafka, buffered,
                   closed, process, panics>>

(* Its body has come, however long the client took (there is no read       *)
(* timeout), and is refused with a 4xx or acted on.                        *)
BodyRead(a) ==
    /\ Up /\ a \in Handlers /\ pc[a] = "reading"
    /\ \/ Goto(a, "done") /\ UNCHANGED want
       \/ a \in Posts /\ Goto(a, "submit") /\ UNCHANGED want
       \/ a \in Requests /\ Goto(a, "lock")
          /\ \E rate \in Rates : want' = [want EXCEPT ![a] = rate]
    /\ UNCHANGED <<simMu, simStop, closedCh, simRate, simActive, sims, kafka, buffered,
                   closed, process, panics>>

(* ingest: accepted, shed, or a panic. *)
Ingest(a) ==
    /\ Up /\ a \in Posts /\ pc[a] = "submit"
    /\ \/ Enqueued /\ UNCHANGED <<process, panics>>
       \/ ~closed /\ buffered = Capacity /\ UNCHANGED <<buffered, process, panics>>
       \/ Panic(a) /\ UNCHANGED buffered
    /\ Goto(a, "done")
    /\ UNCHANGED <<want, simMu, simStop, closedCh, simRate, simActive, sims, kafka, closed>>

(* stopSimulatorLocked begins: the stop channel is closed. *)
StopBegins(a) ==
    /\ closedCh' = closedCh \cup {simStop}
    /\ Goto(a, "wait")

(* Fault: stopIf stops whatever simulator there is. *)
AlwaysMine(a) == TRUE

(* stopIf leaves a newer simulator alone. *)
Mine(a) == a \in Expirers => a = <<"expire", simStop>>

(* A goroutine takes simMu. *)
Lock(a) ==
    /\ Up /\ a \in Lockers /\ pc[a] = "lock" /\ simMu = None
    /\ \/ simStop # None /\ Mine(a) /\ StopBegins(a) /\ simMu' = a
       \/ simStop = None /\ a \notin Expirers /\ Goto(a, "act") /\ simMu' = a /\ UNCHANGED closedCh
       \/ a \in Expirers /\ (simStop = None \/ ~Mine(a))
          /\ Goto(a, "done") /\ UNCHANGED <<want, simMu, closedCh>>
    /\ UNCHANGED <<want, simStop, simRate, simActive, sims, kafka, buffered, closed, process, panics>>

(* Fault: stopSimulatorLocked does not wait for simDone. *)
StopDoesNotWait(a) ==
    /\ Up /\ pc[a] = "wait"
    /\ simStop' = None /\ simActive' = FALSE
    /\ Goto(a, "act")
    /\ UNCHANGED <<want, simMu, closedCh, simRate, sims, kafka, buffered, closed, process, panics>>

(* Fault: simActive is left to the next start. *)
StopForgetsActive(a) ==
    /\ Up /\ pc[a] = "wait" /\ sim[simStop] = "exited"
    /\ simStop' = None
    /\ Goto(a, "act")
    /\ UNCHANGED <<want, simMu, closedCh, simRate, simActive, sims, kafka, buffered, closed,
                   process, panics>>

(* simDone is closed: the simulator has exited. *)
StopEnds(a) ==
    /\ Up /\ pc[a] = "wait" /\ sim[simStop] = "exited"
    /\ simStop' = None /\ simActive' = FALSE
    /\ Goto(a, "act")
    /\ UNCHANGED <<want, simMu, closedCh, simRate, sims, kafka, buffered, closed, process, panics>>

(* simulate stores the rate and starts a simulator; then, or at once in    *)
(* the other two, simMu is released.                                       *)
Act(a) ==
    /\ Up /\ pc[a] = "act"
    /\ IF a \in Requests THEN simRate' = want[a] ELSE UNCHANGED simRate
    /\ IF a \in Requests /\ want[a] > 0
       THEN /\ simStop' = a /\ simActive' = TRUE
            /\ sim' = [sim EXCEPT ![a] = "select"]
       ELSE UNCHANGED <<simStop, simActive, sim>>
    /\ simMu' = None
    /\ Goto(a, "done")
    /\ UNCHANGED <<want, closedCh, left, expired, kafka, buffered, closed, process, panics>>

----------------------------------------------------------------------------
(* runSimulator. *)

(* A tick: the slice is the rate over 50, one transaction at least. *)
SliceSize == IF simRate < 1 THEN 1 ELSE IF simRate > MaxBatch THEN MaxBatch ELSE simRate

TickFires(r) ==
    /\ Up /\ sim[r] = "select"
    /\ sim' = [sim EXCEPT ![r] = "emit"]
    /\ left' = [left EXCEPT ![r] = SliceSize]
    /\ UNCHANGED <<locks, expired, kafka, buffered, closed, process, panics>>

(* The next transaction of the slice: Submit blocks while the queue is full. *)
Emit(r) ==
    /\ Up /\ sim[r] = "emit"
    /\ \/ Enqueued /\ UNCHANGED <<process, panics>>
       \/ Panic(r) /\ UNCHANGED buffered
    /\ left' = [left EXCEPT ![r] = @ - 1]
    /\ sim' = [sim EXCEPT ![r] = IF left[r] = 1 THEN "select" ELSE "emit"]
    /\ UNCHANGED <<locks, expired, kafka, closed>>

(* Fault: the simulator calls stopIf itself, and waits for its own exit. *)
ExpireInline(r) ==
    /\ Up /\ sim[r] = "select" /\ r \notin expired
    /\ expired' = expired \cup {r}
    /\ sim' = [sim EXCEPT ![r] = "stopIf"]
    /\ Goto(<<"expire", r>>, "lock")
    /\ UNCHANGED <<want, simMu, simStop, closedCh, simRate, simActive, left, kafka, buffered,
                   closed, process, panics>>

(* SimMaxDuration is over: stopIf runs in a goroutine of its own. *)
Expire(r) ==
    /\ Up /\ sim[r] = "select" /\ r \notin expired
    /\ expired' = expired \cup {r}
    /\ Goto(<<"expire", r>>, "lock")
    /\ UNCHANGED <<want, simMu, simStop, closedCh, simRate, simActive, sim, left, kafka, buffered,
                   closed, process, panics>>

SimExits(r) ==
    /\ Up /\ sim[r] = "select" /\ r \in closedCh
    /\ sim' = [sim EXCEPT ![r] = "exited"]
    /\ UNCHANGED <<locks, left, expired, kafka, buffered, closed, process, panics>>

----------------------------------------------------------------------------
(* The consumer goroutine, and the broker as far as it waits for it.       *)

(* The buffered records of the dead letter queue are stored or refused.    *)
DLQSettles ==
    /\ Up /\ dlqOwes
    /\ dlqOwes' = FALSE
    /\ UNCHANGED <<locks, sims, consumer, buffered, closed, process, panics>>

(* A poll brings a batch, also one that was waiting when the context was   *)
(* cancelled.  Some of it, or all, goes to the dead letter queue.          *)
ConsumerPolls ==
    /\ Up /\ consumer = "poll"
    /\ \/ consumer' = "submit" /\ UNCHANGED dlqOwes
       \/ consumer' \in {"submit", "flush"} /\ dlqOwes' = TRUE
    /\ UNCHANGED <<locks, sims, buffered, closed, process, panics>>

(* SubmitBatch of the rest. *)
ConsumerSubmits ==
    /\ Up /\ consumer = "submit"
    /\ \/ Enqueued /\ UNCHANGED <<process, panics>>
       \/ Panic("consumer") /\ UNCHANGED buffered
    /\ consumer' = "flush"
    /\ UNCHANGED <<locks, sims, dlqOwes, closed>>

(* The batch is flushed: everything has settled. *)
ConsumerFlushes ==
    /\ Up /\ consumer = "flush" /\ ~dlqOwes /\ ~ctxDone
    /\ consumer' = "poll"
    /\ UNCHANGED <<locks, sims, dlqOwes, buffered, closed, process, panics>>

(* Run returns: the context is cancelled, which ends a poll and a flush,   *)
(* or a publish failed, and then the goroutine cancels the context.  Close *)
(* comes before it; its revoke hook may wait for the broker.               *)
Returned == {"done", "failed"}

ConsumerReturns ==
    /\ Up /\ consumer \in {"poll", "flush"}
    /\ \/ ctxDone /\ consumer' = "done"
       \/ ~ctxDone /\ consumer = "flush" /\ ~dlqOwes /\ consumer' = "failed"
    /\ ctxDone' = TRUE
    /\ UNCHANGED <<locks, sims, dlqOwes, buffered, closed, main, timedOut, failed, panics>>

----------------------------------------------------------------------------
(* main. *)

Sigterm ==
    /\ Up /\ ~ctxDone
    /\ ctxDone' = TRUE
    /\ UNCHANGED <<locks, sims, kafka, buffered, closed, main, timedOut, failed, panics>>

Advance(from, to) ==
    /\ main = from
    /\ main' = to
    /\ UNCHANGED <<sims, kafka, buffered, ctxDone, panics>>

(* <-ctx.Done(): srv.Shutdown stops listening. *)
ShutdownBegins ==
    /\ ctxDone
    /\ Advance("serving", "shutdown")
    /\ UNCHANGED <<locks, closed, timedOut, failed>>

InFlight == {a \in Handlers : pc[a] \notin {"idle", "done"}}

(* Shutdown returns when no handler is left, or after 5 seconds. *)
HandlersDone ==
    /\ InFlight = {}
    /\ Advance("shutdown", "consumer")
    /\ UNCHANGED <<locks, closed, timedOut, failed>>

(* Fault: Shutdown waits for as long as it takes. *)
ShutdownHasNoTimeout == FALSE

ShutdownTimesOut ==
    /\ InFlight # {}
    /\ Advance("shutdown", "consumer")
    /\ timedOut' = TRUE
    /\ UNCHANGED <<locks, closed, failed>>

(* Fault: main does not wait for the consumer. *)
ConsumerIgnored ==
    /\ Advance("consumer", "stopSimulator")
    /\ Goto(Main, "lock")
    /\ UNCHANGED <<want, simMu, simStop, closedCh, simRate, simActive, closed, timedOut, failed>>

(* main waits for consumerDone, or 10 seconds, and calls StopSimulator. *)
ConsumerDone ==
    /\ consumer \in Returned
    /\ failed' = (consumer = "failed")
    /\ Advance("consumer", "stopSimulator")
    /\ Goto(Main, "lock")
    /\ UNCHANGED <<want, simMu, simStop, closedCh, simRate, simActive, closed, timedOut>>

(* main does not look at its error any more. *)
ConsumerTimesOut ==
    /\ consumer \notin Returned
    /\ Advance("consumer", "stopSimulator")
    /\ Goto(Main, "lock")
    /\ timedOut' = TRUE
    /\ UNCHANGED <<want, simMu, simStop, closedCh, simRate, simActive, closed, failed>>

(* Engine.Stop closes the queues, and returns when they are drained. *)
EngineStops ==
    /\ pc[Main] = "done"
    /\ Advance("stopSimulator", "drain")
    /\ closed' = TRUE
    /\ UNCHANGED <<locks, timedOut, failed>>

(* os.Exit(1) after a lost publish runs no deferred call ... *)
ExitFailed ==
    /\ buffered = 0 /\ failed
    /\ Advance("drain", "exited")
    /\ UNCHANGED <<locks, closed, timedOut, failed>>

(* ... any other end of main runs dlq.Close, which flushes, for as long as *)
(* it takes.                                                               *)
MainReturns ==
    /\ buffered = 0 /\ ~failed
    /\ Advance("drain", "closeDLQ")
    /\ UNCHANGED <<locks, closed, timedOut, failed>>

(* Fault: the deferred close waits for the consumer too. *)
ExitAwaitsConsumer ==
    /\ ~dlqOwes /\ consumer \in Returned
    /\ Advance("closeDLQ", "exited")
    /\ UNCHANGED <<locks, closed, timedOut, failed>>

Exit ==
    /\ ~dlqOwes
    /\ Advance("closeDLQ", "exited")
    /\ UNCHANGED <<locks, closed, timedOut, failed>>

----------------------------------------------------------------------------
MainStep ==
    \/ ShutdownBegins \/ HandlersDone \/ ShutdownTimesOut
    \/ ConsumerDone \/ ConsumerTimesOut \/ EngineStops
    \/ ExitFailed \/ MainReturns \/ Exit

Next ==
    \/ Work
    \/ \E a \in Handlers : Arrive(a) \/ BodyRead(a) \/ Ingest(a)
    \/ \E a \in Lockers : Lock(a) \/ StopEnds(a) \/ Act(a)
    \/ \E r \in Requests : TickFires(r) \/ Emit(r) \/ Expire(r) \/ SimExits(r)
    \/ ConsumerPolls \/ ConsumerSubmits \/ ConsumerFlushes \/ ConsumerReturns
    \/ DLQSettles \/ Sigterm \/ MainStep

Spec == Init /\ [][Next]_vars

(* main runs; sync.Mutex starves nobody, and a blocked send is served in   *)
(* turn; a select whose stop channel stays ready picks it in the end.  A   *)
(* client never owes the rest of its body, the consumer no return and the  *)
(* broker no answer, and so no worker the end of a hook that waits for     *)
(* room in the buffer of the verdict producer: see BrokerAnswers.          *)
FairSpec ==
    /\ Spec
    /\ WF_vars(MainStep)
    /\ \A a \in Lockers : SF_vars(Lock(a))
    /\ WF_vars(\E a \in Lockers : StopEnds(a) \/ Act(a))
    /\ SF_vars(\E r \in Requests : Emit(r))
    /\ SF_vars(\E r \in Requests : SimExits(r))

----------------------------------------------------------------------------
(* Properties. *)

(* Every variable keeps its type; the engine's buffer stays within bounds. *)
TypeOK ==
    /\ pc \in [Lockers \cup Posts ->
                  {"idle", "reading", "lock", "wait", "act", "submit", "done"}]
    /\ simMu \in Lockers \cup {None} /\ simStop \in Requests \cup {None}
    /\ closedCh \subseteq Requests /\ expired \subseteq Requests
    /\ want \in [Requests -> Rates \cup {0}] /\ simRate \in Rates \cup {0} /\ simActive \in BOOLEAN
    /\ sim \in [Requests -> {"none", "select", "emit", "exited"}]
    /\ left \in [Requests -> 0 .. MaxBatch]
    /\ consumer \in Returned \cup {"poll", "submit", "flush"}
    /\ dlqOwes \in BOOLEAN /\ failed \in BOOLEAN
    /\ buffered \in 0 .. Capacity /\ closed \in BOOLEAN
    /\ ctxDone \in BOOLEAN /\ timedOut \in BOOLEAN
    /\ main \in Ended \cup {"serving", "shutdown", "consumer", "stopSimulator", "drain", "closeDLQ"}
    /\ panics \subseteq Requests \cup Posts \cup {"consumer"}

Running == {r \in Requests : sim[r] \in {"select", "emit"}}

(* There is never a second simulator, and the one that runs emits at the   *)
(* rate its own request asked for.                                         *)
OneSimulatorAtItsRate ==
    /\ Cardinality(Running) <= 1
    /\ \A r \in Running : simRate = want[r]

(* What the stream reports is true whenever nobody is switching it.        *)
ReportedTruthfully ==
    simMu = None => (simActive <=> Running # {})

(* A simulator is stopped by a later request, by its own expiry or by the  *)
(* shutdown, never by the expiry of an older one.                          *)
ExpiryStopsItsOwn ==
    [][\A r \in closedCh' \ closedCh :
          simMu' \in Requests \cup {Main} \/ simMu' = <<"expire", r>>]_vars

(* As long as no shutdown timeout ran out, nobody submits to the closed    *)
(* engine.                                                                 *)
NoPanicUnlessTimedOut == panics # {} => timedOut

(* Once the context is cancelled main outwaits every client and the        *)
(* consumer, whether the broker answers or not.  If it answers, the        *)
(* process ends; if it is gone for good, main may wait for the hook of a   *)
(* worker or for the dead letter queue, and nothing bounds that.           *)
BrokerAnswers == WF_vars(DLQSettles) /\ WF_vars(Work)

ShutdownEnds ==
    /\ ctxDone ~> main \notin {"serving", "shutdown", "consumer"}
    /\ BrokerAnswers => (ctxDone ~> ~Up)

(* A request to start or stop the simulator, once read, is answered, and   *)
(* an expired simulator exits, unless the broker is gone for good.         *)
SwitchingEnds ==
    BrokerAnswers =>
        \A r \in Requests : /\ pc[r] = "lock" ~> (pc[r] = "done" \/ ~Up)
                            /\ r \in expired ~> (sim[r] = "exited" \/ ~Up)

(* "Nothing may Submit once the engine's channel is closed." (main.go:127) *)
NothingSubmitsOnceClosed == panics = {}
=============================================================================
