---------------------------- MODULE LoadGenerator ----------------------------
(***************************************************************************)
(* cmd/loadgen: workers that offer batches until the duration is over, over *)
(* HTTP or through kafka.Producer, and the report of what the far end took. *)
(*                                                                          *)
(* The ingest handler keeps a prefix of a batch and counts the rest as shed *)
(* (Engine, AcceptedIsAPrefix); broker and HTTP client are external.  kept, *)
(* shed, offered and late are history or belong to the far end.             *)
(***************************************************************************)
EXTENDS Integers, FiniteSets, FiniteSetsExt

CONSTANTS
    Workers,     \* the goroutines of -workers
    Rates,       \* what -rate may ask for; 0 is unthrottled
    BatchSize,   \* -batch
    MaxSends,    \* bound: sends of one worker
    None         \* no report yet

ASSUME ConstantsAssumption ==
    /\ IsFiniteSet(Workers) /\ Workers # {}
    /\ Rates \subseteq Nat /\ BatchSize \in Nat \ {0} /\ MaxSends \in Nat

VARIABLES
    transport,  \* "http" or "kafka"
    rate,       \* -rate
    expired,    \* the context of -duration is done
    stage,      \* stage[w]: where worker w stands
    sends,      \* sends[w]: sends it began (for the bound)
    refused,    \* refused[w]: the Rejected of the answer on its way to w
    handed,     \* handed[w]: records of w's batch given to the producer
    sent, failed, rejected,   \* the counters all workers share
    buffered,   \* records the Kafka client holds
    failures,   \* Producer.failed
    report,     \* what main prints
    offered,    \* transactions in the batches sent
    kept,       \* transactions the engine or the broker took
    shed,       \* the server's counter of rejected transactions
    late        \* requests the client gave up and the server may yet serve

plan == <<transport, rate>>
workers == <<stage, sends, refused, handed>>
counters == <<sent, failed, rejected>>
producer == <<buffered, failures>>
farEnd == <<kept, shed, late>>
vars == <<plan, expired, workers, counters, producer, report, offered, farEnd>>

ticksPerSec == 20

(* planWork: what one worker sends at a time, and whether it waits for a tick. *)
PlanWork(r, n, batch) ==
    LET per == (r \div n) \div ticksPerSec IN
    [perSend |-> IF r = 0 THEN batch ELSE IF per < 1 THEN 1 ELSE per,
     paced   |-> r > 0]

Plan == PlanWork(rate, Cardinality(Workers), BatchSize)

Init ==
    /\ transport \in {"http", "kafka"} /\ rate \in Rates /\ expired = FALSE
    /\ stage = [w \in Workers |-> "loop"]
    /\ sends = [w \in Workers |-> 0]
    /\ refused = [w \in Workers |-> 0]
    /\ handed = [w \in Workers |-> 0]
    /\ sent = 0 /\ failed = 0 /\ rejected = 0
    /\ buffered = 0 /\ failures = 0 /\ report = None
    /\ offered = 0 /\ kept = 0 /\ shed = 0 /\ late = 0

(* The duration is over. *)
Expire ==
    /\ ~expired
    /\ expired' = TRUE
    /\ UNCHANGED <<plan, workers, counters, producer, report, offered, farEnd>>

----------------------------------------------------------------------------
(* runWorker. *)

(* A paced worker that has both a tick and a done context may take either. *)
Begin(w) ==
    /\ stage[w] = "loop" /\ sends[w] < MaxSends
    /\ expired => Plan.paced
    /\ sends' = [sends EXCEPT ![w] = @ + 1]
    /\ stage' = [stage EXCEPT ![w] = IF transport = "http" THEN "posting" ELSE "producing"]
    /\ handed' = [handed EXCEPT ![w] = 0]
    /\ offered' = offered + Plan.perSend
    /\ UNCHANGED <<plan, expired, refused, counters, producer, report, farEnd>>

(* Fault: a paced worker looks at nothing but its ticks. *)
ReturnUnpaced(w) ==
    /\ stage[w] = "loop" /\ expired /\ ~Plan.paced
    /\ stage' = [stage EXCEPT ![w] = "returned"]
    /\ UNCHANGED <<plan, expired, sends, refused, handed, counters, producer, report, offered, farEnd>>

Return(w) ==
    /\ stage[w] = "loop" /\ expired
    /\ stage' = [stage EXCEPT ![w] = "returned"]
    /\ UNCHANGED <<plan, expired, sends, refused, handed, counters, producer, report, offered, farEnd>>

(* The send reported n refused: only what the far end kept counts as sent. *)
(* Nobody reads the counters before every worker has returned.             *)
Count(w, n) ==
    /\ sent' = sent + Plan.perSend - n
    /\ rejected' = rejected + n
    /\ stage' = [stage EXCEPT ![w] = "loop"]
    /\ UNCHANGED <<plan, expired, sends, refused, handed, failed, producer, report, offered>>

----------------------------------------------------------------------------
(* HTTP. *)

(* The server takes the first n transactions of a batch and sheds the rest. *)
Serve(n) ==
    /\ n \in 0 .. Plan.perSend
    /\ kept' = kept + n
    /\ shed' = shed + Plan.perSend - n

Answer(w) ==
    /\ stage[w] = "posting"
    /\ \E n \in 0 .. Plan.perSend :
          Serve(n) /\ refused' = [refused EXCEPT ![w] = Plan.perSend - n]
    /\ stage' = [stage EXCEPT ![w] = "answered"]
    /\ UNCHANGED <<plan, expired, sends, handed, counters, producer, report, offered, late>>

(* Fault: whatever was posted counts as sent. *)
ReadAnswerCountsAll(w) ==
    /\ stage[w] = "answered"
    /\ Count(w, 0)
    /\ UNCHANGED farEnd

(* httpSender: 200 or 503, with the count in the body. *)
ReadAnswer(w) ==
    /\ stage[w] = "answered"
    /\ Count(w, refused[w])
    /\ UNCHANGED farEnd

(* httpSender: no connection, the client's timeout, another status or an   *)
(* unreadable body.  The server may have served the request or do so yet.  *)
PostFails(w) ==
    /\ stage[w] \in {"posting", "answered"}
    /\ failed' = failed + Plan.perSend
    /\ late' \in (IF stage[w] = "posting" THEN {late, late + 1} ELSE {late})
    /\ stage' = [stage EXCEPT ![w] = "loop"]
    /\ UNCHANGED <<plan, expired, sends, refused, handed, sent, rejected, producer, report, offered,
                   kept, shed>>

ServeLate ==
    /\ late > 0
    /\ late' = late - 1
    /\ \E n \in 0 .. Plan.perSend : Serve(n)
    /\ UNCHANGED <<plan, expired, workers, counters, producer, report, offered>>

----------------------------------------------------------------------------
(* Kafka. *)

(* Producer.Send of the next transaction: the client buffers it. *)
Send(w) ==
    /\ stage[w] = "producing" /\ handed[w] < Plan.perSend
    /\ handed' = [handed EXCEPT ![w] = @ + 1]
    /\ buffered' = buffered + 1
    /\ UNCHANGED <<plan, expired, stage, sends, refused, counters, failures, report, offered, farEnd>>

(* The batch is handed over; nothing is refused synchronously. *)
Sent(w) ==
    /\ stage[w] = "producing" /\ handed[w] = Plan.perSend
    /\ Count(w, 0)
    /\ UNCHANGED farEnd

Delivered ==
    /\ buffered > 0
    /\ buffered' = buffered - 1
    /\ kept' = kept + 1
    /\ UNCHANGED <<plan, expired, workers, counters, failures, report, offered, shed, late>>

(* The callback of Send with an error; the broker may have the record all  *)
(* the same, its acknowledgement lost.                                     *)
ProduceFails ==
    /\ buffered > 0
    /\ buffered' = buffered - 1
    /\ failures' = failures + 1
    /\ kept' \in {kept, kept + 1}
    /\ UNCHANGED <<plan, expired, workers, counters, report, offered, shed, late>>

(* The context every record was produced with is done. *)
ProduceExpires == expired /\ ProduceFails

----------------------------------------------------------------------------
(* main: settleAsync after wg.Wait, and report. *)

AllReturned == \A w \in Workers : stage[w] = "returned"

(* Producer.Close flushes before the failures are read: they are final     *)
(* only then.  Over HTTP nothing is buffered and nothing settles.          *)
Settled == buffered = 0

(* Fault: the failures are read before Close has flushed. *)
ReportBeforeFlush ==
    /\ AllReturned /\ report = None
    /\ report' = [accepted |-> sent - failures, failed |-> failed + failures, rejected |-> rejected]
    /\ UNCHANGED <<plan, expired, workers, counters, producer, offered, farEnd>>

(* What failed after Send returned moves from accepted to failed.          *)
Report ==
    /\ AllReturned /\ Settled /\ report = None
    /\ report' = [accepted |-> sent - failures, failed |-> failed + failures, rejected |-> rejected]
    /\ UNCHANGED <<plan, expired, workers, counters, producer, offered, farEnd>>

----------------------------------------------------------------------------
Http(w) == Answer(w) \/ ReadAnswer(w) \/ PostFails(w)
Kafka(w) == Send(w) \/ Sent(w)

Next ==
    \/ \E w \in Workers : Begin(w) \/ Return(w) \/ Http(w) \/ Kafka(w)
    \/ Expire \/ ServeLate \/ Delivered \/ ProduceFails \/ Report

Spec == Init /\ [][Next]_vars

(* Goroutines and the duration's timer run.  A post is over within the     *)
(* client's timeout, and a record within its context; no answer and no     *)
(* acknowledgement is ever promised.                                       *)
FairSpec ==
    /\ Spec
    /\ WF_vars(Expire) /\ WF_vars(Report) /\ WF_vars(ProduceExpires)
    /\ \A w \in Workers :
          WF_vars(Return(w)) /\ WF_vars(ReadAnswer(w) \/ PostFails(w)) /\ WF_vars(Kafka(w))

----------------------------------------------------------------------------
(* Properties. *)

(* The report leaves out nothing that was offered, claims nothing that was *)
(* not kept, and misses of what the far end kept or shed no more than it   *)
(* calls failed: a lost or late answer may hide a kept batch, never        *)
(* invent one.                                                             *)
ReportIsTrue ==
    report # None =>
        /\ report.accepted + report.failed + report.rejected = offered
        /\ report.accepted <= kept /\ kept <= report.accepted + report.failed
        /\ report.rejected <= shed /\ shed <= report.rejected + report.failed

(* A run ends with its report, whatever the far end does: no unanswered    *)
(* post and no unacknowledged record keeps the tool from ending.           *)
ReportComes == <>(report # None)
=============================================================================
