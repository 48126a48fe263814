------------------------- MODULE LoadGeneratorProofs -------------------------
(***************************************************************************)
(* The arithmetic of planWork, for every rate and number of workers, and   *)
(* the invariant that keeps the report true while batches are on their way *)
(* in several workers' hands.                                              *)
(***************************************************************************)
EXTENDS LoadGenerator, CollectionProofs

(* Integer division loses less than one divisor.                           *)
LEMMA Division ==
    ASSUME NEW r \in Nat, NEW n \in Nat \ {0}
    PROVE  /\ r \div n \in Nat
           /\ n * (r \div n) <= r /\ r < n * (r \div n) + n
  OBVIOUS

(* "workers x ticks x perSend reconstructs the target rate" (main_test.go):*)
(* the plan never asks for more than -rate, unless that is less than one   *)
(* per tick, and falls short of it by less than one per worker and tick.   *)
THEOREM PlanKeepsTheRate ==
    ASSUME NEW r \in Nat \ {0}, NEW n \in Nat \ {0}, NEW batch \in Nat \ {0}
    PROVE  LET per == PlanWork(r, n, batch).perSend
               planned == n * (ticksPerSec * per)
           IN  /\ per \in Nat \ {0}
               /\ planned <= r \/ per = 1
               /\ r < planned + n * ticksPerSec
  <1> DEFINE q == r \div n
             d == q \div 20
             per == PlanWork(r, n, batch).perSend
  <1>1. q \in Nat /\ n * q <= r /\ r < n * q + n
    BY Division
  <1>2. d \in Nat /\ 20 * d <= q /\ q < 20 * d + 20
    BY <1>1
  <1>3. per = IF d < 1 THEN 1 ELSE d
    BY DEF PlanWork, ticksPerSec
  <1>4. per \in Nat \ {0} /\ (20 * per <= q \/ per = 1) /\ q <= 20 * per + 19
    BY <1>2, <1>3
  <1> HIDE DEF q, d, per
  <1>5. ASSUME NEW a \in Nat, NEW b \in Nat, a <= b PROVE n * a <= n * b
    <2>1. b - a \in Nat
      BY <1>5
    <2>2. n * (b - a) \in Nat
      BY <2>1
    <2>3. n * (b - a) = n * b - n * a
      OBVIOUS
    <2> QED
      BY <2>2, <2>3
  <1>6. 20 * per <= q => n * (20 * per) <= r
    BY <1>1, <1>4, <1>5
  <1>7. n * q <= n * (20 * per + 19)
    BY <1>1, <1>4, <1>5
  <1>8. n * (20 * per + 19) + n = n * (20 * per) + n * 20
    BY <1>4
  <1>9. r < n * (20 * per) + n * 20
    BY <1>1, <1>4, <1>7, <1>8
  <1> QED
    BY <1>4, <1>6, <1>9 DEF per, ticksPerSec
----------------------------------------------------------------------------
(* Types.  Nothing bounds the counters; what is in the hands of one worker *)
(* is never more than its batch.                                           *)

TypeInv ==
    /\ transport \in {"http", "kafka"} /\ rate \in Rates /\ Plan.perSend \in Nat
    /\ stage \in [Workers -> {"loop", "posting", "answered", "producing", "returned"}]
    /\ refused \in [Workers -> 0 .. Plan.perSend] /\ handed \in [Workers -> 0 .. Plan.perSend]
    /\ sent \in Nat /\ failed \in Nat /\ rejected \in Nat
    /\ buffered \in Nat /\ failures \in Nat
    /\ offered \in Nat /\ kept \in Nat /\ shed \in Nat /\ late \in Nat

(* What is in the workers' hands: batches begun and not counted yet; of    *)
(* those the server has answered, what it kept and what it shed; records   *)
(* of unfinished batches that the producer already has.                    *)
begun == [w \in Workers |->
            IF stage[w] \in {"posting", "answered", "producing"} THEN Plan.perSend ELSE 0]
taken == [w \in Workers |-> IF stage[w] = "answered" THEN Plan.perSend - refused[w] ELSE 0]
turned == [w \in Workers |-> IF stage[w] = "answered" THEN refused[w] ELSE 0]
given == [w \in Workers |-> IF stage[w] = "producing" THEN handed[w] ELSE 0]

Begun == SumFunctionOnSet(begun, Workers)
Taken == SumFunctionOnSet(taken, Workers)
Turned == SumFunctionOnSet(turned, Workers)
Given == SumFunctionOnSet(given, Workers)

NothingLost == offered = sent + failed + rejected + Begun

(* Over HTTP: what a worker is about to count was kept or shed, and what   *)
(* the far end has beyond that is covered by batches called failed, but    *)
(* for those it has yet to serve.                                          *)
HttpInv ==
    /\ buffered = 0 /\ failures = 0 /\ \A w \in Workers : stage[w] # "producing"
    /\ sent + Taken <= kept /\ kept + late * Plan.perSend <= sent + failed + Taken
    /\ rejected + Turned <= shed /\ shed + late * Plan.perSend <= rejected + failed + Turned

(* Through the producer: each record it was given is buffered, kept or     *)
(* failed, and a failed one may have been kept all the same.               *)
KafkaInv ==
    /\ failed = 0 /\ rejected = 0 /\ shed = 0 /\ late = 0
    /\ \A w \in Workers : stage[w] \notin {"posting", "answered"}
    /\ kept + buffered <= sent + Given /\ sent + Given <= kept + buffered + failures

ReportInv ==
    report # None =>
        /\ AllReturned /\ buffered = 0
        /\ report = [accepted |-> sent - failures, failed |-> failed + failures,
                     rejected |-> rejected]

IInv ==
    /\ TypeInv /\ NothingLost /\ ReportInv
    /\ transport = "http" => HttpInv
    /\ transport = "kafka" => KafkaInv
LEMMA PerSendType ==
  ASSUME NEW r \in Nat
  PROVE  PlanWork(r, Cardinality(Workers), BatchSize).perSend \in Nat
<1>1. Cardinality(Workers) \in Nat \ {0}
  BY ConstantsAssumption, FS_CardinalityType, FS_EmptySet
<1>2. r \div Cardinality(Workers) \in Nat
  BY <1>1, Division
<1>3. (r \div Cardinality(Workers)) \div 20 \in Nat
  BY <1>2, Division
<1>4. QED
  BY <1>3, ConstantsAssumption DEF PlanWork, ticksPerSec

(* What is in the workers' hands is a number each, and in all.             *)
LEMMA InHandType ==
  ASSUME TypeInv
  PROVE  /\ \A w \in Workers : /\ begun[w] \in Nat /\ taken[w] \in Nat
                               /\ turned[w] \in Nat /\ given[w] \in Nat
         /\ Begun \in Nat /\ Taken \in Nat /\ Turned \in Nat /\ Given \in Nat
<1>1. \A w \in Workers : /\ begun[w] \in Nat /\ taken[w] \in Nat
                         /\ turned[w] \in Nat /\ given[w] \in Nat
  BY DEF TypeInv, begun, taken, turned, given
<1>2. QED
  BY <1>1, SumType, ConstantsAssumption DEF Begun, Taken, Turned, Given

(* A step of one worker changes its own part of what is in hand, and no    *)
(* other's.                                                                *)
LEMMA OneWorker ==
  ASSUME TypeInv, TypeInv', NEW w \in Workers, UNCHANGED plan,
         \A v \in Workers \ {w} :
            stage'[v] = stage[v] /\ refused'[v] = refused[v] /\ handed'[v] = handed[v]
  PROVE  /\ Begun' = Begun - begun[w] + begun'[w]
         /\ Taken' = Taken - taken[w] + taken'[w]
         /\ Turned' = Turned - turned[w] + turned'[w]
         /\ Given' = Given - given[w] + given'[w]
<1>1. /\ \A v \in Workers : /\ begun[v] \in Nat /\ taken[v] \in Nat
                            /\ turned[v] \in Nat /\ given[v] \in Nat
  BY InHandType
<1>2. /\ \A v \in Workers : /\ begun'[v] \in Nat /\ taken'[v] \in Nat
                            /\ turned'[v] \in Nat /\ given'[v] \in Nat
  BY DEF TypeInv, begun, taken, turned, given
<1>3. \A v \in Workers \ {w} : /\ begun'[v] = begun[v] /\ taken'[v] = taken[v]
                               /\ turned'[v] = turned[v] /\ given'[v] = given[v]
  BY DEF begun, taken, turned, given, plan, Plan
<1>4. SumFunctionOnSet(begun', Workers) = SumFunctionOnSet(begun, Workers) - begun[w] + begun'[w]
  BY <1>1, <1>2, <1>3, SumChange, ConstantsAssumption
<1>5. SumFunctionOnSet(taken', Workers) = SumFunctionOnSet(taken, Workers) - taken[w] + taken'[w]
  BY <1>1, <1>2, <1>3, SumChange, ConstantsAssumption
<1>6. SumFunctionOnSet(turned', Workers) = SumFunctionOnSet(turned, Workers) - turned[w] + turned'[w]
  BY <1>1, <1>2, <1>3, SumChange, ConstantsAssumption
<1>7. SumFunctionOnSet(given', Workers) = SumFunctionOnSet(given, Workers) - given[w] + given'[w]
  BY <1>1, <1>2, <1>3, SumChange, ConstantsAssumption
<1>8. QED
  BY <1>4, <1>5, <1>6, <1>7 DEF Begun, Taken, Turned, Given

(* Nothing is in hand once all workers have returned, nor at first.        *)
LEMMA NothingInHand ==
  ASSUME TypeInv, \A w \in Workers : stage[w] \in {"loop", "returned"}
  PROVE  Begun = 0 /\ Taken = 0 /\ Turned = 0 /\ Given = 0
<1>1. \A w \in Workers : begun[w] = 0 /\ taken[w] = 0 /\ turned[w] = 0 /\ given[w] = 0
  BY DEF begun, taken, turned, given
<1>2. QED
  BY <1>1, SumZero, ConstantsAssumption DEF Begun, Taken, Turned, Given

LEMMA InitIInv == Init => IInv
<1> SUFFICES ASSUME Init PROVE IInv
  OBVIOUS
<1>1. TypeInv
  BY PerSendType, ConstantsAssumption DEF Init, TypeInv, Plan
<1>2. Begun = 0 /\ Taken = 0 /\ Turned = 0 /\ Given = 0
  BY <1>1, NothingInHand DEF Init
<1>3. QED
  BY <1>1, <1>2 DEF Init, IInv, NothingLost, HttpInv, KafkaInv, ReportInv, TypeInv

LEMMA NextTypeInv ==
  ASSUME TypeInv, [Next]_vars
  PROVE  TypeInv' /\ UNCHANGED plan
<1>1. UNCHANGED plan
  BY DEF Next, vars, Begin, Return, Http, Answer, ReadAnswer, PostFails, Kafka, Send, Sent, Count,
         Expire, ServeLate, Delivered, ProduceFails, Report, Serve
<1>2. Plan' = Plan
  BY <1>1 DEF plan, Plan
<1> USE <1>2 DEF TypeInv, plan
<1>3. ASSUME NEW w \in Workers, Begin(w) PROVE TypeInv'
  BY <1>1, <1>3 DEF Begin, counters, producer, farEnd
<1>4. ASSUME NEW w \in Workers, Return(w) PROVE TypeInv'
  BY <1>1, <1>4 DEF Return, counters, producer, farEnd
<1>5. ASSUME NEW w \in Workers, Answer(w) PROVE TypeInv'
  BY <1>1, <1>5 DEF Answer, Serve, counters, producer
<1>6. ASSUME NEW w \in Workers, ReadAnswer(w) PROVE TypeInv'
  BY <1>1, <1>6 DEF ReadAnswer, Count, producer, farEnd
<1>7. ASSUME NEW w \in Workers, PostFails(w) PROVE TypeInv'
  BY <1>1, <1>7 DEF PostFails, producer
<1>8. ASSUME NEW w \in Workers, Send(w) PROVE TypeInv'
  BY <1>1, <1>8 DEF Send, counters, farEnd
<1>9. ASSUME NEW w \in Workers, Sent(w) PROVE TypeInv'
  BY <1>1, <1>9 DEF Sent, Count, producer, farEnd
<1>10. CASE Expire
  BY <1>1, <1>10 DEF Expire, workers, counters, producer, farEnd
<1>11. CASE ServeLate
  BY <1>1, <1>11 DEF ServeLate, Serve, workers, counters, producer
<1>12. CASE Delivered
  BY <1>1, <1>12 DEF Delivered, workers, counters
<1>13. CASE ProduceFails
  BY <1>1, <1>13 DEF ProduceFails, workers, counters
<1>14. CASE Report
  BY <1>1, <1>14 DEF Report, workers, counters, producer, farEnd
<1>15. CASE UNCHANGED vars
  BY <1>1, <1>15 DEF vars, workers, counters, producer, farEnd
<1>16. QED
  BY <1>1, <1>3, <1>4, <1>5, <1>6, <1>7, <1>8, <1>9, <1>10, <1>11, <1>12, <1>13, <1>14, <1>15
     DEF Next, Http, Kafka
LEMMA OneMore ==
  ASSUME NEW m \in Nat, NEW n \in Nat
  PROVE  m * n \in Nat /\ (m + 1) * n = m * n + n
OBVIOUS

(* A worker begins a batch, or returns.                                    *)
LEMMA LoopSteps ==
  ASSUME IInv, NEW w \in Workers, Begin(w) \/ Return(w), TypeInv', UNCHANGED plan
  PROVE  IInv'
<1> USE DEF IInv, TypeInv
<1>1. /\ \A v \in Workers \ {w} :
            stage'[v] = stage[v] /\ refused'[v] = refused[v] /\ handed'[v] = handed[v]
      /\ Plan' = Plan
  BY DEF Begin, Return, plan, Plan
<1>2. /\ Begun' = Begun - begun[w] + begun'[w]
      /\ Taken' = Taken - taken[w] + taken'[w]
      /\ Turned' = Turned - turned[w] + turned'[w]
      /\ Given' = Given - given[w] + given'[w]
  BY <1>1, OneWorker
<1>3. /\ begun[w] = 0 /\ begun'[w] = (IF Begin(w) THEN Plan.perSend ELSE 0)
      /\ taken[w] = 0 /\ taken'[w] = 0 /\ turned[w] = 0 /\ turned'[w] = 0
      /\ given[w] = 0 /\ given'[w] = 0
  BY <1>1 DEF Begin, Return, begun, taken, turned, given
<1>4. Begun \in Nat /\ Taken \in Nat /\ Turned \in Nat /\ Given \in Nat
  BY InHandType
<1>5. NothingLost'
  BY <1>2, <1>3, <1>4 DEF NothingLost, Begin, Return, counters
<1>6. ReportInv'
  BY DEF ReportInv, AllReturned, Begin, Return, counters, producer
<1>7. ASSUME transport' = "http" PROVE HttpInv'
  <2>1. HttpInv /\ \A v \in Workers : stage'[v] # "producing"
    BY <1>7 DEF HttpInv, Begin, Return, plan
  <2>2. Taken' = Taken /\ Turned' = Turned /\ UNCHANGED <<sent, failed, rejected, kept, shed, late, buffered, failures>>
    BY <1>2, <1>3, <1>4 DEF Begin, Return, counters, producer, farEnd
  <2>3. QED
    BY <1>1, <2>1, <2>2 DEF HttpInv
<1>8. ASSUME transport' = "kafka" PROVE KafkaInv'
  <2>1. KafkaInv /\ \A v \in Workers : stage'[v] \notin {"posting", "answered"}
    BY <1>8 DEF KafkaInv, Begin, Return, plan
  <2>2. Given' = Given /\ UNCHANGED <<sent, failed, rejected, kept, shed, late, buffered, failures>>
    BY <1>2, <1>3, <1>4 DEF Begin, Return, counters, producer, farEnd
  <2>3. QED
    BY <2>1, <2>2 DEF KafkaInv
<1>9. QED
  BY <1>5, <1>6, <1>7, <1>8

(* A worker's post is answered, its answer read, or either fails.          *)
LEMMA HttpSteps ==
  ASSUME IInv, NEW w \in Workers, Http(w), TypeInv', UNCHANGED plan
  PROVE  IInv'
<1> USE DEF IInv, TypeInv
<1>1. /\ \A v \in Workers \ {w} :
            stage'[v] = stage[v] /\ refused'[v] = refused[v] /\ handed'[v] = handed[v]
      /\ Plan' = Plan
  BY DEF Http, Answer, ReadAnswer, PostFails, Count, plan, Plan
<1>2. /\ Begun' = Begun - begun[w] + begun'[w]
      /\ Taken' = Taken - taken[w] + taken'[w]
      /\ Turned' = Turned - turned[w] + turned'[w]
  BY <1>1, OneWorker
<1>3. transport = "http" /\ transport' = "http" /\ HttpInv
  BY DEF Http, Answer, ReadAnswer, PostFails, plan, KafkaInv
<1>4. Begun \in Nat /\ Taken \in Nat /\ Turned \in Nat
  BY InHandType
<1>5. late * Plan.perSend \in Nat /\ (late + 1) * Plan.perSend = late * Plan.perSend + Plan.perSend
  BY OneMore
<1>6. ReportInv' /\ buffered' = 0 /\ failures' = 0 /\ \A v \in Workers : stage'[v] # "producing"
  BY <1>3 DEF HttpInv, ReportInv, AllReturned, Http, Answer, ReadAnswer, PostFails, Count, producer
<1>7. CASE Answer(w)
  <2>1. /\ begun[w] = Plan.perSend /\ begun'[w] = Plan.perSend /\ taken[w] = 0 /\ turned[w] = 0
        /\ UNCHANGED <<offered, late, counters>>
    BY <1>1, <1>7 DEF Answer, begun, taken, turned
  <2>2. PICK n \in 0 .. Plan.perSend : Serve(n) /\ refused' = [refused EXCEPT ![w] = Plan.perSend - n]
    BY <1>7 DEF Answer
  <2>3. taken'[w] = n /\ turned'[w] = Plan.perSend - n
    BY <1>1, <1>7, <2>2 DEF Answer, taken, turned
  <2>4. NothingLost'
    BY <1>2, <1>4, <2>1 DEF NothingLost, counters
  <2>5. HttpInv'
    BY <1>1, <1>2, <1>3, <1>4, <1>5, <1>6, <2>1, <2>2, <2>3 DEF HttpInv, Serve, counters
  <2>6. QED
    BY <1>3, <1>6, <2>4, <2>5
<1>8. CASE ReadAnswer(w)
  <2>1. /\ begun[w] = Plan.perSend /\ begun'[w] = 0
        /\ taken[w] = Plan.perSend - refused[w] /\ taken'[w] = 0
        /\ turned[w] = refused[w] /\ turned'[w] = 0
        /\ UNCHANGED <<offered, failed, farEnd>>
        /\ sent' = sent + Plan.perSend - refused[w] /\ rejected' = rejected + refused[w]
    BY <1>1, <1>8 DEF ReadAnswer, Count, begun, taken, turned
  <2>2. refused[w] \in 0 .. Plan.perSend
    OBVIOUS
  <2>3. NothingLost'
    BY <1>2, <1>4, <2>1, <2>2 DEF NothingLost
  <2>4. HttpInv'
    BY <1>1, <1>2, <1>3, <1>4, <1>5, <1>6, <2>1, <2>2 DEF HttpInv, farEnd
  <2>5. QED
    BY <1>3, <1>6, <2>3, <2>4
<1>9. CASE PostFails(w)
  <2>1. /\ begun[w] = Plan.perSend /\ begun'[w] = 0 /\ taken'[w] = 0 /\ turned'[w] = 0
        /\ stage[w] = "posting" => taken[w] = 0 /\ turned[w] = 0
        /\ stage[w] = "answered" => late' = late
        /\ taken[w] <= Plan.perSend /\ turned[w] <= Plan.perSend
        /\ taken[w] \in Nat /\ turned[w] \in Nat
        /\ late' = late \/ late' = late + 1
        /\ stage[w] \in {"posting", "answered"}
        /\ UNCHANGED <<offered, sent, rejected, kept, shed>>
        /\ failed' = failed + Plan.perSend
    BY <1>1, <1>9 DEF PostFails, begun, taken, turned
  <2>2. NothingLost'
    BY <1>2, <1>4, <2>1 DEF NothingLost
  <2>3. HttpInv'
    BY <1>1, <1>2, <1>3, <1>4, <1>5, <1>6, <2>1 DEF HttpInv
  <2>4. QED
    BY <1>3, <1>6, <2>2, <2>3
<1>10. QED
  BY <1>7, <1>8, <1>9 DEF Http

(* A worker hands a record to the producer, or has handed over its batch.  *)
LEMMA KafkaSteps ==
  ASSUME IInv, NEW w \in Workers, Kafka(w), TypeInv', UNCHANGED plan
  PROVE  IInv'
<1> USE DEF IInv, TypeInv
<1>1. /\ \A v \in Workers \ {w} :
            stage'[v] = stage[v] /\ refused'[v] = refused[v] /\ handed'[v] = handed[v]
      /\ Plan' = Plan
  BY DEF Kafka, Send, Sent, Count, plan, Plan
<1>2. /\ Begun' = Begun - begun[w] + begun'[w]
      /\ Given' = Given - given[w] + given'[w]
  BY <1>1, OneWorker
<1>3. transport = "kafka" /\ transport' = "kafka" /\ KafkaInv
  BY DEF Kafka, Send, Sent, plan, HttpInv
<1>4. Begun \in Nat /\ Given \in Nat
  BY InHandType
<1>5. ReportInv' /\ \A v \in Workers : stage'[v] \notin {"posting", "answered"}
  BY <1>3 DEF KafkaInv, ReportInv, AllReturned, Kafka, Send, Sent, Count, producer
<1>6. CASE Send(w)
  <2>1. /\ begun'[w] = begun[w] /\ given[w] = handed[w] /\ given'[w] = handed[w] + 1
        /\ buffered' = buffered + 1 /\ UNCHANGED <<counters, offered, farEnd, failures>>
        /\ begun[w] \in Nat /\ handed[w] \in Nat
    BY <1>1, <1>6 DEF Send, begun, given
  <2>2. NothingLost'
    BY <1>2, <1>4, <2>1 DEF NothingLost, counters
  <2>3. KafkaInv'
    BY <1>2, <1>3, <1>4, <1>5, <2>1 DEF KafkaInv, counters, farEnd
  <2>4. QED
    BY <1>3, <1>5, <2>2, <2>3
<1>7. CASE Sent(w)
  <2>1. /\ begun[w] = Plan.perSend /\ begun'[w] = 0 /\ given[w] = Plan.perSend /\ given'[w] = 0
        /\ sent' = sent + Plan.perSend /\ rejected' = rejected
        /\ UNCHANGED <<failed, offered, farEnd, producer>>
    BY <1>1, <1>7 DEF Sent, Count, begun, given
  <2>2. NothingLost'
    BY <1>2, <1>4, <2>1 DEF NothingLost
  <2>3. KafkaInv'
    BY <1>2, <1>3, <1>4, <1>5, <2>1 DEF KafkaInv, producer, farEnd
  <2>4. QED
    BY <1>3, <1>5, <2>2, <2>3
<1>8. QED
  BY <1>6, <1>7 DEF Kafka

(* The far end, the clock and the report leave the workers alone.          *)
LEMMA OtherSteps ==
  ASSUME IInv, Expire \/ ServeLate \/ Delivered \/ ProduceFails \/ Report \/ UNCHANGED vars,
         TypeInv', UNCHANGED plan
  PROVE  IInv'
<1> USE DEF IInv, TypeInv
<1>1. Plan' = Plan /\ UNCHANGED <<stage, refused, handed, sent, failed, rejected, offered>>
  BY DEF plan, Plan, Expire, ServeLate, Delivered, ProduceFails, Report, vars, workers, counters
<1>2. Begun' = Begun /\ Taken' = Taken /\ Turned' = Turned /\ Given' = Given
  BY <1>1 DEF Begun, Taken, Turned, Given, begun, taken, turned, given
<1>3. Begun \in Nat /\ Taken \in Nat /\ Turned \in Nat /\ Given \in Nat
  BY InHandType
<1>4. NothingLost'
  BY <1>1, <1>2 DEF NothingLost
<1>5. ASSUME transport = "http" PROVE HttpInv'
  <2>1. HttpInv /\ buffered = 0 /\ failures = 0
    BY <1>5 DEF HttpInv
  <2>2. CASE ServeLate
    <3>1. PICK n \in 0 .. Plan.perSend : Serve(n)
      BY <2>2 DEF ServeLate
    <3>2. late' \in Nat /\ late = late' + 1 /\ UNCHANGED producer
      BY <2>2 DEF ServeLate
    <3>3. late * Plan.perSend = late' * Plan.perSend + Plan.perSend /\ late' * Plan.perSend \in Nat
      BY <3>2, OneMore
    <3>4. QED
      BY <1>1, <1>2, <1>3, <2>1, <3>1, <3>2, <3>3 DEF HttpInv, Serve, producer
  <2>3. CASE ~ServeLate
    <3>1. UNCHANGED <<kept, shed, late, buffered, failures>>
      BY <2>1, <2>3 DEF Expire, Delivered, ProduceFails, Report, vars, producer, farEnd
    <3>2. QED
      BY <1>1, <1>2, <2>1, <3>1 DEF HttpInv
  <2>4. QED
    BY <2>2, <2>3
<1>6. ASSUME transport = "kafka" PROVE KafkaInv'
  <2>1. KafkaInv /\ late = 0
    BY <1>6 DEF KafkaInv
  <2>2. UNCHANGED <<shed, late>>
    BY <2>1 DEF KafkaInv, ServeLate, Expire, Delivered, ProduceFails, Report, vars, farEnd
  <2>3. \/ UNCHANGED <<kept, buffered, failures>>
        \/ buffered' = buffered - 1 /\ kept' = kept + 1 /\ failures' = failures
        \/ buffered' = buffered - 1 /\ kept' \in {kept, kept + 1} /\ failures' = failures + 1
    BY <2>1 DEF KafkaInv, ServeLate, Expire, Delivered, ProduceFails, Report, vars, farEnd, producer
  <2>4. sent' = sent /\ Given' = Given /\ sent \in Nat /\ kept \in Nat /\ buffered \in Nat
        /\ failures \in Nat
    BY <1>1, <1>2
  <2>5. /\ (kept + buffered <= sent + Given)'
        /\ (sent + Given <= kept + buffered + failures)'
    <3>1. sent + Given \in Nat /\ (sent + Given)' = sent + Given
      BY <1>3, <2>4
    <3>2. kept + buffered <= sent + Given /\ sent + Given <= kept + buffered + failures
      BY <2>1 DEF KafkaInv
    <3>3. CASE UNCHANGED <<kept, buffered, failures>>
      BY <3>1, <3>2, <3>3
    <3>4. CASE buffered' = buffered - 1 /\ kept' = kept + 1 /\ failures' = failures
      BY <2>4, <3>1, <3>2, <3>4
    <3>5. CASE buffered' = buffered - 1 /\ kept' \in {kept, kept + 1} /\ failures' = failures + 1
      <4>1. kept' = kept \/ kept' = kept + 1
        BY <3>5
      <4>2. QED
        BY <2>4, <3>1, <3>2, <3>5, <4>1
    <3>6. QED
      BY <2>3, <3>3, <3>4, <3>5
  <2>6. QED
    BY <1>1, <2>1, <2>2, <2>5 DEF KafkaInv
<1>7. ReportInv'
  BY <1>1 DEF ReportInv, AllReturned, Settled, Expire, ServeLate, Delivered, ProduceFails, Report, vars, producer
<1>8. QED
  BY <1>4, <1>5, <1>6, <1>7 DEF plan

LEMMA InvNext ==
  ASSUME IInv, [Next]_vars
  PROVE  IInv'
<1>1. TypeInv' /\ UNCHANGED plan
  BY NextTypeInv DEF IInv
<1>2. QED
  BY <1>1, LoopSteps, HttpSteps, KafkaSteps, OtherSteps DEF Next

(* When everything is counted, the invariant is what the report claims.    *)
LEMMA ReportFollows ==
  ASSUME IInv
  PROVE  ReportIsTrue
<1> SUFFICES ASSUME report # None PROVE ReportIsTrue
  BY DEF ReportIsTrue
<1> USE DEF IInv, TypeInv
<1>1. /\ AllReturned /\ buffered = 0
      /\ report.accepted = sent - failures /\ report.failed = failed + failures
      /\ report.rejected = rejected
  BY DEF ReportInv
<1>2. Begun = 0 /\ Taken = 0 /\ Turned = 0 /\ Given = 0
  BY <1>1, NothingInHand DEF AllReturned
<1>3. late * Plan.perSend \in Nat
  BY OneMore
<1>4. CASE transport = "http"
  BY <1>1, <1>2, <1>3, <1>4 DEF NothingLost, HttpInv, ReportIsTrue
<1>5. CASE transport = "kafka"
  BY <1>1, <1>2, <1>5 DEF NothingLost, KafkaInv, ReportIsTrue
<1>6. QED
  BY <1>4, <1>5

(* The report leaves out nothing that was offered, claims nothing that was *)
(* not kept, and misses no more than it calls failed, for any number of    *)
(* workers and sends and whatever answers and acknowledgements are lost.   *)
THEOREM ReportTrue == Spec => []ReportIsTrue
<1>1. Init => IInv
  BY InitIInv
<1>2. IInv /\ [Next]_vars => IInv'
  BY InvNext
<1>3. IInv => ReportIsTrue
  BY ReportFollows
<1>4. QED
  BY <1>1, <1>2, <1>3, PTL DEF Spec
=============================================================================
