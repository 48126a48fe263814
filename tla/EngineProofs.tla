---------------------------- MODULE EngineProofs ----------------------------
(***************************************************************************)
(* Theorems about Engine, for any workers, queues, cards and callers.       *)
(***************************************************************************)
EXTENDS Engine, SequenceTheorems, CollectionProofs

(* A goroutine's step, as far as the pool can tell: a transaction enters, *)
(* a call returns, or a worker or Stop moves.                              *)
Enters(c) == Calling(c) /\ Enqueue(c) /\ UNCHANGED <<returned, rejected>>

CallReturns(c) ==
    /\ c \notin returned
    /\ returned' = returned \cup {c}
    /\ UNCHANGED <<pool, history, sent, closed, wg, stopped>>

(* The types but for the WaitGroup's counter, which needs to be counted.   *)
TInv ==
    /\ queue \in [Workers -> Seq(Txs)] /\ \A w \in Workers : Len(queue[w]) <= Capacity[w]
    /\ cur \in [Workers -> SUBSET Txs]
    /\ stage \in [Workers -> {"receive", "rules", "hook", "done", "exited"}]
    /\ sent \in [Callers -> Nat] /\ returned \subseteq Callers
    /\ wg \in [Batchers -> Int] /\ rejected \in Nat /\ finished \subseteq Txs
    /\ entered \in [Cards -> Seq(Txs)] /\ ruled \in [Cards -> Seq(Txs)]
    /\ closed \in BOOLEAN /\ stopped \in BOOLEAN

LEMMA Effects ==
  ASSUME TInv, Next
  PROVE  \/ \E c \in Callers : Enters(c) /\ (c \in Posters => Valid(c))
         \/ \E c \in Callers : CallReturns(c) /\ rejected' \in Nat
         \/ \E w \in Workers : Step(w)
         \/ Stop \/ StopReturns
<1>1. ASSUME NEW c \in Callers, Call(c)
      PROVE  \/ Enters(c) /\ (c \in Posters => Valid(c))
             \/ CallReturns(c) /\ rejected' \in Nat
  <2>1. CASE Submit(c)
    BY <2>1, ConstantsAssumption DEF Submit, Enters
  <2>2. CASE SubmitReturns(c)
    BY <2>2 DEF SubmitReturns, CallReturns, TInv
  <2>3. CASE SubmitBatchReturns(c)
    BY <2>3 DEF SubmitBatchReturns, CallReturns, TInv
  <2>4. CASE TrySubmit(c)
    BY <2>4 DEF TrySubmit, Enters
  <2>5. CASE Shed(c)
    <3>1. Len(Work[c]) \in Nat /\ sent[c] \in Nat /\ rejected \in Nat
      BY ConstantsAssumption, LenProperties DEF TInv
    <3>2. rejected' \in Nat
      BY <2>5, <3>1 DEF Shed, Calling
    <3>3. QED
      BY <2>5, <3>2 DEF Shed, CallReturns, Calling
  <2>6. CASE IngestReturns(c)
    BY <2>6 DEF IngestReturns, CallReturns, TInv
  <2>7. QED
    BY <1>1, <2>1, <2>2, <2>3, <2>4, <2>5, <2>6 DEF Call
<1>2. QED
  BY <1>1 DEF Next

(* The next transaction of a call, and its way into a queue. *)
LEMMA NextIsOne ==
  ASSUME TInv, NEW c \in Callers, Calling(c)
  PROVE  /\ Len(Work[c]) \in Nat /\ sent[c] \in Nat /\ sent[c] + 1 \in DOMAIN Work[c]
         /\ NextTx(c) \in Txs /\ NextTx(c) \in Batch(c)
         /\ CardOf[NextTx(c)] \in Cards /\ HashOf[CardOf[NextTx(c)]] \in Workers
<1>1. Work[c] \in Seq(Txs)
  BY ConstantsAssumption
<1>2. Len(Work[c]) \in Nat /\ DOMAIN Work[c] = 1 .. Len(Work[c]) /\ sent[c] \in Nat
  BY <1>1, LenProperties DEF TInv
<1>3. sent[c] + 1 \in DOMAIN Work[c]
  BY <1>2 DEF Calling
<1>4. NextTx(c) \in Txs
  BY <1>1, <1>2, <1>3, ElementOfSeq DEF NextTx
<1>5. QED
  BY <1>2, <1>3, <1>4, ConstantsAssumption DEF NextTx, Batch, Range

LEMMA Appended ==
  ASSUME NEW S, NEW s \in Seq(S), NEW e \in S
  PROVE  /\ Append(s, e) \in Seq(S)
         /\ Len(Append(s, e)) = Len(s) + 1 /\ Len(s) \in Nat
         /\ Range(Append(s, e)) = Range(s) \cup {e}
         /\ DOMAIN s = 1 .. Len(s) /\ DOMAIN Append(s, e) = 1 .. Len(s) + 1
         /\ \A i \in DOMAIN s : Append(s, e)[i] = s[i]
         /\ Append(s, e)[Len(s) + 1] = e
<1>1. /\ Append(s, e) \in Seq(S) /\ Len(Append(s, e)) = Len(s) + 1
      /\ \A i \in 1 .. Len(s) : Append(s, e)[i] = s[i]
      /\ Append(s, e)[Len(s) + 1] = e
  BY AppendProperties
<1>2. Len(s) \in Nat /\ DOMAIN s = 1 .. Len(s) /\ DOMAIN Append(s, e) = 1 .. Len(s) + 1
  BY <1>1, LenProperties
<1>3. Range(Append(s, e)) = Range(s) \cup {e}
  <2>1. ASSUME NEW x \in Range(Append(s, e)) PROVE x \in Range(s) \cup {e}
    <3>1. PICK i \in 1 .. Len(s) + 1 : Append(s, e)[i] = x
      BY <1>2 DEF Range
    <3>2. i \in 1 .. Len(s) \/ i = Len(s) + 1
      BY <1>2
    <3>3. QED
      BY <1>1, <1>2, <3>1, <3>2 DEF Range
  <2>2. ASSUME NEW i \in 1 .. Len(s) PROVE s[i] \in Range(Append(s, e))
    BY <1>1, <1>2 DEF Range
  <2>3. e \in Range(Append(s, e))
    BY <1>1, <1>2 DEF Range
  <2>4. QED
    BY <1>2, <2>1, <2>2, <2>3 DEF Range
<1>4. QED
  BY <1>1, <1>2, <1>3

LEMMA HeadAndTail ==
  ASSUME NEW S, NEW s \in Seq(S), s # <<>>
  PROVE  /\ Head(s) \in S /\ Tail(s) \in Seq(S) /\ Head(s) = s[1]
         /\ Len(s) \in Nat \ {0} /\ Len(Tail(s)) = Len(s) - 1
         /\ DOMAIN s = 1 .. Len(s) /\ DOMAIN Tail(s) = 1 .. Len(s) - 1
         /\ \A i \in DOMAIN Tail(s) : Tail(s)[i] = s[i + 1]
         /\ Range(s) = Range(Tail(s)) \cup {Head(s)}
<1>1. /\ Head(s) \in S /\ Tail(s) \in Seq(S) /\ Len(Tail(s)) = Len(s) - 1
      /\ \A i \in 1 .. Len(Tail(s)) : Tail(s)[i] = s[i + 1]
  BY HeadTailProperties
<1>2. Len(s) \in Nat \ {0} /\ DOMAIN s = 1 .. Len(s) /\ DOMAIN Tail(s) = 1 .. Len(s) - 1
  BY <1>1, EmptySeq, LenProperties
<1>3. Head(s) = s[1]
  OBVIOUS
<1>4. Range(s) = Range(Tail(s)) \cup {Head(s)}
  <2>1. ASSUME NEW i \in 1 .. Len(s) PROVE s[i] \in Range(Tail(s)) \cup {Head(s)}
    <3>1. CASE i = 1
      BY <1>3, <3>1
    <3>2. CASE i # 1
      <4>1. i - 1 \in 1 .. Len(s) - 1 /\ (i - 1) + 1 = i
        BY <1>2, <3>2
      <4>2. QED
        BY <1>1, <1>2, <4>1 DEF Range
    <3>3. QED
      BY <3>1, <3>2
  <2>2. ASSUME NEW i \in 1 .. Len(s) - 1 PROVE Tail(s)[i] \in Range(s)
    BY <1>1, <1>2 DEF Range
  <2>3. Head(s) \in Range(s)
    BY <1>2, <1>3 DEF Range
  <2>4. QED
    BY <1>2, <2>1, <2>2, <2>3 DEF Range
<1>5. QED
  BY <1>1, <1>2, <1>3, <1>4

----------------------------------------------------------------------------
(* Types. *)

LEMMA TInit == Init => TInv
<1> SUFFICES ASSUME Init PROVE TInv
  OBVIOUS
<1>1. <<>> \in Seq(Txs) /\ Len(<<>>) = 0
  BY EmptySeq
<1>2. \A w \in Workers : Capacity[w] \in Nat
  BY ConstantsAssumption
<1>3. wg \in [Batchers -> Int]
  <2>1. ASSUME NEW c \in Batchers PROVE Len(Work[c]) \in Int
    BY ConstantsAssumption, LenProperties DEF Callers
  <2>2. QED
    BY <2>1 DEF Init
<1>4. queue \in [Workers -> Seq(Txs)] /\ \A w \in Workers : Len(queue[w]) <= Capacity[w]
  BY <1>1, <1>2 DEF Init
<1>5. entered \in [Cards -> Seq(Txs)] /\ ruled \in [Cards -> Seq(Txs)]
  BY <1>1 DEF Init
<1>6. cur \in [Workers -> SUBSET Txs] /\ stage \in [Workers -> {"receive", "rules", "hook", "done", "exited"}]
  BY DEF Init
<1>7. QED
  BY <1>3, <1>4, <1>5, <1>6 DEF Init, TInv

(* What entering changes. *)
LEMMA Entering ==
  ASSUME TInv, NEW c \in Callers, Enters(c)
  PROVE  LET t == NextTx(c)
             w == HashOf[CardOf[t]]
         IN  /\ t \in Txs /\ t \in Batch(c) /\ CardOf[t] \in Cards /\ w \in Workers
             /\ c \notin returned /\ sent[c] + 1 \in DOMAIN Work[c] /\ t = Work[c][sent[c] + 1]
             /\ Len(queue[w]) < Capacity[w]
             /\ queue' = [queue EXCEPT ![w] = Append(queue[w], t)]
             /\ sent' = [sent EXCEPT ![c] = sent[c] + 1]
             /\ entered' = [entered EXCEPT ![CardOf[t]] = Append(entered[CardOf[t]], t)]
             /\ UNCHANGED <<cur, stage, closed, wg, stopped, ruled, finished, returned, rejected>>
<1> DEFINE t == NextTx(c)
           w == HashOf[CardOf[t]]
<1>1. /\ t \in Txs /\ t \in Batch(c) /\ CardOf[t] \in Cards /\ w \in Workers
      /\ sent[c] + 1 \in DOMAIN Work[c]
  BY NextIsOne DEF Enters
<1>2. /\ Len(queue[w]) < Capacity[w]
      /\ queue' = [queue EXCEPT ![w] = Append(queue[w], t)]
  BY DEF Enters, Enqueue, QueueFor
<1>3. c \notin returned /\ t = Work[c][sent[c] + 1]
  BY DEF Enters, Calling, NextTx
<1>4. /\ sent' = [sent EXCEPT ![c] = sent[c] + 1]
      /\ entered' = [entered EXCEPT ![CardOf[t]] = Append(entered[CardOf[t]], t)]
      /\ UNCHANGED <<cur, stage, closed, wg, stopped, ruled, finished, returned, rejected>>
  BY DEF Enters, Enqueue
<1>5. QED
  BY <1>1, <1>2, <1>3, <1>4

LEMMA TStep == TInv /\ [Next]_vars => TInv'
<1> SUFFICES ASSUME TInv, [Next]_vars PROVE TInv'
  OBVIOUS
<1>1. ASSUME NEW c \in Callers, Enters(c) PROVE TInv'
  <2> DEFINE t == NextTx(c)
             w == HashOf[CardOf[t]]
             k == CardOf[t]
  <2>1. /\ t \in Txs /\ k \in Cards /\ w \in Workers
        /\ Len(queue[w]) < Capacity[w]
        /\ queue' = [queue EXCEPT ![w] = Append(queue[w], t)]
        /\ sent' = [sent EXCEPT ![c] = sent[c] + 1]
        /\ entered' = [entered EXCEPT ![k] = Append(entered[k], t)]
        /\ UNCHANGED <<cur, stage, closed, wg, stopped, ruled, finished, returned, rejected>>
    BY <1>1, Entering
  <2> HIDE DEF t, w, k
  <2>2. queue[w] \in Seq(Txs) /\ entered[k] \in Seq(Txs)
    BY <2>1 DEF TInv
  <2>3. /\ Append(queue[w], t) \in Seq(Txs) /\ Append(entered[k], t) \in Seq(Txs)
        /\ Len(Append(queue[w], t)) = Len(queue[w]) + 1 /\ Len(queue[w]) \in Nat
    BY <2>1, <2>2, Appended
  <2>4. Capacity[w] \in Nat
    BY <2>1, ConstantsAssumption
  <2>5. queue' \in [Workers -> Seq(Txs)] /\ \A v \in Workers : Len(queue'[v]) <= Capacity[v]
    BY <2>1, <2>3, <2>4 DEF TInv
  <2>6. entered' \in [Cards -> Seq(Txs)]
    BY <2>1, <2>3 DEF TInv
  <2>7. sent' \in [Callers -> Nat]
    BY <2>1 DEF TInv
  <2>8. QED
    BY <2>1, <2>5, <2>6, <2>7 DEF TInv
<1>2. ASSUME NEW c \in Callers, CallReturns(c), rejected' \in Nat PROVE TInv'
  BY <1>2 DEF CallReturns, TInv, pool, history
<1>3. ASSUME NEW w \in Workers, Receive(w) PROVE TInv'
  <2>1. queue[w] \in Seq(Txs) /\ queue[w] # <<>>
    BY <1>3 DEF Receive, TInv
  <2>2. /\ Tail(queue[w]) \in Seq(Txs) /\ Head(queue[w]) \in Txs
        /\ Len(Tail(queue[w])) = Len(queue[w]) - 1 /\ Len(queue[w]) \in Nat
    BY <2>1, HeadAndTail
  <2>3. Capacity[w] \in Nat
    BY ConstantsAssumption
  <2>4. queue' \in [Workers -> Seq(Txs)] /\ \A v \in Workers : Len(queue'[v]) <= Capacity[v]
    BY <1>3, <2>2, <2>3 DEF Receive, TInv
  <2>5. QED
    BY <1>3, <2>2, <2>4 DEF Receive, TInv, calls, history
<1>4. ASSUME NEW w \in Workers, ApplyRules(w) PROVE TInv'
  <2>1. PICK t \in cur[w] : ruled' = [ruled EXCEPT ![CardOf[t]] = Append(@, t)]
    BY <1>4 DEF ApplyRules
  <2>2. t \in Txs
    BY DEF TInv
  <2>3. CardOf[t] \in Cards
    BY <2>2, ConstantsAssumption
  <2>4. Append(ruled[CardOf[t]], t) \in Seq(Txs)
    BY <2>2, <2>3, Appended DEF TInv
  <2>5. ruled' \in [Cards -> Seq(Txs)]
    BY <2>1, <2>3, <2>4 DEF TInv
  <2>6. QED
    BY <1>4, <2>5 DEF ApplyRules, TInv, calls
<1>5. ASSUME NEW w \in Workers, FlaggedHook(w) PROVE TInv'
  BY <1>5 DEF FlaggedHook, TInv, calls
<1>6. ASSUME NEW w \in Workers, Done(w) PROVE TInv'
  <2>1. wg' \in [Batchers -> Int]
    BY <1>6 DEF Done, TInv
  <2>2. QED
    BY <1>6, <2>1 DEF Done, TInv, calls, history
<1>7. ASSUME NEW w \in Workers, WorkerExits(w) PROVE TInv'
  BY <1>7 DEF WorkerExits, TInv, calls, history
<1>8. CASE Stop
  BY <1>8 DEF Stop, TInv, pool, calls, history
<1>9. CASE StopReturns
  BY <1>9 DEF StopReturns, TInv, pool, calls, history
<1>10. CASE UNCHANGED vars
  BY <1>10 DEF vars, TInv, pool, calls, history
<1>11. QED
  BY <1>1, <1>2, <1>3, <1>4, <1>5, <1>6, <1>7, <1>8, <1>9, <1>10, Effects DEF Step

----------------------------------------------------------------------------
(* Where every transaction is. *)

Home(t) == HashOf[CardOf[t]]

IsTaken(t) == \E i \in DOMAIN entered[CardOf[t]] : entered[CardOf[t]][i] = t

Distinct(s) == \A i, j \in DOMAIN s : s[i] = s[j] => i = j

InHand(w) ==
    IF stage[w] \in {"receive", "exited"} THEN cur[w] = {} ELSE \E t \in Txs : cur[w] = {t}

Held(w) == Range(queue[w]) \cup cur[w]

(* A worker has its own cards' transactions, each once, and one that it is *)
(* done with has been scored.                                              *)
HoldsItsOwn(w) ==
    /\ \A t \in Held(w) :
          Home(t) = w /\ IsTaken(t) /\ (t \in finished <=> t \in cur[w] /\ stage[w] = "done")
    /\ cur[w] \cap Range(queue[w]) = {} /\ Distinct(queue[w])

(* A call has handed over a prefix. *)
HandedOver(c) ==
    /\ sent[c] <= Len(Work[c])
    /\ \A i \in DOMAIN Work[c] : IsTaken(Work[c][i]) <=> i <= sent[c]

OwnCard(k) == \A i \in DOMAIN entered[k] : CardOf[entered[k][i]] = k

(* What was taken is scored or held. *)
Accounted(t) == (t \in finished => IsTaken(t)) /\ (IsTaken(t) => t \in finished \cup Held(Home(t)))

ShutDown ==
    /\ \A w \in Workers : stage[w] = "exited" => closed /\ queue[w] = <<>>
    /\ closed => Callers \subseteq returned
    /\ stopped => \A w \in Workers : stage[w] = "exited"

PInv ==
    /\ \A w \in Workers : InHand(w) /\ HoldsItsOwn(w)
    /\ \A c \in Callers : HandedOver(c)
    /\ \A k \in Cards : OwnCard(k)
    /\ \A t \in Txs : Accounted(t)
    /\ ShutDown

LEMMA PInit == Init => PInv
<1> SUFFICES ASSUME Init PROVE PInv
  OBVIOUS
<1>1. DOMAIN <<>> = {} /\ Range(<<>>) = {}
  BY EmptySeq, LenProperties DEF Range
<1>2. \A w \in Workers : queue[w] = <<>> /\ cur[w] = {} /\ stage[w] = "receive"
  BY DEF Init
<1>3. \A k \in Cards : entered[k] = <<>>
  BY DEF Init
<1>4. \A t \in Txs : ~IsTaken(t)
  <2>1. \A t \in Txs : entered[CardOf[t]] = <<>>
    BY <1>3, ConstantsAssumption
  <2>2. QED
    BY <1>1, <2>1 DEF IsTaken
<1>5. ASSUME NEW w \in Workers PROVE InHand(w) /\ HoldsItsOwn(w)
  BY <1>1, <1>2 DEF InHand, HoldsItsOwn, Held, Distinct
<1>6. ASSUME NEW c \in Callers PROVE HandedOver(c)
  <2>1. Len(Work[c]) \in Nat /\ DOMAIN Work[c] = 1 .. Len(Work[c]) /\ Work[c] \in Seq(Txs)
    BY ConstantsAssumption, LenProperties
  <2>2. \A i \in DOMAIN Work[c] : Work[c][i] \in Txs
    BY <2>1, ElementOfSeq
  <2>3. sent[c] = 0
    BY DEF Init
  <2>4. QED
    BY <1>4, <2>1, <2>2, <2>3 DEF HandedOver
<1>7. ASSUME NEW k \in Cards PROVE OwnCard(k)
  BY <1>1, <1>3 DEF OwnCard
<1>8. ASSUME NEW t \in Txs PROVE Accounted(t)
  BY <1>4 DEF Accounted, Init
<1>9. ShutDown
  BY <1>2 DEF ShutDown, Init
<1>10. QED
  BY <1>5, <1>6, <1>7, <1>8, <1>9 DEF PInv

(* A card's transactions are queued at its own worker, so nothing is taken *)
(* twice and no other worker has it.                                       *)
LEMMA TakenIsDomain ==
  ASSUME TInv, PInv
  PROVE  \A t \in Txs : IsTaken(t) <=> t \in Taken
<1> SUFFICES ASSUME NEW t \in Txs PROVE IsTaken(t) <=> t \in Taken
  OBVIOUS
<1>1. CardOf[t] \in Cards
  BY ConstantsAssumption
<1>2. ASSUME IsTaken(t) PROVE t \in Taken
  BY <1>1, <1>2 DEF IsTaken, Taken, Range
<1>3. ASSUME t \in Taken PROVE IsTaken(t)
  <2>1. PICK k \in Cards : t \in Range(entered[k])
    BY <1>3 DEF Taken
  <2>2. PICK i \in DOMAIN entered[k] : entered[k][i] = t
    BY <2>1 DEF Range
  <2>3. CardOf[t] = k
    BY <2>2 DEF PInv, OwnCard
  <2>4. QED
    BY <2>2, <2>3 DEF IsTaken
<1>4. QED
  BY <1>2, <1>3

(* Appending something new keeps a sequence distinct; a tail is distinct.  *)
LEMMA DistinctAppend ==
  ASSUME NEW S, NEW s \in Seq(S), NEW e \in S, Distinct(s), e \notin Range(s)
  PROVE  Distinct(Append(s, e))
<1>1. /\ Len(s) \in Nat /\ DOMAIN s = 1 .. Len(s) /\ DOMAIN Append(s, e) = 1 .. Len(s) + 1
      /\ \A i \in DOMAIN s : Append(s, e)[i] = s[i]
      /\ Append(s, e)[Len(s) + 1] = e
  BY Appended
<1>2. \A i \in DOMAIN s : s[i] # e
  BY DEF Range
<1>3. SUFFICES ASSUME NEW i \in 1 .. Len(s) + 1, NEW j \in 1 .. Len(s) + 1,
                      Append(s, e)[i] = Append(s, e)[j]
               PROVE  i = j
  BY <1>1 DEF Distinct
<1>4. (i \in DOMAIN s \/ i = Len(s) + 1) /\ (j \in DOMAIN s \/ j = Len(s) + 1)
  BY <1>1
<1>5. QED
  BY <1>1, <1>2, <1>3, <1>4 DEF Distinct

LEMMA DistinctTail ==
  ASSUME NEW S, NEW s \in Seq(S), s # <<>>, Distinct(s)
  PROVE  Distinct(Tail(s)) /\ Head(s) \notin Range(Tail(s))
<1>1. /\ Head(s) = s[1] /\ Len(s) \in Nat \ {0}
      /\ DOMAIN s = 1 .. Len(s) /\ DOMAIN Tail(s) = 1 .. Len(s) - 1
      /\ \A i \in DOMAIN Tail(s) : Tail(s)[i] = s[i + 1]
  BY HeadAndTail
<1>2. \A i \in DOMAIN Tail(s) : i \in Int /\ i + 1 \in DOMAIN s /\ i + 1 # 1
  BY <1>1
<1>3. Distinct(Tail(s))
  <2>1. SUFFICES ASSUME NEW i \in DOMAIN Tail(s), NEW j \in DOMAIN Tail(s), Tail(s)[i] = Tail(s)[j]
                 PROVE  i = j
    BY DEF Distinct
  <2>2. s[i + 1] = s[j + 1]
    BY <1>1, <2>1
  <2>3. i + 1 = j + 1
    BY <1>2, <2>2 DEF Distinct
  <2>4. QED
    BY <1>2, <2>3
<1>4. ASSUME NEW i \in DOMAIN Tail(s) PROVE Tail(s)[i] # Head(s)
  <2>1. 1 \in DOMAIN s
    BY <1>1
  <2>2. QED
    BY <1>1, <1>2, <2>1 DEF Distinct
<1>5. QED
  BY <1>3, <1>4 DEF Range

(* The transaction that enters was not taken, and then it is. *)
LEMMA EntersNew ==
  ASSUME TInv, PInv, NEW c \in Callers, Enters(c)
  PROVE  /\ ~IsTaken(NextTx(c))
         /\ \A x \in Txs : IsTaken(x)' <=> IsTaken(x) \/ x = NextTx(c)
<1> DEFINE t == NextTx(c)
           k == CardOf[t]
<1>1. /\ t \in Txs /\ k \in Cards
      /\ sent[c] + 1 \in DOMAIN Work[c] /\ t = Work[c][sent[c] + 1]
      /\ entered' = [entered EXCEPT ![k] = Append(entered[k], t)]
  BY Entering
<1>2. ~IsTaken(t)
  <2>1. sent[c] \in Nat
    BY DEF TInv
  <2>2. QED
    BY <1>1, <2>1 DEF PInv, HandedOver
<1> HIDE DEF t, k
<1>3. entered[k] \in Seq(Txs)
  BY <1>1 DEF TInv
<1>4. entered'[k] = Append(entered[k], t) /\ \A l \in Cards \ {k} : entered'[l] = entered[l]
  BY <1>1 DEF TInv
<1>5. Range(Append(entered[k], t)) = Range(entered[k]) \cup {t}
  BY <1>1, <1>3, Appended
<1>6. \A x \in Txs : CardOf[x] \in Cards
  BY ConstantsAssumption
<1>7. \A x \in Txs : IsTaken(x) <=> x \in Range(entered[CardOf[x]])
  BY DEF IsTaken, Range
<1>8. \A x \in Txs : IsTaken(x)' <=> x \in Range(entered'[CardOf[x]])
  BY DEF IsTaken, Range
<1>9. CardOf[t] = k
  BY DEF k
<1>10. ASSUME NEW x \in Txs PROVE IsTaken(x)' <=> IsTaken(x) \/ x = t
  <2>1. CASE CardOf[x] = k
    BY <1>4, <1>5, <1>7, <1>8, <2>1
  <2>2. CASE CardOf[x] # k
    BY <1>4, <1>6, <1>7, <1>8, <1>9, <2>2
  <2>3. QED
    BY <2>1, <2>2
<1>11. QED
  BY <1>2, <1>10 DEF t

LEMMA PEnters ==
  ASSUME TInv, PInv, NEW c \in Callers, Enters(c)
  PROVE  PInv'
<1>0. PICK t \in Txs : t = NextTx(c)
  BY Entering
<1>1. PICK k \in Cards, w \in Workers :
      /\ CardOf[t] = k /\ HashOf[k] = w /\ c \notin returned
      /\ sent[c] + 1 \in DOMAIN Work[c] /\ t = Work[c][sent[c] + 1]
      /\ queue' = [queue EXCEPT ![w] = Append(queue[w], t)]
      /\ sent' = [sent EXCEPT ![c] = sent[c] + 1]
      /\ entered' = [entered EXCEPT ![k] = Append(entered[k], t)]
      /\ UNCHANGED <<cur, stage, closed, wg, stopped, ruled, finished, returned, rejected>>
  BY <1>0, Entering
<1>2. ~IsTaken(t) /\ \A x \in Txs : IsTaken(x)' <=> IsTaken(x) \/ x = t
  BY <1>0, EntersNew
<1>3. Home(t) = w /\ CardOf[t] = k
  BY <1>1 DEF Home
<1>4. queue[w] \in Seq(Txs) /\ entered[k] \in Seq(Txs)
  BY <1>1 DEF TInv
<1>5. /\ queue'[w] = Append(queue[w], t) /\ \A v \in Workers \ {w} : queue'[v] = queue[v]
      /\ entered'[k] = Append(entered[k], t) /\ \A l \in Cards \ {k} : entered'[l] = entered[l]
  BY <1>1 DEF TInv
<1>6. Range(queue'[w]) = Range(queue[w]) \cup {t}
  BY <1>1, <1>4, <1>5, Appended
<1>7. \A v \in Workers : Held(v) \subseteq Txs
  <2>1. ASSUME NEW v \in Workers PROVE Range(queue[v]) \subseteq Txs
    BY RangeOfSeq DEF TInv
  <2>2. QED
    BY <2>1 DEF Held, TInv
<1>8. /\ Held(w)' = Held(w) \cup {t} /\ \A v \in Workers \ {w} : Held(v)' = Held(v)
  BY <1>1, <1>5, <1>6 DEF Held
<1>9. \A v \in Workers : t \notin Held(v)
  BY <1>2 DEF PInv, HoldsItsOwn
<1>10. t \notin finished
  BY <1>1, <1>2 DEF PInv, Accounted
<1>11. ASSUME NEW v \in Workers PROVE InHand(v)' /\ HoldsItsOwn(v)'
  <2>1. InHand(v)'
    BY <1>1 DEF PInv, InHand
  <2>2. ASSUME NEW x \in Held(v)'
        PROVE  Home(x) = v /\ IsTaken(x)' /\ (x \in finished' <=> x \in cur'[v] /\ stage'[v] = "done")
    <3>1. CASE x = t
      <4>1. v = w
        BY <1>8, <1>9, <2>2, <3>1
      <4>2. x \notin cur'[v]
        BY <1>1, <1>9, <3>1 DEF Held
      <4>3. QED
        BY <1>1, <1>2, <1>3, <1>10, <3>1, <4>1, <4>2
    <3>2. CASE x # t
      <4>1. x \in Held(v) /\ x \in Txs
        BY <1>7, <1>8, <2>2, <3>2
      <4>2. QED
        BY <1>1, <1>2, <4>1 DEF PInv, HoldsItsOwn
    <3>3. QED
      BY <3>1, <3>2
  <2>3. cur'[v] \cap Range(queue'[v]) = {} /\ Distinct(queue'[v])
    <3>1. CASE v = w
      <4>1. t \notin Range(queue[w]) /\ t \notin cur[w]
        BY <1>1, <1>9 DEF Held
      <4>2. Distinct(queue'[w])
        BY <1>1, <1>4, <1>5, <4>1, DistinctAppend DEF PInv, HoldsItsOwn
      <4>3. QED
        BY <1>1, <1>6, <3>1, <4>1, <4>2 DEF PInv, HoldsItsOwn
    <3>2. CASE v # w
      BY <1>1, <1>5, <3>2 DEF PInv, HoldsItsOwn
    <3>3. QED
      BY <3>1, <3>2
  <2>4. QED
    BY <2>1, <2>2, <2>3 DEF HoldsItsOwn, Distinct
<1>12. ASSUME NEW d \in Callers PROVE HandedOver(d)'
  <2>1. /\ Len(Work[d]) \in Nat /\ DOMAIN Work[d] = 1 .. Len(Work[d]) /\ sent[d] \in Nat
        /\ \A i \in DOMAIN Work[d] : Work[d][i] \in Txs
    BY ConstantsAssumption, LenProperties, ElementOfSeq DEF TInv
  <2>2. \A i \in DOMAIN Work[d] : Work[d][i] = t <=> d = c /\ i = sent[c] + 1
    BY <1>1, OneCallEach
  <2>3. sent'[d] = IF d = c THEN sent[d] + 1 ELSE sent[d]
    BY <1>1 DEF TInv
  <2>4. sent'[d] <= Len(Work[d])
    BY <1>1, <2>1, <2>3 DEF PInv, HandedOver
  <2>5. ASSUME NEW i \in DOMAIN Work[d] PROVE IsTaken(Work[d][i])' <=> i <= sent'[d]
    <3>1. IsTaken(Work[d][i])' <=> IsTaken(Work[d][i]) \/ (d = c /\ i = sent[c] + 1)
      BY <1>2, <2>1, <2>2
    <3>2. IsTaken(Work[d][i]) <=> i <= sent[d]
      BY DEF PInv, HandedOver
    <3>3. QED
      BY <2>1, <2>3, <3>1, <3>2
  <2>6. QED
    BY <2>4, <2>5 DEF HandedOver
<1>13. ASSUME NEW l \in Cards PROVE OwnCard(l)'
  <2>1. CASE l = k
    <3>1. /\ DOMAIN entered'[k] = 1 .. Len(entered[k]) + 1 /\ Len(entered[k]) \in Nat
          /\ DOMAIN entered[k] = 1 .. Len(entered[k])
          /\ \A i \in DOMAIN entered[k] : entered'[k][i] = entered[k][i]
          /\ entered'[k][Len(entered[k]) + 1] = t
      BY <1>1, <1>4, <1>5, Appended
    <3>2. ASSUME NEW i \in DOMAIN entered'[k] PROVE CardOf[entered'[k][i]] = k
      <4>1. i \in DOMAIN entered[k] \/ i = Len(entered[k]) + 1
        BY <3>1
      <4>2. QED
        BY <1>1, <1>3, <3>1, <4>1 DEF PInv, OwnCard
    <3>3. QED
      BY <2>1, <3>2 DEF OwnCard
  <2>2. CASE l # k
    BY <1>5, <2>2 DEF PInv, OwnCard
  <2>3. QED
    BY <2>1, <2>2
<1>14. ASSUME NEW x \in Txs PROVE Accounted(x)'
  <2>1. Home(x) \in Workers
    BY ConstantsAssumption DEF Home
  <2>2. CASE x = t
    BY <1>1, <1>2, <1>3, <1>8, <2>2 DEF Accounted
  <2>3. CASE x # t
    <3>1. Held(Home(x)) \subseteq Held(Home(x))'
      BY <1>8, <2>1
    <3>2. QED
      BY <1>1, <1>2, <2>3, <3>1 DEF PInv, Accounted, Home
  <2>4. QED
    BY <2>2, <2>3
<1>15. ShutDown'
  <2>1. ~closed
    BY <1>1 DEF PInv, ShutDown
  <2>2. QED
    BY <1>1, <2>1 DEF PInv, ShutDown
<1>16. QED
  BY <1>11, <1>12, <1>13, <1>14, <1>15 DEF PInv

(* Steps that queue nothing leave the calls' prefixes as they are. *)
LEMMA PSame ==
  ASSUME PInv, UNCHANGED <<entered, sent>>
  PROVE  /\ \A x : IsTaken(x)' <=> IsTaken(x)
         /\ \A c \in Callers : HandedOver(c)'
         /\ \A k \in Cards : OwnCard(k)'
<1>1. \A x : IsTaken(x)' <=> IsTaken(x)
  BY DEF IsTaken
<1>2. ASSUME NEW c \in Callers PROVE HandedOver(c)'
  BY <1>1 DEF PInv, HandedOver
<1>3. ASSUME NEW k \in Cards PROVE OwnCard(k)'
  BY DEF PInv, OwnCard
<1>4. QED
  BY <1>1, <1>2, <1>3

(* A worker that leaves its hand, its queue and the outcomes alone. *)
LEMMA PWorkerSame ==
  ASSUME PInv, NEW w \in Workers, UNCHANGED <<entered, sent>>,
         queue'[w] = queue[w], cur'[w] = cur[w], stage'[w] = stage[w],
         \A t \in Held(w) : t \in finished' <=> t \in finished
  PROVE  InHand(w)' /\ HoldsItsOwn(w)'
<1>1. Held(w)' = Held(w)
  BY DEF Held
<1>2. InHand(w)'
  BY DEF PInv, InHand
<1>3. \A x : IsTaken(x)' <=> IsTaken(x)
  BY PSame
<1>4. QED
  BY <1>1, <1>2, <1>3 DEF PInv, HoldsItsOwn, Distinct

LEMMA PReturns ==
  ASSUME TInv, PInv, NEW c \in Callers, CallReturns(c)
  PROVE  PInv'
<1>1. UNCHANGED <<queue, cur, stage, entered, ruled, finished, sent, closed, stopped>>
  BY DEF CallReturns, pool, history
<1>2. /\ \A x : IsTaken(x)' <=> IsTaken(x)
      /\ \A d \in Callers : HandedOver(d)'
      /\ \A k \in Cards : OwnCard(k)'
  BY <1>1, PSame
<1>3. ASSUME NEW w \in Workers PROVE InHand(w)' /\ HoldsItsOwn(w)'
  BY <1>1, PWorkerSame
<1>4. ASSUME NEW x \in Txs PROVE Accounted(x)'
  BY <1>1, <1>2 DEF PInv, Accounted, Held
<1>5. ShutDown'
  BY <1>1 DEF PInv, ShutDown, CallReturns
<1>6. QED
  BY <1>2, <1>3, <1>4, <1>5 DEF PInv

LEMMA PReceive ==
  ASSUME TInv, PInv, NEW w \in Workers, Receive(w)
  PROVE  PInv'
<1>1. /\ stage[w] = "receive" /\ queue[w] # <<>> /\ queue[w] \in Seq(Txs)
      /\ UNCHANGED <<entered, ruled, finished, sent, returned, closed, stopped>>
  BY DEF Receive, TInv, calls, history
<1>2. /\ cur'[w] = {Head(queue[w])} /\ queue'[w] = Tail(queue[w]) /\ stage'[w] = "rules"
      /\ \A v \in Workers \ {w} :
            cur'[v] = cur[v] /\ queue'[v] = queue[v] /\ stage'[v] = stage[v]
  BY DEF Receive, TInv
<1>3. /\ Head(queue[w]) \in Txs /\ Range(queue[w]) = Range(queue'[w]) \cup {Head(queue[w])}
  BY <1>1, <1>2, HeadAndTail
<1>4. cur[w] = {} /\ Distinct(queue[w])
  BY <1>1 DEF PInv, InHand, HoldsItsOwn
<1>5. Distinct(queue'[w]) /\ Head(queue[w]) \notin Range(queue'[w])
  BY <1>1, <1>2, <1>4, DistinctTail
<1>6. \A v \in Workers : Held(v)' = Held(v)
  <2>1. Held(w)' = Held(w)
    BY <1>2, <1>3, <1>4 DEF Held
  <2>2. ASSUME NEW v \in Workers \ {w} PROVE Held(v)' = Held(v)
    BY <1>2 DEF Held
  <2>3. QED
    BY <2>1, <2>2
<1>7. /\ \A x : IsTaken(x)' <=> IsTaken(x)
      /\ \A d \in Callers : HandedOver(d)'
      /\ \A k \in Cards : OwnCard(k)'
  BY <1>1, PSame
<1>8. ASSUME NEW v \in Workers PROVE InHand(v)' /\ HoldsItsOwn(v)'
  <2>1. CASE v = w
    <3>1. InHand(w)'
      BY <1>2, <1>3 DEF InHand
    <3>2. \A x \in Held(w)' : Home(x) = w /\ IsTaken(x)' /\ x \notin finished'
      BY <1>1, <1>4, <1>6, <1>7 DEF PInv, HoldsItsOwn
    <3>3. cur'[w] \cap Range(queue'[w]) = {}
      BY <1>2, <1>5
    <3>4. Distinct(queue[w])'
      BY <1>5 DEF Distinct
    <3>5. QED
      BY <1>2, <2>1, <3>1, <3>2, <3>3, <3>4 DEF HoldsItsOwn
  <2>2. CASE v # w
    BY <1>1, <1>2, <2>2, PWorkerSame
  <2>3. QED
    BY <2>1, <2>2
<1>9. ASSUME NEW x \in Txs PROVE Accounted(x)'
  <2>1. Home(x) \in Workers
    BY ConstantsAssumption DEF Home
  <2>2. Held(Home(x))' = Held(Home(x))
    BY <1>6, <2>1 DEF Home
  <2>3. QED
    BY <1>1, <1>7, <2>2 DEF PInv, Accounted
<1>10. ShutDown'
  BY <1>1, <1>2 DEF PInv, ShutDown
<1>11. QED
  BY <1>7, <1>8, <1>9, <1>10 DEF PInv

(* The worker moves on with what it has in hand. *)
LEMMA PMoves ==
  ASSUME TInv, PInv, NEW w \in Workers,
         ApplyRules(w) \/ FlaggedHook(w) \/ Done(w) \/ WorkerExits(w)
  PROVE  PInv'
<1>1. /\ UNCHANGED <<queue, entered, sent, returned, closed, stopped>>
      /\ \A v \in Workers \ {w} : cur'[v] = cur[v] /\ stage'[v] = stage[v]
  BY DEF ApplyRules, FlaggedHook, Done, WorkerExits, TInv, calls, history
<1>2. /\ \A x : IsTaken(x)' <=> IsTaken(x)
      /\ \A d \in Callers : HandedOver(d)'
      /\ \A k \in Cards : OwnCard(k)'
  BY <1>1, PSame
<1>3. InHand(w) /\ HoldsItsOwn(w)
  BY DEF PInv
<1>4. ASSUME NEW v \in Workers \ {w}, NEW t \in cur[w] PROVE t \notin Held(v)
  <2>1. Home(t) = w
    BY <1>3 DEF HoldsItsOwn, Held
  <2>2. QED
    BY <2>1 DEF PInv, HoldsItsOwn
<1>5. ASSUME /\ finished' \subseteq finished \cup cur[w] /\ finished \subseteq finished'
             /\ InHand(w)' /\ HoldsItsOwn(w)'
             /\ cur[w] \subseteq cur'[w] \cup finished'
             /\ stage'[w] = "exited" => closed /\ queue[w] = <<>>
             /\ stage[w] = "exited" => stage'[w] = "exited"
      PROVE  PInv'
  <2>1. ASSUME NEW v \in Workers PROVE InHand(v)' /\ HoldsItsOwn(v)'
    <3>1. CASE v = w
      BY <1>5, <3>1
    <3>2. CASE v # w
      <4>1. \A t \in Held(v) : t \in finished' <=> t \in finished
        BY <1>4, <1>5, <3>2
      <4>2. QED
        BY <1>1, <3>2, <4>1, PWorkerSame
    <3>3. QED
      BY <3>1, <3>2
  <2>2. ASSUME NEW x \in Txs PROVE Accounted(x)'
    <3>1. Home(x)' = Home(x) /\ Home(x) \in Workers
      BY ConstantsAssumption DEF Home
    <3>2. x \in finished' => IsTaken(x)
      BY <1>3, <1>5 DEF PInv, Accounted, HoldsItsOwn, Held
    <3>3. ASSUME NEW v \in Workers, x \in Held(v), x \notin finished' PROVE x \in Held(v)'
      <4>1. CASE v = w
        BY <1>1, <1>5, <3>3, <4>1 DEF Held
      <4>2. CASE v # w
        BY <1>1, <3>3, <4>2 DEF Held
      <4>3. QED
        BY <4>1, <4>2
    <3>4. IsTaken(x) => x \in finished \cup Held(Home(x))
      BY DEF PInv, Accounted
    <3>5. QED
      BY <1>2, <1>5, <3>1, <3>2, <3>3, <3>4 DEF Accounted
  <2>3. ShutDown'
    <3>1. \A v \in Workers : stage[v] = "exited" => stage'[v] = "exited"
      BY <1>1, <1>5
    <3>2. QED
      BY <1>1, <1>5, <3>1 DEF PInv, ShutDown
  <2>4. QED
    BY <1>2, <2>1, <2>2, <2>3 DEF PInv
<1>6. CASE ApplyRules(w)
  <2>1. /\ stage[w] = "rules" /\ stage'[w] = "hook" /\ cur'[w] = cur[w] /\ finished' = finished
    BY <1>6 DEF ApplyRules, TInv
  <2>2. InHand(w)' /\ HoldsItsOwn(w)'
    BY <1>1, <1>2, <1>3, <2>1 DEF InHand, HoldsItsOwn, Held, Distinct
  <2>3. QED
    BY <1>5, <2>1, <2>2
<1>7. CASE FlaggedHook(w)
  <2>1. /\ stage[w] = "hook" /\ stage'[w] = "done" /\ cur'[w] = cur[w]
        /\ finished' = finished \cup cur[w]
    BY <1>7 DEF FlaggedHook, TInv
  <2>2. InHand(w)'
    BY <1>3, <2>1 DEF InHand
  <2>3. HoldsItsOwn(w)'
    BY <1>1, <1>2, <1>3, <2>1 DEF HoldsItsOwn, Held, Distinct
  <2>4. QED
    BY <1>5, <2>1, <2>2, <2>3
<1>8. CASE Done(w)
  <2>1. /\ stage[w] = "done" /\ stage'[w] = "receive" /\ cur'[w] = {} /\ finished' = finished
    BY <1>8 DEF Done, TInv, history
  <2>2. InHand(w)' /\ cur[w] \subseteq finished
    BY <1>3, <2>1 DEF InHand, HoldsItsOwn, Held
  <2>3. HoldsItsOwn(w)'
    BY <1>1, <1>2, <1>3, <2>1 DEF HoldsItsOwn, Held, Distinct
  <2>4. QED
    BY <1>5, <2>1, <2>2, <2>3
<1>9. CASE WorkerExits(w)
  <2>1. /\ stage[w] = "receive" /\ stage'[w] = "exited" /\ cur'[w] = cur[w] /\ finished' = finished
        /\ closed /\ queue[w] = <<>>
    BY <1>9 DEF WorkerExits, TInv, history
  <2>2. InHand(w)' /\ HoldsItsOwn(w)'
    BY <1>1, <1>2, <1>3, <2>1 DEF InHand, HoldsItsOwn, Held, Distinct
  <2>3. QED
    BY <1>5, <2>1, <2>2
<1>10. QED
  BY <1>6, <1>7, <1>8, <1>9

LEMMA PStep == TInv /\ PInv /\ [Next]_vars => PInv'
<1> SUFFICES ASSUME TInv, PInv, [Next]_vars PROVE PInv'
  OBVIOUS
<1>1. ASSUME NEW w \in Workers, Step(w) PROVE PInv'
  BY <1>1, PReceive, PMoves DEF Step
<1>2. ASSUME UNCHANGED <<queue, cur, stage, entered, finished, sent, returned>>, ShutDown'
      PROVE  PInv'
  <2>1. ASSUME NEW w \in Workers PROVE InHand(w)' /\ HoldsItsOwn(w)'
    BY <1>2, PWorkerSame
  <2>2. ASSUME NEW x \in Txs PROVE Accounted(x)'
    BY <1>2, PSame DEF PInv, Accounted, Held
  <2>3. QED
    BY <1>2, <2>1, <2>2, PSame DEF PInv
<1>3. CASE Stop
  <2>1. ShutDown'
    BY <1>3 DEF Stop, PInv, ShutDown, pool, calls, history
  <2>2. QED
    BY <1>2, <1>3, <2>1 DEF Stop, pool, calls, history
<1>4. CASE StopReturns
  <2>1. ShutDown'
    BY <1>4 DEF StopReturns, PInv, ShutDown, pool, calls, history
  <2>2. QED
    BY <1>2, <1>4, <2>1 DEF StopReturns, pool, calls, history
<1>5. CASE UNCHANGED vars
  <2>1. ShutDown'
    BY <1>5 DEF vars, PInv, ShutDown, pool, calls, history
  <2>2. QED
    BY <1>2, <1>5, <2>1 DEF vars, pool, calls, history
<1>6. QED
  BY <1>1, <1>3, <1>4, <1>5, Effects, PEnters, PReturns

(* Stop loses nothing: the pool is empty when it returns.                  *)
THEOREM StopLosesNothing == Spec => []StopDrains
<1>1. TInv /\ PInv => StopDrains
  <2> SUFFICES ASSUME TInv, PInv, stopped PROVE Taken = finished
    BY DEF StopDrains
  <2>1. \A w \in Workers : Held(w) = {}
    <3>1. Range(<<>>) = {}
      BY EmptySeq, LenProperties DEF Range
    <3>2. QED
      BY <3>1 DEF PInv, ShutDown, InHand, Held
  <2>2. \A t \in Txs : Home(t) \in Workers
    BY ConstantsAssumption DEF Home
  <2>3. \A t \in Txs : t \in Taken <=> t \in finished
    BY <2>1, <2>2, TakenIsDomain DEF PInv, Accounted
  <2>4. Taken \subseteq Txs
    <3>1. \A k \in Cards : Range(entered[k]) \subseteq Txs
      BY RangeOfSeq DEF TInv
    <3>2. QED
      BY <3>1 DEF Taken
  <2>5. QED
    BY <2>3, <2>4 DEF TInv
<1>2. QED
  BY <1>1, TInit, TStep, PInit, PStep, PTL DEF Spec

----------------------------------------------------------------------------
(* What a post has handed over. *)

NothingInvalid == \A c \in Posters : sent[c] # 0 => Valid(c)

LEMMA NStep == TInv /\ NothingInvalid /\ [Next]_vars => NothingInvalid'
<1> SUFFICES ASSUME TInv, NothingInvalid, [Next]_vars PROVE NothingInvalid'
  OBVIOUS
<1>1. ASSUME NEW c \in Callers, Enters(c), c \in Posters => Valid(c) PROVE NothingInvalid'
  <2>1. sent' = [sent EXCEPT ![c] = sent[c] + 1]
    BY <1>1, Entering
  <2>2. \A d \in Posters : d \in Callers /\ (Valid(d)' <=> Valid(d))
    BY DEF Callers, Valid
  <2>3. \A d \in Posters : d # c => sent'[d] = sent[d]
    BY <2>1, <2>2 DEF TInv
  <2>4. QED
    BY <1>1, <2>2, <2>3 DEF NothingInvalid
<1>2. ASSUME UNCHANGED sent PROVE NothingInvalid'
  BY <1>2 DEF NothingInvalid, Valid
<1>3. ASSUME NEW c \in Callers, CallReturns(c) PROVE NothingInvalid'
  BY <1>2, <1>3 DEF CallReturns
<1>4. ASSUME NEW w \in Workers, Step(w) PROVE NothingInvalid'
  BY <1>2, <1>4 DEF Step, Receive, ApplyRules, FlaggedHook, Done, WorkerExits, calls
<1>5. CASE Stop \/ StopReturns \/ UNCHANGED vars
  BY <1>2, <1>5 DEF Stop, StopReturns, vars, calls
<1>6. QED
  BY <1>1, <1>3, <1>4, <1>5, Effects

(* A client that resends from the count it was told resends exactly what   *)
(* was not taken, and a refused batch left nothing behind.                 *)
THEOREM PostsTakeAPrefix == Spec => []TakenIsAPrefix
<1>1. Init => NothingInvalid
  BY DEF Init, NothingInvalid, Callers
<1>2. TInv /\ PInv /\ NothingInvalid => TakenIsAPrefix
  <2> SUFFICES ASSUME TInv, PInv, NothingInvalid, NEW c \in Posters
               PROVE  /\ \A i \in DOMAIN Work[c] : Work[c][i] \in Taken <=> i <= sent[c]
                      /\ Batch(c) \cap Invalid # {} => sent[c] = 0
    BY DEF TakenIsAPrefix
  <2>1. c \in Callers /\ Work[c] \in Seq(Txs)
    BY ConstantsAssumption DEF Callers
  <2>2. \A i \in DOMAIN Work[c] : Work[c][i] \in Txs
    BY <2>1, LenProperties, ElementOfSeq
  <2>3. \A i \in DOMAIN Work[c] : IsTaken(Work[c][i]) <=> i <= sent[c]
    BY <2>1 DEF PInv, HandedOver
  <2>4. QED
    BY <2>2, <2>3, TakenIsDomain DEF NothingInvalid, Valid
<1>3. QED
  BY <1>1, <1>2, NStep, TInit, TStep, PInit, PStep, PTL DEF Spec
----------------------------------------------------------------------------
(* The counter of shed transactions.                                       *)

(* What a call has not handed over, and the posts that got a count.        *)
rest == [c \in Callers |-> Len(Work[c]) - sent[c]]
Answered == {c \in Posters \cap returned : Batch(c) \cap Invalid = {}}

RestIsShed == IsFiniteSet(returned) /\ rejected = SumFunctionOnSet(rest, Answered)

LEMMA RestType ==
  ASSUME TInv, PInv
  PROVE  \A c \in Callers : rest[c] \in Nat
BY ConstantsAssumption, LenProperties DEF rest, TInv, PInv, HandedOver

(* Of calls that returned nothing more is sent.                            *)
LEMMA RestKept ==
  ASSUME TInv, PInv, RestIsShed, TInv', PInv', UNCHANGED <<returned, rejected>>,
         \A c \in Callers : c \in returned => sent'[c] = sent[c]
  PROVE  RestIsShed'
<1>1. Answered' = Answered /\ IsFiniteSet(Answered) /\ Answered \subseteq Callers \cap returned
  BY FS_Subset DEF Answered, RestIsShed, Callers
<1>2. \A c \in Answered : rest[c] \in Nat /\ rest'[c] = rest[c]
  BY <1>1, RestType DEF rest
<1>3. SumFunctionOnSet(rest', Answered) = SumFunctionOnSet(rest, Answered)
  BY <1>1, <1>2, SumSame
<1>4. QED
  BY <1>1, <1>3 DEF RestIsShed

LEMMA RestStep ==
  ASSUME TInv, PInv, RestIsShed, TInv', PInv', [Next]_vars
  PROVE  RestIsShed'
<1>1. ASSUME NEW c \in Callers, Submit(c) \/ TrySubmit(c) PROVE RestIsShed'
  <2>1. Enters(c)
    BY <1>1, ConstantsAssumption DEF Submit, TrySubmit, Enters
  <2>2. sent' = [sent EXCEPT ![c] = sent[c] + 1] /\ c \notin returned
    BY <2>1, Entering DEF Enters, Calling
  <2>3. QED
    BY <2>1, <2>2, RestKept DEF TInv, Enters
<1>2. ASSUME NEW c \in Callers, CallReturns(c), rejected' \in Nat,
             \/ c \notin Posters /\ rejected' = rejected
             \/ c \in Posters /\ Batch(c) \cap Invalid # {} /\ rejected' = rejected
             \/ c \in Posters /\ Batch(c) \cap Invalid = {} /\ rejected' = rejected + rest[c]
      PROVE  RestIsShed'
  <2>1. /\ returned' = returned \cup {c} /\ c \notin returned /\ rest' = rest
        /\ IsFiniteSet(returned') /\ IsFiniteSet(Answered)
    BY <1>2, FS_AddElement, FS_Subset DEF CallReturns, rest, RestIsShed, Answered
  <2>2. Answered \subseteq Callers
    BY DEF Answered, Callers
  <2>3. CASE rejected' = rejected /\ ~(c \in Posters /\ Batch(c) \cap Invalid = {})
    <3>1. Answered' = Answered
      BY <2>1, <2>3 DEF Answered
    <3>2. QED
      BY <2>1, <2>3, <3>1 DEF RestIsShed
  <2>4. CASE c \in Posters /\ Batch(c) \cap Invalid = {} /\ rejected' = rejected + rest[c]
    <3>1. Answered' = Answered \cup {c} /\ c \notin Answered
      BY <2>1, <2>4 DEF Answered
    <3>2. \A d \in Answered \cup {c} : rest[d] \in Nat
      BY <2>2, RestType
    <3>3. IsFiniteSet({c}) /\ Answered \cap {c} = {}
      BY <3>1, FS_Singleton
    <3>4. SumFunctionOnSet(rest, Answered \cup {c})
             = SumFunctionOnSet(rest, Answered) + SumFunctionOnSet(rest, {c})
      BY <2>1, <3>2, <3>3, SumUnion
    <3>5. SumFunctionOnSet(rest, {c}) = rest[c]
      BY <3>2, SumOfOne
    <3>6. QED
      BY <2>1, <2>4, <3>1, <3>4, <3>5 DEF RestIsShed
  <2>5. QED
    BY <1>2, <2>3, <2>4
<1>3. ASSUME NEW c \in Callers, SubmitReturns(c) \/ SubmitBatchReturns(c) PROVE RestIsShed'
  <2>1. CallReturns(c) /\ c \notin Posters /\ rejected' = rejected /\ rejected' \in Nat
    BY <1>3, ConstantsAssumption DEF SubmitReturns, SubmitBatchReturns, CallReturns, TInv
  <2>2. QED
    BY <1>2, <2>1
<1>4. ASSUME NEW c \in Callers, Shed(c) PROVE RestIsShed'
  <2>1. /\ CallReturns(c) /\ c \in Posters /\ Batch(c) \cap Invalid = {} /\ rejected' \in Nat
        /\ rejected' = rejected + Len(Work[c]) - sent[c]
    BY <1>4 DEF Shed, Calling, Valid, CallReturns, TInv
  <2>2. rest[c] = Len(Work[c]) - sent[c] /\ rest[c] \in Nat /\ Len(Work[c]) \in Nat /\ sent[c] \in Nat
    BY RestType, ConstantsAssumption, LenProperties DEF rest, TInv
  <2>3. rejected' = rejected + rest[c]
    BY <2>1, <2>2 DEF TInv
  <2>4. QED
    BY <1>2, <2>1, <2>3
<1>5. ASSUME NEW c \in Callers, IngestReturns(c) PROVE RestIsShed'
  <2>1. CallReturns(c) /\ c \in Posters /\ rejected' = rejected /\ rejected \in Nat
    BY <1>5 DEF IngestReturns, CallReturns, TInv
  <2>2. CASE Batch(c) \cap Invalid # {}
    BY <1>2, <2>1, <2>2
  <2>3. CASE Batch(c) \cap Invalid = {}
    <3>1. sent[c] >= Len(Work[c]) /\ sent[c] <= Len(Work[c])
      <4>1. Len(Work[c]) \in Nat /\ sent[c] \in Nat
        BY ConstantsAssumption, LenProperties DEF TInv
      <4>2. QED
        BY <1>5, <2>3, <4>1 DEF IngestReturns, Calling, Valid, PInv, HandedOver
    <3>2. rest[c] = 0
      BY <3>1, ConstantsAssumption, LenProperties DEF rest, TInv
    <3>3. QED
      BY <1>2, <2>1, <2>3, <3>2
  <2>4. QED
    BY <2>2, <2>3
<1>6. CASE (\E w \in Workers : Step(w)) \/ Stop \/ StopReturns \/ UNCHANGED vars
  <2>1. UNCHANGED <<sent, returned, rejected>>
    BY <1>6 DEF Step, Receive, ApplyRules, FlaggedHook, Done, WorkerExits, calls, Stop,
                StopReturns, vars
  <2>2. QED
    BY <2>1, RestKept
<1>7. QED
  BY <1>1, <1>3, <1>4, <1>5, <1>6 DEF Next, Call

(* What an ingest response says is what happened: the first sent[c] were   *)
(* taken, and the counter of shed transactions holds the rest of every     *)
(* valid post that returned, for any posts at the same time.               *)
THEOREM ShedIsCounted == Spec => []AcceptedIsAPrefix
<1>1. Init => RestIsShed
  <2> SUFFICES ASSUME Init PROVE RestIsShed
    OBVIOUS
  <2>1. Answered = {} /\ returned = {} /\ rejected = 0
    BY DEF Init, Answered
  <2>2. QED
    BY <2>1, SumEmpty, FS_EmptySet DEF RestIsShed
<1>2. RestIsShed => rejected = SumFunctionOnSet([c \in Callers |-> Len(Work[c]) - sent[c]],
                                   {c \in Posters \cap returned : Batch(c) \cap Invalid = {}})
  BY DEF RestIsShed, rest, Answered
<1>3. RestIsShed /\ TakenIsAPrefix => AcceptedIsAPrefix
  BY <1>2 DEF AcceptedIsAPrefix
<1>4. QED
  BY <1>1, <1>3, RestStep, TInit, TStep, PInit, PStep, PostsTakeAPrefix, PTL DEF Spec
----------------------------------------------------------------------------
(* The order of one card. *)

(* What worker w has yet to show to the rules, and in which order. *)
Pending(w) == Range(queue[w]) \cup (IF stage[w] = "rules" THEN cur[w] ELSE {})

Precedes(at, hand, waiting, a, b) ==
    \/ at = "rules" /\ a \in hand /\ b \in Range(waiting)
    \/ \E i, j \in DOMAIN waiting : i < j /\ waiting[i] = a /\ waiting[j] = b

Ahead(w, a, b) == Precedes(stage[w], cur[w], queue[w], a, b)

Passed(k) == Len(ruled[k])

(* The rules have seen the first of a card's transactions; the others wait *)
(* at its worker, in order.                                                *)
InOrder(k) ==
    /\ Passed(k) <= Len(entered[k]) /\ Distinct(entered[k])
    /\ \A i \in 1 .. Passed(k) : ruled[k][i] = entered[k][i]
    /\ \A i \in DOMAIN entered[k] : i > Passed(k) => entered[k][i] \in Pending(HashOf[k])
    /\ \A t \in Pending(HashOf[k]) :
          CardOf[t] = k => \E i \in DOMAIN entered[k] : i > Passed(k) /\ entered[k][i] = t
    /\ \A i, j \in DOMAIN entered[k] :
          Passed(k) < i /\ i < j => Ahead(HashOf[k], entered[k][i], entered[k][j])

OInv == \A k \in Cards : InOrder(k)

LEMMA OInit == Init => OInv
<1> SUFFICES ASSUME Init, NEW k \in Cards PROVE InOrder(k)
  BY DEF OInv
<1>1. DOMAIN <<>> = {} /\ Range(<<>>) = {} /\ Len(<<>>) = 0
  BY EmptySeq, LenProperties DEF Range
<1>2. HashOf[k] \in Workers
  BY ConstantsAssumption
<1>3. entered[k] = <<>> /\ ruled[k] = <<>> /\ Pending(HashOf[k]) = {}
  BY <1>1, <1>2 DEF Init, Pending
<1>4. QED
  BY <1>1, <1>3 DEF InOrder, Passed, Distinct

LEMMA OEnters ==
  ASSUME TInv, PInv, OInv, NEW c \in Callers, Enters(c)
  PROVE  OInv'
<1>0. PICK t \in Txs : t = NextTx(c)
  BY Entering
<1>1. PICK k \in Cards, w \in Workers :
      /\ CardOf[t] = k /\ HashOf[k] = w
      /\ queue' = [queue EXCEPT ![w] = Append(queue[w], t)]
      /\ entered' = [entered EXCEPT ![k] = Append(entered[k], t)]
      /\ UNCHANGED <<cur, stage, ruled>>
  BY <1>0, Entering
<1>2. ~IsTaken(t)
  BY <1>0, EntersNew
<1>3. queue[w] \in Seq(Txs) /\ entered[k] \in Seq(Txs) /\ ruled[k] \in Seq(Txs)
  BY DEF TInv
<1>4. /\ queue'[w] = Append(queue[w], t) /\ \A v \in Workers \ {w} : queue'[v] = queue[v]
      /\ entered'[k] = Append(entered[k], t) /\ \A l \in Cards \ {k} : entered'[l] = entered[l]
  BY <1>1 DEF TInv
<1>5. /\ Range(queue'[w]) = Range(queue[w]) \cup {t}
      /\ Len(queue[w]) \in Nat /\ DOMAIN queue[w] = 1 .. Len(queue[w])
      /\ DOMAIN queue'[w] = 1 .. Len(queue[w]) + 1
      /\ \A i \in DOMAIN queue[w] : queue'[w][i] = queue[w][i]
      /\ queue'[w][Len(queue[w]) + 1] = t
  BY <1>3, <1>4, Appended
<1>6. Pending(w)' = Pending(w) \cup {t} /\ \A v \in Workers \ {w} : Pending(v)' = Pending(v)
  BY <1>1, <1>4, <1>5 DEF Pending
<1>7. \A v \in Workers : \A a, b :
         Ahead(v, a, b) => Precedes(stage'[v], cur'[v], queue'[v], a, b)
  <2>1. ASSUME NEW a, NEW b, Ahead(w, a, b)
        PROVE  Precedes(stage'[w], cur'[w], queue'[w], a, b)
    <3>1. DOMAIN queue[w] \subseteq DOMAIN queue'[w]
      BY <1>5
    <3>2. CASE stage[w] = "rules" /\ a \in cur[w] /\ b \in Range(queue[w])
      BY <1>1, <1>5, <3>2 DEF Precedes
    <3>3. CASE \E i, j \in DOMAIN queue[w] : i < j /\ queue[w][i] = a /\ queue[w][j] = b
      BY <1>5, <3>1, <3>3 DEF Precedes
    <3>4. QED
      BY <2>1, <3>2, <3>3 DEF Ahead, Precedes
  <2>2. QED
    BY <1>1, <1>4, <2>1 DEF Ahead
<1>8. \A a \in Pending(w) : Precedes(stage'[w], cur'[w], queue'[w], a, t)
  <2>1. ASSUME NEW a \in Range(queue[w]) PROVE Precedes(stage'[w], cur'[w], queue'[w], a, t)
    <3>1. PICK i \in DOMAIN queue[w] : queue[w][i] = a
      BY DEF Range
    <3>2. /\ i \in DOMAIN queue'[w] /\ Len(queue[w]) + 1 \in DOMAIN queue'[w]
          /\ i < Len(queue[w]) + 1
      BY <1>5
    <3>3. QED
      BY <1>5, <3>1, <3>2 DEF Precedes
  <2>2. ASSUME stage[w] = "rules", NEW a \in cur[w] PROVE Precedes(stage'[w], cur'[w], queue'[w], a, t)
    BY <1>1, <1>5, <2>2 DEF Precedes
  <2>3. QED
    BY <2>1, <2>2 DEF Pending
<1>9. InOrder(k)'
  <2>1. /\ Len(entered[k]) \in Nat /\ DOMAIN entered[k] = 1 .. Len(entered[k])
        /\ DOMAIN entered'[k] = 1 .. Len(entered[k]) + 1 /\ Len(entered'[k]) = Len(entered[k]) + 1
        /\ \A i \in DOMAIN entered[k] : entered'[k][i] = entered[k][i]
        /\ entered'[k][Len(entered[k]) + 1] = t
    BY <1>3, <1>4, Appended
  <2>2. Len(ruled[k]) \in Nat /\ ruled'[k] = ruled[k] /\ Passed(k)' = Passed(k) /\ Passed(k) \in Nat
    BY <1>1, <1>3, LenProperties DEF Passed
  <2>3. InOrder(k)
    BY DEF OInv
  <2>4. t \notin Range(entered[k])
    BY <1>1, <1>2 DEF IsTaken, Range
  <2>5. Distinct(entered[k])'
    <3>1. Distinct(Append(entered[k], t))
      BY <1>3, <2>3, <2>4, DistinctAppend DEF InOrder
    <3>2. QED
      BY <1>4, <3>1 DEF Distinct
  <2>6. \A i \in DOMAIN entered'[k] : i \in DOMAIN entered[k] \/ i = Len(entered[k]) + 1
    BY <2>1
  <2>7. Passed(k) <= Len(entered'[k]) /\ \A i \in 1 .. Passed(k) : ruled'[k][i] = entered'[k][i]
    BY <2>1, <2>2, <2>3 DEF InOrder
  <2>8. ASSUME NEW i \in DOMAIN entered'[k], i > Passed(k) PROVE entered'[k][i] \in Pending(w)'
    BY <1>1, <1>6, <2>1, <2>3, <2>6, <2>8 DEF InOrder
  <2>9. ASSUME NEW x \in Pending(w)', CardOf[x] = k
        PROVE  \E i \in DOMAIN entered'[k] : i > Passed(k) /\ entered'[k][i] = x
    <3>1. CASE x = t
      BY <2>1, <2>2, <2>3, <3>1 DEF InOrder
    <3>2. CASE x # t
      <4>1. PICK i \in DOMAIN entered[k] : i > Passed(k) /\ entered[k][i] = x
        BY <1>1, <1>6, <2>3, <2>9, <3>2 DEF InOrder
      <4>2. i \in DOMAIN entered'[k]
        BY <2>1
      <4>3. QED
        BY <2>1, <4>1, <4>2
    <3>3. QED
      BY <3>1, <3>2
  <2>10. ASSUME NEW i \in DOMAIN entered'[k], NEW j \in DOMAIN entered'[k], Passed(k) < i, i < j
         PROVE  Precedes(stage'[w], cur'[w], queue'[w], entered'[k][i], entered'[k][j])
    <3>1. i \in DOMAIN entered[k]
      BY <2>1, <2>6, <2>10
    <3>2. CASE j \in DOMAIN entered[k]
      <4>1. Ahead(w, entered[k][i], entered[k][j])
        BY <1>1, <2>3, <2>10, <3>1, <3>2 DEF InOrder
      <4>2. QED
        BY <1>7, <2>1, <3>1, <3>2, <4>1
    <3>3. CASE j = Len(entered[k]) + 1
      <4>1. entered[k][i] \in Pending(w)
        BY <1>1, <2>3, <2>10, <3>1 DEF InOrder
      <4>2. QED
        BY <1>8, <2>1, <3>1, <3>3, <4>1
    <3>4. QED
      BY <2>6, <3>2, <3>3
  <2>11. QED
    BY <1>1, <2>2, <2>5, <2>7, <2>8, <2>9, <2>10 DEF InOrder, Ahead
<1>10. ASSUME NEW l \in Cards, l # k PROVE InOrder(l)'
  <2>1. entered'[l] = entered[l] /\ ruled'[l] = ruled[l] /\ Passed(l)' = Passed(l) /\ InOrder(l)
    BY <1>1, <1>4, <1>10 DEF Passed, OInv
  <2>2. HashOf[l] \in Workers
    BY ConstantsAssumption
  <2>3. /\ Pending(HashOf[l]) \subseteq Pending(HashOf[l])'
        /\ Pending(HashOf[l])' \subseteq Pending(HashOf[l]) \cup {t}
    BY <1>6, <2>2
  <2>4. \A i, j \in DOMAIN entered[l] : Passed(l) < i /\ i < j =>
           Precedes(stage'[HashOf[l]], cur'[HashOf[l]], queue'[HashOf[l]], entered[l][i], entered[l][j])
    BY <1>7, <2>1, <2>2 DEF InOrder
  <2>5. \A x \in Pending(HashOf[l])' : CardOf[x] = l => x \in Pending(HashOf[l])
    BY <1>1, <1>10, <2>3
  <2>6. /\ Passed(l) <= Len(entered[l])
        /\ \A i, j \in DOMAIN entered[l] : entered[l][i] = entered[l][j] => i = j
        /\ \A i \in 1 .. Passed(l) : ruled[l][i] = entered[l][i]
        /\ \A i \in DOMAIN entered[l] : i > Passed(l) => entered[l][i] \in Pending(HashOf[l])'
        /\ \A x \in Pending(HashOf[l])' :
              CardOf[x] = l => \E i \in DOMAIN entered[l] : i > Passed(l) /\ entered[l][i] = x
    BY <2>1, <2>3, <2>5 DEF InOrder, Distinct
  <2>7. QED
    BY <2>1, <2>4, <2>6 DEF InOrder, Distinct, Ahead
<1>11. QED
  BY <1>9, <1>10 DEF OInv

(* A step that neither queues nor shows a transaction of the card. *)
LEMMA OKeeps ==
  ASSUME NEW l \in Cards, InOrder(l), OwnCard(l),
         entered'[l] = entered[l], ruled'[l] = ruled[l],
         \A x : CardOf[x] = l => (x \in Pending(HashOf[l])' <=> x \in Pending(HashOf[l])),
         \A a, b : CardOf[a] = l /\ Ahead(HashOf[l], a, b) =>
            Precedes(stage'[HashOf[l]], cur'[HashOf[l]], queue'[HashOf[l]], a, b)
  PROVE  InOrder(l)'
<1>1. \A i \in DOMAIN entered[l] : CardOf[entered[l][i]] = l
  BY DEF OwnCard
<1>2. \A i, j \in DOMAIN entered[l] : Passed(l) < i /\ i < j =>
         Precedes(stage'[HashOf[l]], cur'[HashOf[l]], queue'[HashOf[l]], entered[l][i], entered[l][j])
  BY <1>1 DEF InOrder
<1>3. Passed(l)' = Passed(l)
  BY DEF Passed
<1>4. /\ Passed(l) <= Len(entered[l])
      /\ \A i, j \in DOMAIN entered[l] : entered[l][i] = entered[l][j] => i = j
      /\ \A i \in 1 .. Passed(l) : ruled[l][i] = entered[l][i]
      /\ \A i \in DOMAIN entered[l] : i > Passed(l) => entered[l][i] \in Pending(HashOf[l])'
      /\ \A x \in Pending(HashOf[l])' :
            CardOf[x] = l => \E i \in DOMAIN entered[l] : i > Passed(l) /\ entered[l][i] = x
  BY <1>1 DEF InOrder, Distinct
<1>5. QED
  BY <1>2, <1>3, <1>4 DEF InOrder, Distinct, Ahead

LEMMA OReceive ==
  ASSUME TInv, PInv, OInv, NEW w \in Workers, Receive(w)
  PROVE  OInv'
<1>1. /\ stage[w] = "receive" /\ queue[w] # <<>> /\ queue[w] \in Seq(Txs)
      /\ UNCHANGED <<entered, ruled>>
  BY DEF Receive, TInv, history
<1>2. /\ cur'[w] = {Head(queue[w])} /\ queue'[w] = Tail(queue[w]) /\ stage'[w] = "rules"
      /\ \A v \in Workers \ {w} :
            cur'[v] = cur[v] /\ queue'[v] = queue[v] /\ stage'[v] = stage[v]
  BY DEF Receive, TInv
<1>3. /\ Range(queue[w]) = Range(queue'[w]) \cup {Head(queue[w])}
      /\ Len(queue[w]) \in Nat \ {0} /\ Head(queue[w]) = queue[w][1]
      /\ DOMAIN queue[w] = 1 .. Len(queue[w]) /\ DOMAIN queue'[w] = 1 .. Len(queue[w]) - 1
      /\ \A i \in DOMAIN queue'[w] : queue'[w][i] = queue[w][i + 1]
  BY <1>1, <1>2, HeadAndTail
<1>4. \A v \in Workers : Pending(v)' = Pending(v)
  <2>1. Pending(w)' = Pending(w)
    BY <1>1, <1>2, <1>3 DEF Pending
  <2>2. ASSUME NEW v \in Workers \ {w} PROVE Pending(v)' = Pending(v)
    BY <1>2 DEF Pending
  <2>3. QED
    BY <2>1, <2>2
<1>5. ASSUME NEW a, NEW b, Ahead(w, a, b) PROVE Precedes(stage'[w], cur'[w], queue'[w], a, b)
  <2>1. PICK i \in DOMAIN queue[w], j \in DOMAIN queue[w] : i < j /\ queue[w][i] = a /\ queue[w][j] = b
    BY <1>1, <1>5 DEF Ahead, Precedes
  <2>2. j - 1 \in DOMAIN queue'[w] /\ (j - 1) + 1 = j
    BY <1>3, <2>1
  <2>3. queue'[w][j - 1] = b
    BY <1>3, <2>1, <2>2
  <2>4. CASE i = 1
    <3>1. a \in cur'[w] /\ b \in Range(queue'[w])
      BY <1>2, <1>3, <2>1, <2>2, <2>3, <2>4 DEF Range
    <3>2. QED
      BY <1>2, <3>1 DEF Precedes
  <2>5. CASE i # 1
    <3>1. i - 1 \in DOMAIN queue'[w] /\ (i - 1) + 1 = i /\ i - 1 < j - 1
      BY <1>3, <2>1, <2>5
    <3>2. queue'[w][i - 1] = a
      BY <1>3, <2>1, <3>1
    <3>3. QED
      BY <2>2, <2>3, <3>1, <3>2 DEF Precedes
  <2>6. QED
    BY <2>4, <2>5
<1>6. ASSUME NEW l \in Cards PROVE InOrder(l)'
  <2>1. HashOf[l] \in Workers /\ InOrder(l) /\ OwnCard(l)
    BY ConstantsAssumption DEF OInv, PInv
  <2>2. \A a, b : Ahead(HashOf[l], a, b) =>
           Precedes(stage'[HashOf[l]], cur'[HashOf[l]], queue'[HashOf[l]], a, b)
    BY <1>2, <1>5, <2>1 DEF Ahead
  <2>3. Pending(HashOf[l])' = Pending(HashOf[l])
    <3>1. HashOf[l]' = HashOf[l]
      OBVIOUS
    <3>2. QED
      BY <1>4, <2>1
  <2>4. entered'[l] = entered[l] /\ ruled'[l] = ruled[l]
    BY <1>1
  <2>5. QED
    BY <2>1, <2>2, <2>3, <2>4, OKeeps
<1>7. QED
  BY <1>6 DEF OInv

(* The rules see a transaction: it is the next one of its card. *)
LEMMA ORules ==
  ASSUME TInv, PInv, OInv, NEW w \in Workers, ApplyRules(w)
  PROVE  OInv'
<1>1. stage[w] = "rules" /\ InHand(w) /\ HoldsItsOwn(w)
  BY DEF ApplyRules, PInv
<1>2. PICK t \in Txs : cur[w] = {t}
  BY <1>1 DEF InHand
<1>3. PICK k \in Cards : CardOf[t] = k
  BY ConstantsAssumption
<1>4. HashOf[k] = w
  BY <1>1, <1>2, <1>3 DEF HoldsItsOwn, Held, Home
<1>5. /\ UNCHANGED <<queue, cur, entered>>
      /\ stage'[w] = "hook" /\ \A v \in Workers \ {w} : stage'[v] = stage[v]
      /\ ruled'[k] = Append(ruled[k], t) /\ \A l \in Cards \ {k} : ruled'[l] = ruled[l]
  BY <1>2, <1>3 DEF ApplyRules, TInv
<1>6. t \notin Range(queue[w])
  BY <1>1, <1>2 DEF HoldsItsOwn
<1>7. Pending(w) = Range(queue[w]) \cup {t} /\ Pending(w)' = Range(queue[w])
  BY <1>1, <1>2, <1>5 DEF Pending
<1>8. InOrder(k)'
  <2>1. InOrder(k) /\ entered[k] \in Seq(Txs) /\ ruled[k] \in Seq(Txs)
    BY DEF OInv, TInv
  <2>2. /\ Passed(k) \in Nat /\ DOMAIN entered[k] = 1 .. Len(entered[k]) /\ Len(entered[k]) \in Nat
        /\ DOMAIN ruled[k] = 1 .. Passed(k)
        /\ Len(ruled'[k]) = Passed(k) + 1 /\ ruled'[k][Passed(k) + 1] = t
        /\ \A i \in 1 .. Passed(k) : ruled'[k][i] = ruled[k][i]
    BY <1>5, <2>1, Appended, LenProperties DEF Passed
  <2>3. PICK n \in DOMAIN entered[k] : n > Passed(k) /\ entered[k][n] = t
    BY <1>3, <1>4, <1>7, <2>1 DEF InOrder
  <2>4. n = Passed(k) + 1
    <3>1. SUFFICES ASSUME n # Passed(k) + 1 PROVE FALSE
      OBVIOUS
    <3>2. Passed(k) + 1 \in DOMAIN entered[k] /\ Passed(k) < Passed(k) + 1 /\ Passed(k) + 1 < n
      BY <2>2, <2>3, <3>1
    <3>3. Ahead(w, entered[k][Passed(k) + 1], t)
      BY <1>4, <2>1, <2>3, <3>2 DEF InOrder
    <3>4. QED
      BY <1>6, <3>3 DEF Ahead, Precedes, Range
  <2>5. Passed(k)' = n
    BY <2>2, <2>4 DEF Passed
  <2>6. n <= Len(entered[k]) /\ \A i \in 1 .. n : ruled'[k][i] = entered[k][i]
    <3>1. \A i \in 1 .. n : i \in 1 .. Passed(k) \/ i = n
      BY <2>2, <2>4
    <3>2. \A i \in 1 .. Passed(k) : ruled'[k][i] = entered[k][i]
      BY <2>1, <2>2 DEF InOrder
    <3>3. ruled'[k][n] = entered[k][n]
      BY <2>2, <2>3, <2>4
    <3>4. n <= Len(entered[k])
      BY <2>2, <2>3
    <3>5. QED
      BY <3>1, <3>2, <3>3, <3>4
  <2>7. \A i \in DOMAIN entered[k] : i > n => entered[k][i] \in Pending(w)'
    <3>1. SUFFICES ASSUME NEW i \in DOMAIN entered[k], i > n PROVE entered[k][i] \in Range(queue[w])
      BY <1>7
    <3>2. entered[k][i] # t
      BY <2>1, <2>2, <2>3, <3>1 DEF InOrder, Distinct
    <3>3. i > Passed(k)
      BY <2>2, <2>4, <3>1
    <3>4. QED
      BY <1>4, <1>7, <2>1, <3>2, <3>3 DEF InOrder
  <2>8. \A x \in Pending(w)' :
           CardOf[x] = k => \E i \in DOMAIN entered[k] : i > n /\ entered[k][i] = x
    <3>1. SUFFICES ASSUME NEW x \in Range(queue[w]), CardOf[x] = k
                   PROVE  \E i \in DOMAIN entered[k] : i > n /\ entered[k][i] = x
      BY <1>7
    <3>2. PICK i \in DOMAIN entered[k] : i > Passed(k) /\ entered[k][i] = x
      BY <1>4, <1>7, <2>1, <3>1 DEF InOrder
    <3>3. i # n
      BY <1>6, <2>3, <3>1, <3>2
    <3>4. i > n
      BY <2>2, <2>4, <3>2, <3>3
    <3>5. QED
      BY <3>2, <3>4
  <2>9. \A i, j \in DOMAIN entered[k] : n < i /\ i < j =>
           Precedes(stage'[w], cur'[w], queue'[w], entered[k][i], entered[k][j])
    <3>1. SUFFICES ASSUME NEW i \in DOMAIN entered[k], NEW j \in DOMAIN entered[k], n < i, i < j
                   PROVE  Precedes(stage'[w], cur'[w], queue'[w], entered[k][i], entered[k][j])
      OBVIOUS
    <3>2. Ahead(w, entered[k][i], entered[k][j])
      BY <1>4, <2>1, <2>2, <2>4, <3>1 DEF InOrder
    <3>3. entered[k][i] \notin cur[w]
      BY <1>2, <2>1, <2>2, <2>3, <3>1 DEF InOrder, Distinct
    <3>4. QED
      BY <1>5, <3>2, <3>3 DEF Ahead, Precedes
  <2>10. Distinct(entered[k])'
    BY <1>5, <2>1 DEF InOrder, Distinct
  <2>11. QED
    BY <1>4, <1>5, <2>5, <2>6, <2>7, <2>8, <2>9, <2>10 DEF InOrder, Ahead
<1>9. ASSUME NEW l \in Cards, l # k PROVE InOrder(l)'
  <2>1. /\ HashOf[l] \in Workers /\ InOrder(l) /\ OwnCard(l)
        /\ entered'[l] = entered[l] /\ ruled'[l] = ruled[l]
    BY <1>5, <1>9, ConstantsAssumption DEF OInv, PInv
  <2>2. \A x : CardOf[x] = l => (x \in Pending(HashOf[l])' <=> x \in Pending(HashOf[l]))
    BY <1>2, <1>3, <1>5, <1>9, <2>1 DEF Pending
  <2>3. \A a, b : CardOf[a] = l /\ Ahead(HashOf[l], a, b) =>
           Precedes(stage'[HashOf[l]], cur'[HashOf[l]], queue'[HashOf[l]], a, b)
    BY <1>2, <1>3, <1>5, <1>9, <2>1 DEF Ahead, Precedes
  <2>4. QED
    BY <2>1, <2>2, <2>3, OKeeps
<1>10. QED
  BY <1>8, <1>9 DEF OInv

LEMMA OStep == TInv /\ PInv /\ OInv /\ [Next]_vars => OInv'
<1> SUFFICES ASSUME TInv, PInv, OInv, [Next]_vars PROVE OInv'
  OBVIOUS
<1>1. ASSUME /\ UNCHANGED <<queue, entered, ruled>>
             /\ \A v \in Workers : stage'[v] = "rules" <=> stage[v] = "rules"
             /\ \A v \in Workers : stage[v] = "rules" => cur'[v] = cur[v]
      PROVE  OInv'
  <2>1. SUFFICES ASSUME NEW l \in Cards PROVE InOrder(l)'
    BY DEF OInv
  <2>2. HashOf[l] \in Workers /\ InOrder(l) /\ OwnCard(l)
    BY ConstantsAssumption DEF OInv, PInv
  <2>3. Pending(HashOf[l])' = Pending(HashOf[l])
    BY <1>1, <2>2 DEF Pending
  <2>4. \A a, b : Ahead(HashOf[l], a, b) =>
           Precedes(stage'[HashOf[l]], cur'[HashOf[l]], queue'[HashOf[l]], a, b)
    BY <1>1, <2>2 DEF Ahead, Precedes
  <2>5. QED
    BY <1>1, <2>2, <2>3, <2>4, OKeeps
<1>2. ASSUME NEW c \in Callers, CallReturns(c) PROVE OInv'
  BY <1>1, <1>2 DEF CallReturns, pool, history
<1>3. ASSUME NEW w \in Workers, FlaggedHook(w) \/ Done(w) \/ WorkerExits(w) PROVE OInv'
  <2>1. /\ UNCHANGED <<queue, entered, ruled>>
        /\ stage[w] # "rules" /\ stage'[w] # "rules"
        /\ \A v \in Workers \ {w} : stage'[v] = stage[v] /\ cur'[v] = cur[v]
    BY <1>3 DEF FlaggedHook, Done, WorkerExits, TInv, history
  <2>2. QED
    BY <1>1, <2>1
<1>4. CASE Stop \/ StopReturns \/ UNCHANGED vars
  BY <1>1, <1>4 DEF Stop, StopReturns, vars, pool, history
<1>5. QED
  BY <1>2, <1>3, <1>4, Effects, OEnters, OReceive, ORules DEF Step

(* One card's transactions pass the rules in the order they were queued,   *)
(* however many workers, queues and callers there are.                     *)
THEOREM CardsStayInOrder == Spec => []CardOrder
<1>1. TInv /\ OInv => CardOrder
  <2> SUFFICES ASSUME TInv, OInv, NEW k \in Cards PROVE IsPrefix(ruled[k], entered[k])
    BY DEF CardOrder
  <2>1. /\ InOrder(k) /\ entered[k] \in Seq(Txs) /\ ruled[k] \in Seq(Txs)
        /\ Len(ruled[k]) \in Nat /\ Len(entered[k]) \in Nat
    BY LenProperties DEF OInv, TInv
  <2>2. /\ Len(ruled[k]) <= Len(entered[k])
        /\ \A i \in 1 .. Len(ruled[k]) : ruled[k][i] = entered[k][i]
    BY <2>1 DEF InOrder, Passed
  <2>3. SubSeq(ruled[k], 1, Len(ruled[k])) = SubSeq(entered[k], 1, Len(ruled[k]))
    BY <2>1, <2>2
  <2>4. QED
    BY <2>2, <2>3 DEF IsPrefix
<1>2. QED
  BY <1>1, TInit, TStep, PInit, PStep, OInit, OStep, PTL DEF Spec

----------------------------------------------------------------------------
(* The WaitGroup. *)

(* What SubmitBatch still waits for. *)
Unsettled(c) == {t \in Batch(c) : ~IsTaken(t) \/ t \in Held(Home(t))}

WInv == \A c \in Batchers : IsFiniteSet(Unsettled(c)) /\ wg[c] = Cardinality(Unsettled(c))

LEMMA BatchSize ==
  ASSUME NEW c \in Callers
  PROVE  IsFiniteSet(Batch(c)) /\ Cardinality(Batch(c)) = Len(Work[c])
<1>1. /\ Work[c] \in Seq(Txs) /\ Len(Work[c]) \in Nat
      /\ DOMAIN Work[c] = 1 .. Len(Work[c]) /\ Work[c] \in [1 .. Len(Work[c]) -> Txs]
  BY ConstantsAssumption, LenProperties
<1>2. Work[c] \in [1 .. Len(Work[c]) -> Batch(c)]
  BY <1>1 DEF Batch, Range
<1>3. \A i, j \in 1 .. Len(Work[c]) : Work[c][i] = Work[c][j] => i = j
  BY <1>1, OneCallEach
<1>4. \A t \in Batch(c) : \E i \in 1 .. Len(Work[c]) : Work[c][i] = t
  BY <1>1 DEF Batch, Range
<1>5. Work[c] \in Bijection(1 .. Len(Work[c]), Batch(c))
  BY <1>1, <1>2, <1>3, <1>4 DEF Bijection, Injection, IsInjective, Surjection
<1>6. ExistsBijection(1 .. Len(Work[c]), Batch(c))
  BY <1>5 DEF ExistsBijection
<1>7. QED
  BY <1>1, <1>6, FS_CountingElements, FS_NatBijection

LEMMA WInit == Init => WInv
<1> SUFFICES ASSUME Init, NEW c \in Batchers
             PROVE  IsFiniteSet(Unsettled(c)) /\ wg[c] = Cardinality(Unsettled(c))
  BY DEF WInv
<1>1. c \in Callers
  BY DEF Callers
<1>2. Batch(c) \subseteq Txs
  BY <1>1, ConstantsAssumption, RangeOfSeq DEF Batch
<1>3. \A t \in Txs : entered[CardOf[t]] = <<>> /\ DOMAIN <<>> = {}
  BY ConstantsAssumption, EmptySeq, LenProperties DEF Init
<1>4. Unsettled(c) = Batch(c)
  BY <1>2, <1>3 DEF Unsettled, IsTaken
<1>5. QED
  BY <1>1, <1>4, BatchSize DEF Init

LEMMA WStep == TInv /\ PInv /\ WInv /\ [Next]_vars => WInv'
<1> SUFFICES ASSUME TInv, PInv, WInv, [Next]_vars PROVE WInv'
  OBVIOUS
<1>0. ASSUME NEW c \in Batchers PROVE \A t \in Batch(c) : t \in Txs /\ Home(t) \in Workers
  <2>1. Batch(c) \subseteq Txs
    BY ConstantsAssumption, RangeOfSeq DEF Batch, Callers
  <2>2. QED
    BY <2>1, ConstantsAssumption DEF Home
<1>1. ASSUME \A t \in Txs : IsTaken(t)' <=> IsTaken(t),
             \A w \in Workers : Held(w)' = Held(w), UNCHANGED wg
      PROVE  WInv'
  <2>1. ASSUME NEW c \in Batchers PROVE Unsettled(c)' = Unsettled(c)
    <3>1. \A t \in Batch(c) : Home(t)' = Home(t) /\ (IsTaken(t)' <=> IsTaken(t))
      BY <1>0, <1>1 DEF Home
    <3>2. \A t \in Batch(c) : Held(Home(t))' = Held(Home(t))
      BY <1>0, <1>1, <3>1 DEF Home
    <3>3. QED
      BY <3>1, <3>2 DEF Unsettled, Batch
  <2>2. wg' = wg
    BY <1>1
  <2>3. QED
    BY <2>1, <2>2 DEF WInv
<1>2. ASSUME NEW d \in Callers, Enters(d) PROVE WInv'
  <2>1. PICK t \in Txs : t = NextTx(d)
    BY <1>2, Entering
  <2>2. ~IsTaken(t) /\ \A x \in Txs : IsTaken(x)' <=> IsTaken(x) \/ x = t
    BY <1>2, <2>1, EntersNew
  <2>3. PICK w \in Workers :
        /\ Home(t) = w /\ queue' = [queue EXCEPT ![w] = Append(queue[w], t)]
        /\ UNCHANGED <<cur, wg>>
    BY <1>2, <2>1, Entering DEF Home
  <2>4. Range(queue'[w]) = Range(queue[w]) \cup {t}
    BY <2>3, Appended DEF TInv
  <2>5. Held(w)' = Held(w) \cup {t} /\ \A v \in Workers \ {w} : Held(v)' = Held(v)
    BY <2>3, <2>4 DEF Held, TInv
  <2>6. ASSUME NEW c \in Batchers PROVE Unsettled(c)' = Unsettled(c)
    <3>1. ASSUME NEW x \in Batch(c)
          PROVE  (~IsTaken(x)' \/ x \in Held(Home(x))') <=> (~IsTaken(x) \/ x \in Held(Home(x)))
      <4>1. x \in Txs /\ Home(x) \in Workers /\ Home(x)' = Home(x)
        BY <1>0 DEF Home
      <4>2. CASE x = t
        BY <2>2, <2>3, <2>5, <4>2 DEF Home
      <4>3. CASE x # t
        BY <2>2, <2>5, <4>1, <4>3 DEF Home
      <4>4. QED
        BY <4>2, <4>3
    <3>2. QED
      BY <3>1 DEF Unsettled, Batch
  <2>7. QED
    BY <2>3, <2>6 DEF WInv
<1>3. ASSUME NEW w \in Workers, Done(w) PROVE WInv'
  <2>1. /\ stage[w] = "done" /\ InHand(w) /\ HoldsItsOwn(w)
        /\ UNCHANGED <<queue, entered>>
        /\ cur'[w] = {} /\ \A v \in Workers \ {w} : cur'[v] = cur[v]
        /\ wg' = [c \in Batchers |-> IF cur[w] \subseteq Batch(c) THEN wg[c] - 1 ELSE wg[c]]
    BY <1>3 DEF Done, PInv, TInv, history
  <2>2. PICK t \in Txs : cur[w] = {t}
    BY <2>1 DEF InHand
  <2>3. Home(t) = w /\ IsTaken(t) /\ t \notin Range(queue[w])
    BY <2>1, <2>2 DEF HoldsItsOwn, Held
  <2>4. Held(w)' = Held(w) \ {t} /\ \A v \in Workers \ {w} : Held(v)' = Held(v)
    BY <2>1, <2>2, <2>3 DEF Held
  <2>5. ASSUME NEW c \in Batchers PROVE Unsettled(c)' = Unsettled(c) \ {t}
    <3>1. ASSUME NEW x \in Batch(c)
          PROVE  (~IsTaken(x)' \/ x \in Held(Home(x))') <=>
                    ((~IsTaken(x) \/ x \in Held(Home(x))) /\ x # t)
      <4>1. x \in Txs /\ Home(x) \in Workers /\ Home(x)' = Home(x) /\ (IsTaken(x)' <=> IsTaken(x))
        BY <1>0, <2>1 DEF Home, IsTaken
      <4>2. CASE x = t
        BY <2>3, <2>4, <4>1, <4>2 DEF Home
      <4>3. CASE x # t
        BY <2>4, <4>1, <4>3 DEF Home
      <4>4. QED
        BY <4>2, <4>3
    <3>2. QED
      BY <3>1 DEF Unsettled, Batch
  <2>6. ASSUME NEW c \in Batchers
        PROVE  IsFiniteSet(Unsettled(c)') /\ wg'[c] = Cardinality(Unsettled(c)')
    <3>1. /\ IsFiniteSet(Unsettled(c)) /\ wg[c] = Cardinality(Unsettled(c))
          /\ t \in Unsettled(c) <=> t \in Batch(c)
      BY <2>2, <2>3 DEF WInv, Unsettled, Held
    <3>2. wg'[c] = IF t \in Batch(c) THEN wg[c] - 1 ELSE wg[c]
      BY <2>1, <2>2
    <3>3. QED
      BY <2>5, <3>1, <3>2, FS_RemoveElement
  <2>7. QED
    BY <2>6 DEF WInv
<1>4. ASSUME UNCHANGED <<queue, cur, entered, wg>> PROVE WInv'
  BY <1>1, <1>4 DEF IsTaken, Held
<1>5. ASSUME NEW w \in Workers, Receive(w) PROVE WInv'
  <2>1. /\ stage[w] = "receive" /\ queue[w] # <<>> /\ queue[w] \in Seq(Txs)
        /\ UNCHANGED <<entered, wg>>
        /\ cur'[w] = {Head(queue[w])} /\ queue'[w] = Tail(queue[w])
        /\ \A v \in Workers \ {w} : cur'[v] = cur[v] /\ queue'[v] = queue[v]
    BY <1>5 DEF Receive, TInv, history
  <2>2. Range(queue[w]) = Range(queue'[w]) \cup {Head(queue[w])} /\ cur[w] = {}
    BY <2>1, HeadAndTail DEF PInv, InHand
  <2>3. Held(w)' = Held(w)
    BY <2>1, <2>2 DEF Held
  <2>4. \A v \in Workers : Held(v)' = Held(v)
    BY <2>1, <2>3 DEF Held
  <2>5. QED
    BY <1>1, <2>1, <2>4 DEF IsTaken
<1>6. ASSUME NEW w \in Workers, ApplyRules(w) \/ FlaggedHook(w) \/ WorkerExits(w) PROVE WInv'
  BY <1>4, <1>6 DEF ApplyRules, FlaggedHook, WorkerExits, history
<1>7. ASSUME NEW c \in Callers, CallReturns(c) PROVE WInv'
  BY <1>4, <1>7 DEF CallReturns, pool, history
<1>8. CASE Stop \/ StopReturns \/ UNCHANGED vars
  BY <1>4, <1>8 DEF Stop, StopReturns, vars, pool, history
<1>9. QED
  BY <1>2, <1>3, <1>5, <1>6, <1>7, <1>8, Effects DEF Step

(* The types hold, the WaitGroup's among them: it never goes negative,     *)
(* which would be a panic.                                                 *)
THEOREM TypeCorrect == Spec => []TypeOK
<1>1. TInv /\ WInv => TypeOK
  <2> SUFFICES ASSUME TInv, WInv PROVE wg \in [Batchers -> Nat]
    BY DEF TInv, TypeOK
  <2>1. \A c \in Batchers : wg[c] \in Nat
    BY FS_CardinalityType DEF WInv
  <2>2. QED
    BY <2>1 DEF TInv
<1>2. QED
  BY <1>1, TInit, TStep, PInit, PStep, WInit, WStep, PTL DEF Spec

----------------------------------------------------------------------------
(* The promise to the callers. *)

LEMMA TakenTypes ==
  ASSUME TInv
  PROVE  Taken \subseteq Txs
<1>1. \A k \in Cards : Range(entered[k]) \subseteq Txs
  BY RangeOfSeq DEF TInv
<1>2. QED
  BY <1>1 DEF Taken

(* A batch whose WaitGroup is at zero has been scored, hooks included.     *)
LEMMA ZeroMeansScored ==
  ASSUME TInv, PInv, WInv, NEW c \in Batchers, wg[c] = 0
  PROVE  Batch(c) \subseteq finished
<1>1. Unsettled(c) = {}
  BY FS_EmptySet DEF WInv
<1>2. Batch(c) \subseteq Txs
  BY ConstantsAssumption, RangeOfSeq DEF Batch, Callers
<1>3. \A t \in Batch(c) : IsTaken(t) /\ t \notin Held(Home(t))
  BY <1>1 DEF Unsettled
<1>4. QED
  BY <1>2, <1>3 DEF PInv, Accounted

(* The pool of queues and workers keeps the promise the Kafka consumer     *)
(* commits on: every transaction taken is scored once, and SubmitBatch     *)
(* returns only when all of its own have been.                             *)
THEOREM ImplementsBatchScoring == Spec => KeepsPromise
<1> DEFINE abstract == <<Taken, finished, returned \cap Batchers>>
           batches == [c \in Batchers |-> Batch(c)]
<1>1. Init => Promise!Init
  <2> SUFFICES ASSUME Init PROVE Promise!Init
    OBVIOUS
  <2>1. Taken = {}
    <3>1. DOMAIN <<>> = {}
      BY EmptySeq, LenProperties
    <3>2. \A k \in Cards : Range(entered[k]) = {}
      BY <3>1 DEF Init, Range
    <3>3. QED
      BY <3>2 DEF Taken
  <2>2. QED
    BY <2>1 DEF Init, Promise!Init
<1>2. TInv /\ PInv /\ WInv /\ TInv' /\ PInv' /\ [Next]_vars => [Promise!Next]_abstract
  <2> SUFFICES ASSUME TInv, PInv, WInv, TInv', PInv', [Next]_vars
               PROVE  Promise!Next \/ UNCHANGED abstract
    BY DEF abstract
  <2>1. ASSUME UNCHANGED <<entered, finished, returned>> PROVE UNCHANGED abstract
    BY <2>1 DEF Taken
  <2>2. ASSUME NEW c \in Callers, Enters(c) PROVE Promise!Next
    <3>1. PICK t \in Txs : t = NextTx(c)
      BY <2>2, Entering
    <3>2. PICK k \in Cards :
          /\ CardOf[t] = k /\ entered' = [entered EXCEPT ![k] = Append(entered[k], t)]
          /\ UNCHANGED <<finished, returned>>
      BY <2>2, <3>1, Entering
    <3>3. t \notin Taken
      BY <2>2, <3>1, EntersNew, TakenIsDomain
    <3>4. Taken' = Taken \cup {t}
      <4>1. Range(entered'[k]) = Range(entered[k]) \cup {t}
        BY <3>2, Appended DEF TInv
      <4>2. \A l \in Cards \ {k} : entered'[l] = entered[l]
        BY <3>2 DEF TInv
      <4>3. QED
        BY <4>1, <4>2 DEF Taken
    <3>5. Promise!Take(t)
      BY <3>2, <3>3, <3>4 DEF Promise!Take
    <3>6. QED
      BY <3>5 DEF Promise!Next
  <2>3. ASSUME NEW w \in Workers, FlaggedHook(w) PROVE Promise!Next
    <3>1. /\ stage[w] = "hook" /\ finished' = finished \cup cur[w]
          /\ UNCHANGED <<entered, returned>> /\ InHand(w) /\ HoldsItsOwn(w)
      BY <2>3 DEF FlaggedHook, PInv, calls
    <3>2. PICK t \in Txs : cur[w] = {t}
      BY <3>1 DEF InHand
    <3>3. t \in Taken \ finished
      BY <3>1, <3>2, TakenIsDomain DEF HoldsItsOwn, Held
    <3>4. Promise!ScoreOne(t)
      BY <3>1, <3>2, <3>3 DEF Promise!ScoreOne, Taken
    <3>5. QED
      BY <3>4 DEF Promise!Next
  <2>4. ASSUME NEW c \in Callers, Call(c), c \notin returned,
               returned' = returned \cup {c}, UNCHANGED <<entered, finished>>
        PROVE  Promise!Next \/ UNCHANGED abstract
    <3>1. CASE c \in Batchers
      <4>1. wg[c] = 0
        BY <2>4, <3>1, ConstantsAssumption
           DEF Call, Submit, SubmitReturns, SubmitBatchReturns, TrySubmit, Shed, IngestReturns
      <4>2. Batch(c) \subseteq finished
        BY <3>1, <4>1, ZeroMeansScored
      <4>3. Promise!Return(c)
        BY <2>4, <3>1, <4>2 DEF Promise!Return, Taken
      <4>4. QED
        BY <3>1, <4>3 DEF Promise!Next
    <3>2. CASE c \notin Batchers
      BY <2>4, <3>2 DEF Taken
    <3>3. QED
      BY <3>1, <3>2
  <2>5. ASSUME NEW c \in Callers, Call(c) PROVE Promise!Next \/ UNCHANGED abstract
    <3>1. CASE Submit(c) \/ TrySubmit(c)
      <4>1. Enters(c)
        BY <3>1, ConstantsAssumption DEF Submit, TrySubmit, Enters
      <4>2. QED
        BY <2>2, <4>1
    <3>2. CASE SubmitReturns(c) \/ SubmitBatchReturns(c) \/ Shed(c) \/ IngestReturns(c)
      <4>1. c \notin returned /\ returned' = returned \cup {c} /\ UNCHANGED <<entered, finished>>
        BY <3>2 DEF SubmitReturns, SubmitBatchReturns, Shed, IngestReturns, Calling, history
      <4>2. QED
        BY <2>4, <2>5, <4>1
    <3>3. QED
      BY <2>5, <3>1, <3>2 DEF Call
  <2>6. ASSUME NEW w \in Workers, Step(w) PROVE Promise!Next \/ UNCHANGED abstract
    <3>1. CASE FlaggedHook(w)
      BY <2>3, <3>1
    <3>2. CASE ~FlaggedHook(w)
      <4>1. UNCHANGED <<entered, finished, returned>>
        BY <2>6, <3>2 DEF Step, Receive, ApplyRules, Done, WorkerExits, calls, history
      <4>2. QED
        BY <2>1, <4>1
    <3>3. QED
      BY <3>1, <3>2
  <2>7. CASE Stop \/ StopReturns \/ UNCHANGED vars
    BY <2>1, <2>7 DEF Stop, StopReturns, vars, calls, history
  <2>8. QED
    BY <2>5, <2>6, <2>7 DEF Next
<1>3. QED
  BY <1>1, <1>2, TInit, TStep, PInit, PStep, WInit, WStep, PTL
     DEF Spec, KeepsPromise, Promise!Spec, Promise!vars
=============================================================================
