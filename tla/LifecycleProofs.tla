--------------------------- MODULE LifecycleProofs ---------------------------
(***************************************************************************)
(* Theorems about Lifecycle, for any requests, posts, rates and queue.      *)
(***************************************************************************)
EXTENDS Lifecycle, FiniteSetTheorems, TLAPS

Labels == {"idle", "reading", "lock", "wait", "act", "submit", "done"}

(* The types; a simulator in its slice still has something to emit. *)
Slices == \A r \in Requests : sim[r] = "emit" => left[r] >= 1
TInv == TypeOK /\ Slices

(* The slice is within its bounds. *)
LEMMA SliceBounds ==
  ASSUME TInv
  PROVE  SliceSize \in 1 .. MaxBatch
<1>1. simRate \in Int /\ MaxBatch \in Nat /\ MaxBatch >= 1
  BY ConstantsAssumption, SMT DEF TInv, TypeOK
<1>2. QED
  BY <1>1, SMT DEF SliceSize

LEMMA TInvInit == Init => TInv
<1> SUFFICES ASSUME Init PROVE TInv
  OBVIOUS
<1>1. Capacity \in Nat /\ MaxBatch \in Nat
  BY ConstantsAssumption
<1>2. /\ pc \in [Lockers \cup Posts -> Labels] /\ want \in [Requests -> Rates \cup {0}]
      /\ sim \in [Requests -> {"none", "select", "emit", "exited"}]
      /\ left \in [Requests -> 0 .. MaxBatch]
  BY <1>1, SMT DEF Init, Labels
<1>3. Slices
  BY SMT DEF Init, Slices
<1>4. /\ simActive \in BOOLEAN /\ closed \in BOOLEAN /\ ctxDone \in BOOLEAN /\ timedOut \in BOOLEAN
      /\ dlqOwes \in BOOLEAN /\ failed \in BOOLEAN
  BY Zenon DEF Init
<1>5. /\ simMu \in Lockers \cup {None} /\ simStop \in Requests \cup {None}
      /\ closedCh \subseteq Requests /\ expired \subseteq Requests
      /\ simRate \in Rates \cup {0} /\ consumer \in Returned \cup {"poll", "submit", "flush"}
      /\ buffered \in 0 .. Capacity
      /\ main \in Ended \cup {"serving", "shutdown", "consumer", "stopSimulator", "drain", "closeDLQ"}
      /\ panics \subseteq Requests \cup Posts \cup {"consumer"}
  BY <1>1, SMT DEF Init
<1>6. QED
  BY <1>2, <1>3, <1>4, <1>5 DEF TInv, TypeOK, Labels

LEMMA TInvNext ==
  ASSUME TInv, [Next]_vars
  PROVE  TInv'
<1> USE DEF TInv
<1>1. CASE Work
  BY <1>1, ConstantsAssumption, SMT DEF Work, TypeOK, Slices, locks, sims, kafka, process
<1>2. ASSUME NEW a \in Handlers, Arrive(a) \/ BodyRead(a) \/ Ingest(a)
      PROVE  TInv'
  <2>1. CASE Arrive(a)
    BY <2>1, SMT DEF Arrive, Goto, Handlers, Lockers, TypeOK, Slices, sims, kafka, process
  <2>2. CASE BodyRead(a)
    BY <2>2, SMT DEF BodyRead, Goto, TypeOK, Slices, sims, kafka, process
  <2>3. CASE Ingest(a)
    BY <2>3, ConstantsAssumption, SMT
       DEF Ingest, Enqueued, Panic, Goto, TypeOK, Slices, sims, kafka, process, Ended
  <2>4. QED
    BY <1>2, <2>1, <2>2, <2>3
<1>3. ASSUME NEW a \in Lockers, Lock(a) \/ StopEnds(a) \/ Act(a)
      PROVE  TInv'
  <2>1. CASE Lock(a)
    BY <2>1, SMT DEF Lock, StopBegins, Goto, TypeOK, Slices, sims, kafka, process
  <2>2. CASE StopEnds(a)
    <3>1. simActive' \in BOOLEAN
      BY <2>2, Zenon DEF StopEnds
    <3>2. pc' \in [Lockers \cup Posts -> Labels] /\ simStop' \in Requests \cup {None}
      BY <2>2, SMT DEF StopEnds, Goto, TypeOK, Labels
    <3>3. QED
      BY <2>2, <3>1, <3>2, SMT DEF StopEnds, TypeOK, Slices, sims, kafka, process, Labels
  <2>3. CASE Act(a)
    <3>1. simActive' \in BOOLEAN
      BY <2>3, Zenon DEF Act, TypeOK
    <3>2. pc' \in [Lockers \cup Posts -> Labels]
      BY <2>3, SMT DEF Act, Goto, TypeOK, Labels
    <3>3. simRate' \in Rates \cup {0} /\ simStop' \in Requests \cup {None} /\ simMu' = None
      BY <2>3, SMT DEF Act, TypeOK
    <3>4. sim' \in [Requests -> {"none", "select", "emit", "exited"}] /\ Slices'
      BY <2>3, SMT DEF Act, TypeOK, Slices
    <3>5. QED
      BY <2>3, <3>1, <3>2, <3>3, <3>4 DEF Act, TypeOK, kafka, process, Labels
  <2>4. QED
    BY <1>3, <2>1, <2>2, <2>3
<1>4. ASSUME NEW r \in Requests, TickFires(r) \/ Emit(r) \/ Expire(r) \/ SimExits(r)
      PROVE  TInv'
  <2>1. CASE TickFires(r)
    BY <2>1, SliceBounds, SMT DEF TickFires, TypeOK, Slices, locks, kafka, process
  <2>2. CASE Emit(r)
    BY <2>2, ConstantsAssumption, SMT
       DEF Emit, Enqueued, Panic, TypeOK, Slices, locks, kafka, process, Ended
  <2>3. CASE Expire(r)
    BY <2>3, SMT DEF Expire, Goto, TypeOK, Slices, Lockers, Expirers, kafka, process
  <2>4. CASE SimExits(r)
    BY <2>4, SMT DEF SimExits, TypeOK, Slices, locks, kafka, process
  <2>5. QED
    BY <1>4, <2>1, <2>2, <2>3, <2>4
<1>5. CASE ConsumerPolls \/ ConsumerFlushes \/ ConsumerReturns \/ DLQSettles
  <2>1. dlqOwes' \in BOOLEAN /\ ctxDone' \in BOOLEAN
    BY <1>5, Zenon DEF ConsumerPolls, ConsumerFlushes, ConsumerReturns, DLQSettles, TypeOK, process
  <2>2. consumer' \in Returned \cup {"poll", "submit", "flush"}
    BY <1>5, SMT DEF ConsumerPolls, ConsumerFlushes, ConsumerReturns, DLQSettles, TypeOK, Returned
  <2>3. UNCHANGED <<locks, sims, buffered, closed, main, timedOut, failed, panics>>
    BY <1>5 DEF ConsumerPolls, ConsumerFlushes, ConsumerReturns, DLQSettles, process
  <2>4. QED
    BY <2>1, <2>2, <2>3, SMT DEF TypeOK, Slices, locks, sims
<1>6. CASE ConsumerSubmits
  BY <1>6, ConstantsAssumption, SMT
     DEF ConsumerSubmits, Enqueued, Panic, TypeOK, Slices, locks, sims, process, Ended
<1>7. CASE Sigterm
  BY <1>7, SMT DEF Sigterm, TypeOK, Slices, locks, sims, kafka
<1>8. CASE MainStep
  <2>1. Main \in Lockers
    BY DEF Lockers
  <2>2. CASE EngineStops
    <3>1. closed' \in BOOLEAN
      BY <2>2, Zenon DEF EngineStops
    <3>2. QED
      BY <2>2, <3>1, SMT DEF EngineStops, Advance, TypeOK, Slices, locks, sims, kafka
  <2>3. CASE ShutdownBegins \/ HandlersDone \/ ExitFailed \/ MainReturns \/ Exit
    BY <2>3, SMT DEF ShutdownBegins, HandlersDone, ExitFailed, MainReturns, Exit, Advance, TypeOK,
                     Slices, locks, sims, kafka, Ended
  <2>4. CASE ShutdownTimesOut
    <3>1. timedOut' \in BOOLEAN
      BY <2>4, Zenon DEF ShutdownTimesOut
    <3>2. QED
      BY <2>4, <3>1, SMT DEF ShutdownTimesOut, Advance, TypeOK, Slices, locks, sims, kafka
  <2>5. CASE ConsumerDone
    <3>1. failed' \in BOOLEAN
      BY <2>5, Zenon DEF ConsumerDone
    <3>2. QED
      BY <2>1, <2>5, <3>1, SMT DEF ConsumerDone, Advance, Goto, TypeOK, Slices, sims, kafka
  <2>6. CASE ConsumerTimesOut
    <3>1. timedOut' \in BOOLEAN
      BY <2>6, Zenon DEF ConsumerTimesOut
    <3>2. QED
      BY <2>1, <2>6, <3>1, SMT DEF ConsumerTimesOut, Advance, Goto, TypeOK, Slices, sims, kafka
  <2>7. QED
    BY <1>8, <2>2, <2>3, <2>4, <2>5, <2>6 DEF MainStep
<1>9. CASE UNCHANGED vars
  BY <1>9, SMT DEF vars, locks, sims, kafka, process, TypeOK, Slices
<1>10. QED
  BY <1>1, <1>2, <1>3, <1>4, <1>5, <1>6, <1>7, <1>8, <1>9 DEF Next

LEMMA TInvAlways == Spec => []TInv
<1>1. QED
  BY TInvInit, TInvNext, PTL DEF Spec

(* Every variable keeps its type; the queue and a slice keep their bounds. *)
THEOREM TypeCorrect == Spec => []TypeOK
<1>1. TInv => TypeOK
  BY DEF TInv
<1>2. QED
  BY <1>1, TInvAlways, PTL

----------------------------------------------------------------------------
(* The simulators. *)

(* Who holds simMu is in stopSimulatorLocked or past it, and nobody else. *)
Holding == \A a \in Lockers : pc[a] \in {"wait", "act"} <=> simMu = a

(* A request that has started a simulator is over. *)
Started ==
    /\ \A r \in Requests : sim[r] # "none" => pc[r] = "done"
    /\ \A r \in closedCh : sim[r] # "none"

Gone(r) == sim[r] \in {"none", "exited"}

(* Without a stop channel no simulator runs. *)
Stopped == simStop = None => ~simActive /\ \A r \in Requests : Gone(r)

(* With one, the simulator it belongs to is the only one; it runs until    *)
(* somebody waits for its end.                                             *)
Alone ==
    \A r \in Requests : simStop = r =>
        /\ simActive /\ simRate = want[r]
        /\ sim[r] # "none" /\ (sim[r] = "exited" => r \in closedCh)
        /\ r \in closedCh => simMu # None /\ pc[simMu] = "wait"
        /\ \A s \in Requests \ {r} : Gone(s)

(* Who waits has closed the stop channel; who acts finds none.             *)
AtTheStop ==
    \A a \in Lockers : /\ pc[a] = "wait" => simStop \in closedCh
                       /\ pc[a] = "act" => simStop = None

(* stopIf and StopSimulator are called once. *)
Uncalled ==
    /\ \A r \in Requests \ expired : pc[<<"expire", r>>] = "idle"
    /\ main \in {"serving", "shutdown", "consumer"} => pc[Main] = "idle"

SInv == Holding /\ Started /\ Stopped /\ Alone /\ AtTheStop /\ Uncalled

LEMMA SInvInit == Init => SInv
<1> SUFFICES ASSUME Init PROVE SInv
  OBVIOUS
<1>1. Holding /\ AtTheStop
  BY ConstantsAssumption, SMT DEF Init, Holding, AtTheStop, Lockers
<1>2. Started /\ Alone
  BY ConstantsAssumption, SMT DEF Init, Started, Alone
<1>3. Stopped
  BY ConstantsAssumption DEF Init, Stopped, Gone
<1>4. Uncalled
  BY ConstantsAssumption, SMT DEF Init, Uncalled, Lockers, Expirers
<1>5. QED
  BY <1>1, <1>2, <1>3, <1>4 DEF SInv

(* Steps that leave the simulators and their switch alone. *)
LEMMA SInvFrame ==
  ASSUME TInv, SInv,
         UNCHANGED <<want, simMu, simStop, closedCh, simRate, simActive, sim, expired>>,
         \A a \in Lockers : pc'[a] = pc[a],
         main' \in {"serving", "shutdown", "consumer"} =>
             main \in {"serving", "shutdown", "consumer"}
  PROVE  SInv'
<1>1. Holding'
  BY DEF SInv, Holding
<1>2. Started'
  BY DEF SInv, Started, Lockers, TInv, TypeOK
<1>3. Stopped'
  BY DEF SInv, Stopped, Gone
<1>4. Alone'
  <2>1. simMu # None => simMu \in Lockers
    BY DEF TInv, TypeOK
  <2>2. QED
    BY <2>1, SMT DEF SInv, Alone, Gone
<1>5. AtTheStop'
  BY DEF SInv, AtTheStop
<1>6. Uncalled'
  BY DEF SInv, Uncalled, Lockers, Expirers
<1>7. QED
  BY <1>1, <1>2, <1>3, <1>4, <1>5, <1>6 DEF SInv

LEMMA SInvLock ==
  ASSUME TInv, SInv, NEW a \in Lockers, Lock(a)
  PROVE  SInv'
<1>1. /\ pc \in [Lockers \cup Posts -> Labels] /\ pc[a] = "lock" /\ simMu = None
      /\ simMu \in Lockers \cup {None} /\ simStop \in Requests \cup {None}
      /\ closedCh \subseteq Requests /\ None \notin Lockers
      /\ UNCHANGED <<want, simStop, simRate, simActive, sim, expired, main>>
  BY ConstantsAssumption, SMT DEF Lock, TInv, TypeOK, Labels, Lockers, sims, kafka, process
<1>2. CASE simStop # None /\ Mine(a) /\ StopBegins(a) /\ simMu' = a
  <2>1. pc' = [pc EXCEPT ![a] = "wait"] /\ closedCh' = closedCh \cup {simStop}
    BY <1>2 DEF StopBegins, Goto
  <2>2. Holding'
    BY <1>1, <1>2, <2>1, SMT DEF SInv, Holding
  <2>3. Started'
    BY <1>1, <1>2, <2>1, SMT DEF SInv, Started, Alone, Lockers
  <2>4. Stopped'
    BY <1>1, <1>2 DEF Stopped
  <2>5. Alone'
    BY <1>1, <1>2, <2>1, SMT DEF SInv, Alone, Gone
  <2>6. AtTheStop'
    BY <1>1, <1>2, <2>1, SMT DEF SInv, AtTheStop, Holding
  <2>7. Uncalled'
    BY <1>1, <2>1, SMT DEF SInv, Uncalled, Lockers, Expirers
  <2>8. QED
    BY <2>2, <2>3, <2>4, <2>5, <2>6, <2>7 DEF SInv
<1>3. CASE simStop = None /\ Goto(a, "act") /\ simMu' = a /\ UNCHANGED closedCh
  <2>1. pc' = [pc EXCEPT ![a] = "act"]
    BY <1>3 DEF Goto
  <2>2. Holding'
    BY <1>1, <1>3, <2>1, SMT DEF SInv, Holding
  <2>3. Started'
    BY <1>1, <1>3, <2>1, SMT DEF SInv, Started, Lockers
  <2>4. Stopped'
    BY <1>1, <1>3, SMT DEF SInv, Stopped, Gone
  <2>5. Alone'
    BY <1>1, <1>3, SMT, ConstantsAssumption DEF Alone
  <2>6. AtTheStop'
    BY <1>1, <1>3, <2>1, SMT DEF SInv, AtTheStop
  <2>7. Uncalled'
    BY <1>1, <2>1, SMT DEF SInv, Uncalled, Lockers, Expirers
  <2>8. QED
    BY <2>2, <2>3, <2>4, <2>5, <2>6, <2>7 DEF SInv
<1>4. CASE a \in Expirers /\ Goto(a, "done") /\ UNCHANGED <<want, simMu, closedCh>>
  <2>1. pc' = [pc EXCEPT ![a] = "done"]
    BY <1>4 DEF Goto
  <2>2. Holding'
    BY <1>1, <1>4, <2>1, SMT DEF SInv, Holding
  <2>3. Started'
    BY <1>1, <1>4, <2>1, SMT DEF SInv, Started, Lockers
  <2>4. Stopped'
    BY <1>1, <1>4, SMT DEF SInv, Stopped, Gone
  <2>5. Alone'
    BY <1>1, <1>4, SMT DEF SInv, Alone, Gone
  <2>6. AtTheStop'
    BY <1>1, <1>4, <2>1, SMT DEF SInv, AtTheStop
  <2>7. Uncalled'
    BY <1>1, <2>1, SMT DEF SInv, Uncalled, Lockers, Expirers
  <2>8. QED
    BY <2>2, <2>3, <2>4, <2>5, <2>6, <2>7 DEF SInv
<1>5. QED
  BY <1>2, <1>3, <1>4 DEF Lock

LEMMA SInvStopEnds ==
  ASSUME TInv, SInv, NEW a \in Lockers, StopEnds(a)
  PROVE  SInv'
<1>1. /\ pc \in [Lockers \cup Posts -> Labels] /\ pc[a] = "wait"
      /\ pc' = [pc EXCEPT ![a] = "act"] /\ simStop' = None /\ ~simActive'
      /\ UNCHANGED <<want, simMu, closedCh, simRate, sim, expired, main>>
      /\ sim[simStop] = "exited"
  BY DEF StopEnds, Goto, TInv, TypeOK, Labels, sims, kafka, process
<1>2. simStop \in Requests /\ simMu = a /\ None \notin Requests
  BY <1>1, ConstantsAssumption DEF SInv, AtTheStop, Holding, TInv, TypeOK
<1>3. Holding'
  BY <1>1, SMT DEF SInv, Holding
<1>4. Started'
  BY <1>1, SMT DEF SInv, Started, Lockers
<1>5. Stopped'
  <2>1. \A s \in Requests : Gone(s)
    BY <1>1, <1>2, SMT DEF SInv, Alone, Gone
  <2>2. QED
    BY <1>1, <2>1 DEF Stopped, Gone
<1>6. Alone'
  BY <1>1, <1>2 DEF Alone
<1>7. AtTheStop'
  BY <1>1, <1>2, SMT DEF SInv, AtTheStop, Holding
<1>8. Uncalled'
  BY <1>1, SMT DEF SInv, Uncalled, Lockers, Expirers
<1>9. QED
  BY <1>3, <1>4, <1>5, <1>6, <1>7, <1>8 DEF SInv

LEMMA SInvAct ==
  ASSUME TInv, SInv, NEW a \in Lockers, Act(a)
  PROVE  SInv'
<1>1. /\ pc \in [Lockers \cup Posts -> Labels] /\ pc[a] = "act"
      /\ pc' = [pc EXCEPT ![a] = "done"] /\ simMu' = None
      /\ UNCHANGED <<want, closedCh, expired, main>>
  BY DEF Act, Goto, TInv, TypeOK, Labels, process
<1>2. simStop = None /\ simMu = a /\ None \notin Requests /\ None \notin Lockers
  BY <1>1, ConstantsAssumption DEF SInv, AtTheStop, Holding, Lockers
<1>3. sim \in [Requests -> {"none", "select", "emit", "exited"}] /\ closedCh \subseteq Requests
  BY DEF TInv, TypeOK
<1>4. Holding'
  BY <1>1, <1>2, SMT DEF SInv, Holding
<1>5. AtTheStop'
  BY <1>1, <1>2, SMT DEF SInv, AtTheStop, Holding
<1>6. Uncalled'
  BY <1>1, SMT DEF SInv, Uncalled, Lockers, Expirers
<1>7. CASE a \in Requests /\ want[a] > 0
  <2>1. /\ simRate' = want[a] /\ simStop' = a /\ simActive'
        /\ sim' = [sim EXCEPT ![a] = "select"]
    BY <1>7 DEF Act
  <2>2. sim[a] = "none" /\ a \notin closedCh
    BY <1>1, <1>7, SMT DEF SInv, Started
  <2>3. Started'
    BY <1>1, <1>3, <1>7, <2>1, SMT DEF SInv, Started, Lockers
  <2>4. Stopped'
    BY <1>2, <1>7, <2>1 DEF Stopped
  <2>5. Alone'
    <3>1. \A s \in Requests \ {a} : Gone(s)'
      BY <1>2, <1>3, <2>1, SMT DEF SInv, Stopped, Gone
    <3>2. sim'[a] = "select" /\ a \notin closedCh' /\ simRate' = want'[a]
      BY <1>1, <1>3, <1>7, <2>1, <2>2, SMT
    <3>3. QED
      BY <2>1, <3>1, <3>2 DEF Alone
  <2>6. QED
    BY <1>4, <1>5, <1>6, <2>3, <2>4, <2>5 DEF SInv
<1>8. CASE ~(a \in Requests /\ want[a] > 0)
  <2>1. UNCHANGED <<simStop, simActive, sim>>
    BY <1>8 DEF Act
  <2>2. Started'
    BY <1>1, <1>3, <2>1, SMT DEF SInv, Started, Lockers
  <2>3. Stopped'
    BY <2>1 DEF SInv, Stopped, Gone
  <2>4. Alone'
    BY <1>2, <2>1 DEF Alone
  <2>5. QED
    BY <1>4, <1>5, <1>6, <2>2, <2>3, <2>4 DEF SInv
<1>9. QED
  BY <1>7, <1>8

(* A step of a running simulator: it goes on, or exits once it is told to. *)
LEMMA SInvRuns ==
  ASSUME TInv, SInv, NEW r \in Requests, sim[r] \in {"select", "emit"},
         NEW next \in {"select", "emit", "exited"}, next = "exited" => r \in closedCh,
         sim' = [sim EXCEPT ![r] = next],
         UNCHANGED <<locks, expired>>, main' \in {main, "crashed"}
  PROVE  SInv'
<1>1. /\ sim \in [Requests -> {"none", "select", "emit", "exited"}]
      /\ closedCh \subseteq Requests /\ simStop \in Requests \cup {None}
      /\ UNCHANGED <<pc, want, simMu, simStop, closedCh, simRate, simActive>>
  BY DEF TInv, TypeOK, locks
<1>2. simStop = r /\ r # None
  <2>1. ~Gone(r)
    BY DEF Gone
  <2>2. simStop # None
    BY <2>1 DEF SInv, Stopped
  <2>3. QED
    BY <1>1, <2>1, <2>2, ConstantsAssumption DEF SInv, Alone
<1>3. Holding'
  BY <1>1 DEF SInv, Holding
<1>4. Started'
  BY <1>1, SMT DEF SInv, Started
<1>5. Stopped'
  BY <1>1, <1>2 DEF Stopped
<1>6. Alone'
  <2>1. \A s \in Requests \ {r} : Gone(s)'
    BY <1>1, <1>2, SMT DEF SInv, Alone, Gone
  <2>2. sim'[r] = next
    BY <1>1
  <2>3. QED
    BY <1>1, <1>2, <2>1, <2>2, SMT DEF SInv, Alone
<1>7. AtTheStop'
  BY <1>1 DEF SInv, AtTheStop
<1>8. Uncalled'
  BY <1>1, SMT DEF SInv, Uncalled
<1>9. QED
  BY <1>3, <1>4, <1>5, <1>6, <1>7, <1>8 DEF SInv

(* A goroutine that had not begun, or not got to the lock, moves on. *)
LEMMA SInvGoes ==
  ASSUME TInv, SInv, NEW a \in Lockers, pc[a] \in {"idle", "reading"},
         NEW to \in {"reading", "lock", "done"}, pc' = [pc EXCEPT ![a] = to],
         UNCHANGED <<simMu, simStop, closedCh, simRate, simActive, sim>>,
         \A r \in Requests \ {a} : want'[r] = want[r],
         expired \subseteq expired',
         \A r \in Requests : a = <<"expire", r>> => r \in expired',
         main' \in {"serving", "shutdown", "consumer"} =>
             a # Main /\ main \in {"serving", "shutdown", "consumer"}
  PROVE  SInv'
<1>1. /\ pc \in [Lockers \cup Posts -> Labels] /\ simMu \in Lockers \cup {None}
      /\ closedCh \subseteq Requests
  BY DEF TInv, TypeOK, Labels
<1>2. a \in Requests => sim[a] = "none"
  BY SMT DEF SInv, Started
<1>3. Holding'
  BY <1>1, SMT DEF SInv, Holding
<1>4. Started'
  BY <1>1, <1>2, SMT DEF SInv, Started, Lockers
<1>5. Stopped'
  BY DEF SInv, Stopped, Gone
<1>6. Alone'
  BY <1>1, <1>2, SMT DEF SInv, Alone, Gone
<1>7. AtTheStop'
  BY <1>1, SMT DEF SInv, AtTheStop
<1>8. Uncalled'
  BY <1>1, SMT DEF SInv, Uncalled, Lockers, Expirers
<1>9. QED
  BY <1>3, <1>4, <1>5, <1>6, <1>7, <1>8 DEF SInv

LEMMA SInvNext ==
  ASSUME TInv, TInv', SInv, [Next]_vars
  PROVE  SInv'
<1>0. pc \in [Lockers \cup Posts -> Labels]
  BY DEF TInv, TypeOK, Labels
<1>1. CASE Work
  BY <1>1, SInvFrame DEF Work, locks, sims, kafka, process
<1>2. ASSUME NEW a \in Handlers, Arrive(a) \/ BodyRead(a) \/ Ingest(a)
      PROVE  SInv'
  <2>1. CASE a \in Posts
    <3>1. /\ UNCHANGED <<want, simMu, simStop, closedCh, simRate, simActive, sim, expired>>
          /\ main' = main
      BY <1>2, <2>1, ConstantsAssumption
         DEF Arrive, BodyRead, Ingest, Panic, Handlers, sims, kafka, process
    <3>2. \E label \in Labels : pc' = [pc EXCEPT ![a] = label]
      BY <1>2 DEF Arrive, BodyRead, Ingest, Goto, Labels
    <3>3. a \notin Lockers
      BY <2>1, ConstantsAssumption DEF Lockers
    <3>4. \A b \in Lockers : pc'[b] = pc[b]
      BY <1>0, <3>2, <3>3, SMT
    <3>5. QED
      BY <3>1, <3>4, SInvFrame
  <2>2. CASE a \in Requests
    <3>1. /\ a \in Lockers /\ pc[a] \in {"idle", "reading"} /\ a # Main
          /\ \A r \in Requests : a # <<"expire", r>>
          /\ UNCHANGED <<simMu, simStop, closedCh, simRate, simActive, sim, expired, main>>
      BY <1>2, <2>2, ConstantsAssumption
         DEF Arrive, BodyRead, Ingest, Lockers, Expirers, sims, kafka, process
    <3>2. PICK to \in {"reading", "lock", "done"} : pc' = [pc EXCEPT ![a] = to]
      BY <1>2, <2>2, ConstantsAssumption DEF Arrive, BodyRead, Ingest, Goto
    <3>3. \A r \in Requests \ {a} : want'[r] = want[r]
      BY <1>2, <2>2, ConstantsAssumption, SMT DEF Arrive, BodyRead, Ingest, TInv, TypeOK
    <3>4. QED
      BY <3>1, <3>2, <3>3, SInvGoes
  <2>3. QED
    BY <2>1, <2>2 DEF Handlers
<1>3. ASSUME NEW a \in Lockers, Lock(a) \/ StopEnds(a) \/ Act(a)
      PROVE  SInv'
  BY <1>3, SInvLock, SInvStopEnds, SInvAct
<1>4. ASSUME NEW r \in Requests, TickFires(r) \/ Emit(r) \/ SimExits(r)
      PROVE  SInv'
  <2>1. PICK next \in {"select", "emit", "exited"} :
            /\ sim[r] \in {"select", "emit"} /\ sim' = [sim EXCEPT ![r] = next]
            /\ next = "exited" => r \in closedCh
            /\ UNCHANGED <<locks, expired>>
    BY <1>4 DEF TickFires, Emit, SimExits
  <2>2. main' \in {main, "crashed"}
    BY <1>4, SMT DEF TickFires, Emit, SimExits, Panic, process
  <2>3. QED
    BY <2>1, <2>2, SInvRuns
<1>5. ASSUME NEW r \in Requests, Expire(r)
      PROVE  SInv'
  <2>1. <<"expire", r>> \in Lockers /\ <<"expire", r>> \notin Requests \cup {Main}
    BY ConstantsAssumption DEF Lockers, Expirers
  <2>2. pc[<<"expire", r>>] = "idle"
    BY <1>5 DEF Expire, SInv, Uncalled
  <2>3. /\ pc' = [pc EXCEPT ![<<"expire", r>>] = "lock"] /\ expired' = expired \cup {r}
        /\ UNCHANGED <<want, simMu, simStop, closedCh, simRate, simActive, sim, main>>
    BY <1>5 DEF Expire, Goto, process
  <2>4. \A s \in Requests : <<"expire", r>> = <<"expire", s>> => s \in expired'
    BY <2>3
  <2>5. QED
    BY <2>1, <2>2, <2>3, <2>4, SInvGoes
<1>6. CASE ConsumerPolls \/ ConsumerFlushes \/ ConsumerReturns \/ DLQSettles \/ Sigterm
  BY <1>6, SInvFrame
     DEF ConsumerPolls, ConsumerFlushes, ConsumerReturns, DLQSettles, Sigterm, locks, sims, process
<1>7. CASE ConsumerSubmits
  <2>1. main' \in {main, "crashed"} /\ UNCHANGED <<locks, sims>>
    BY <1>7, SMT DEF ConsumerSubmits, Panic, process
  <2>2. QED
    BY <2>1, SInvFrame DEF locks, sims
<1>8. CASE ConsumerDone \/ ConsumerTimesOut
  <2>1. /\ pc' = [pc EXCEPT ![Main] = "lock"] /\ main = "consumer" /\ main' = "stopSimulator"
        /\ UNCHANGED <<want, simMu, simStop, closedCh, simRate, simActive, sim, expired>>
    BY <1>8 DEF ConsumerDone, ConsumerTimesOut, Advance, Goto, sims
  <2>2. Main \in Lockers /\ \A r \in Requests : Main # <<"expire", r>>
    BY ConstantsAssumption DEF Lockers, Expirers
  <2>3. pc[Main] = "idle"
    BY <2>1 DEF SInv, Uncalled
  <2>4. QED
    BY <2>1, <2>2, <2>3, SInvGoes
<1>9. CASE \/ ShutdownBegins \/ HandlersDone \/ ShutdownTimesOut \/ EngineStops
           \/ ExitFailed \/ MainReturns \/ Exit
  <2>1. /\ UNCHANGED <<locks, sims>>
        /\ main' \in {"serving", "shutdown", "consumer"} =>
               main \in {"serving", "shutdown", "consumer"}
    BY <1>9 DEF ShutdownBegins, HandlersDone, ShutdownTimesOut, EngineStops, ExitFailed,
                MainReturns, Exit, Advance
  <2>2. QED
    BY <2>1, SInvFrame DEF locks, sims
<1>10. CASE UNCHANGED vars
  BY <1>10, SInvFrame DEF vars, locks, sims, kafka, process
<1>11. QED
  BY <1>1, <1>2, <1>3, <1>4, <1>5, <1>6, <1>7, <1>8, <1>9, <1>10 DEF Next, MainStep

LEMMA SInvAlways == Spec => []SInv
  BY TInvAlways, SInvInit, SInvNext, PTL DEF Spec

(* Two simulators never run together, and the one that runs is at the rate *)
(* of the request that started it, however starts, stops and expiries of   *)
(* any number of requests race for simMu.                                  *)
THEOREM OneSimulator == Spec => []OneSimulatorAtItsRate
<1>1. ASSUME TInv, SInv
      PROVE  OneSimulatorAtItsRate
  <2>1. \A r \in Running : simStop = r /\ simRate = want[r]
    BY <1>1, ConstantsAssumption DEF Running, Gone, SInv, Stopped, Alone, TInv, TypeOK
  <2>2. CASE Running = {}
    BY <2>1, <2>2, FS_EmptySet DEF OneSimulatorAtItsRate
  <2>3. CASE Running # {}
    <3>1. Running = {simStop}
      BY <2>1, <2>3
    <3>2. QED
      <4>1. Cardinality(Running) = 1
        BY <3>1, FS_Singleton
      <4>2. QED
        BY <2>1, <4>1 DEF OneSimulatorAtItsRate
  <2>4. QED
    BY <2>2, <2>3
<1>2. QED
  BY <1>1, TInvAlways, SInvAlways, PTL

(* What the stream says of the simulator is true while nobody holds simMu. *)
THEOREM ReportIsTruthful == Spec => []ReportedTruthfully
<1>1. ASSUME TInv, SInv, simMu = None
      PROVE  simActive <=> Running # {}
  <2>1. CASE simStop = None
    BY <1>1, <2>1 DEF SInv, Stopped, Gone, Running
  <2>2. CASE simStop # None
    <3>1. simStop \in Requests
      BY <1>1, <2>2 DEF TInv, TypeOK
    <3>2. simActive /\ sim[simStop] \notin {"none", "exited"}
      BY <1>1, <3>1 DEF SInv, Alone
    <3>3. simStop \in Running
      BY <1>1, <3>1, <3>2, SMT DEF Running, TInv, TypeOK
    <3>4. QED
      BY <3>2, <3>3
  <2>3. QED
    BY <2>1, <2>2
<1>2. TInv /\ SInv => ReportedTruthfully
  BY <1>1 DEF ReportedTruthfully
<1>3. QED
  BY <1>2, TInvAlways, SInvAlways, PTL

(* The expiry of a simulator never stops another one's successor.          *)
THEOREM ExpiryIsItsOwn == Spec => ExpiryStopsItsOwn
<1>1. ASSUME [Next]_vars, NEW r \in closedCh' \ closedCh
      PROVE  simMu' \in Requests \cup {Main} \/ simMu' = <<"expire", r>>
  <2>1. ASSUME NEW a \in Lockers, Lock(a)
        PROVE  simMu' \in Requests \cup {Main} \/ simMu' = <<"expire", r>>
    <3>1. Mine(a) /\ simMu' = a /\ closedCh' = closedCh \cup {simStop}
      BY <1>1, <2>1 DEF Lock, StopBegins
    <3>2. r = simStop
      BY <1>1, <3>1
    <3>3. QED
      BY <3>1, <3>2 DEF Mine, Lockers
  <2>2. ASSUME NEW a \in Handlers, Arrive(a) \/ BodyRead(a) \/ Ingest(a)
        PROVE  UNCHANGED closedCh
    BY <2>2 DEF Arrive, BodyRead, Ingest
  <2>3. ASSUME NEW a \in Lockers, StopEnds(a) \/ Act(a)
        PROVE  UNCHANGED closedCh
    BY <2>3 DEF StopEnds, Act
  <2>4. ASSUME NEW s \in Requests, TickFires(s) \/ Emit(s) \/ Expire(s) \/ SimExits(s)
        PROVE  UNCHANGED closedCh
    BY <2>4 DEF TickFires, Emit, Expire, SimExits, locks
  <2>5. ASSUME \/ Work \/ ConsumerPolls \/ ConsumerSubmits \/ ConsumerFlushes \/ ConsumerReturns
               \/ DLQSettles \/ Sigterm
        PROVE  UNCHANGED closedCh
    BY <2>5 DEF Work, ConsumerPolls, ConsumerSubmits, ConsumerFlushes, ConsumerReturns, DLQSettles,
                Sigterm, locks
  <2>6. ASSUME MainStep PROVE UNCHANGED closedCh
    BY <2>6 DEF MainStep, ShutdownBegins, HandlersDone, ShutdownTimesOut, ConsumerDone,
       ConsumerTimesOut, EngineStops, ExitFailed, MainReturns, Exit, locks
  <2>7. CASE UNCHANGED vars
    BY <1>1, <2>7 DEF vars, locks
  <2>8. QED
    BY <1>1, <2>1, <2>2, <2>3, <2>4, <2>5, <2>6, <2>7 DEF Next
<1>2. [Next]_vars =>
          [\A r \in closedCh' \ closedCh :
              simMu' \in Requests \cup {Main} \/ simMu' = <<"expire", r>>]_vars
  BY <1>1
<1>3. QED
  BY <1>2, PTL DEF Spec, ExpiryStopsItsOwn

----------------------------------------------------------------------------
(* The shutdown. *)

(* Unless a timeout ran out, no handler outlives srv.Shutdown, the         *)
(* consumer is over before main turns to the simulator, and none runs once *)
(* StopSimulator has returned.                                             *)
Stopping == {"drain", "closeDLQ"}   \* Engine.Stop has begun
PastConsumer == {"stopSimulator"} \cup Stopping

InOrder ==
    /\ main \in {"consumer"} \cup PastConsumer => InFlight = {}
    /\ main \in PastConsumer =>
          consumer \in Returned /\ (pc[Main] = "done" => simStop = None)
    /\ main \in Stopping => pc[Main] = "done"

DInv ==
    /\ NoPanicUnlessTimedOut
    /\ closed => main \in Stopping \cup Ended
    /\ ~timedOut => InOrder

LEMMA DInvInit == Init => DInv
BY DEF Init, DInv, NoPanicUnlessTimedOut, InOrder, PastConsumer, Stopping

(* Whoever still submits to the closed engine got there past a timeout.    *)
LEMMA OnlyPastATimeout ==
  ASSUME SInv, DInv, Up, closed,
         \/ \E a \in Posts : pc[a] = "submit"
         \/ \E r \in Requests : sim[r] = "emit"
         \/ consumer = "submit"
  PROVE  timedOut
<1>1. SUFFICES ASSUME ~timedOut PROVE FALSE
  OBVIOUS
<1>2. InFlight = {} /\ consumer \in Returned /\ simStop = None
  BY <1>1 DEF DInv, InOrder, Up, PastConsumer, Stopping
<1>3. \A r \in Requests : sim[r] # "emit"
  BY <1>2 DEF SInv, Stopped, Gone
<1>4. \A a \in Posts : pc[a] # "submit"
  BY <1>2 DEF InFlight, Handlers
<1>5. consumer # "submit"
  BY <1>2 DEF Returned
<1>6. QED
  BY <1>3, <1>4, <1>5

(* Steps that leave what the shutdown looks at alone.                      *)
LEMMA DInvFrame ==
  ASSUME DInv, UNCHANGED <<closed, timedOut>>,
         panics' = panics \/ (panics' # {} /\ timedOut),
         main' \in {main, "crashed"},
         ~timedOut /\ main \in {"consumer"} \cup PastConsumer =>
            UNCHANGED <<pc, simStop>> /\ (consumer \in Returned => consumer' = consumer)
  PROVE  DInv'
<1>1. NoPanicUnlessTimedOut'
  BY DEF DInv, NoPanicUnlessTimedOut
<1>2. closed' => main' \in Stopping \cup Ended
  BY DEF DInv, Ended
<1>3. ~timedOut' => InOrder'
  BY DEF DInv, InOrder, InFlight, PastConsumer, Stopping
<1>4. QED
  BY <1>1, <1>2, <1>3 DEF DInv, Ended

LEMMA DInvNext ==
  ASSUME TInv, SInv, DInv, [Next]_vars
  PROVE  DInv'
<1>0. pc \in [Lockers \cup Posts -> Labels]
  BY DEF TInv, TypeOK, Labels
<1>1. CASE Work
  BY <1>1, DInvFrame DEF Work, locks, sims, kafka, process
<1>2. ASSUME NEW a \in Handlers, Arrive(a) \/ BodyRead(a) \/ Ingest(a)
      PROVE  DInv'
  <2>1. a \in InFlight \/ main = "serving"
    BY <1>2 DEF Arrive, BodyRead, Ingest, InFlight
  <2>2. ~timedOut => main \notin {"consumer"} \cup PastConsumer
    BY <2>1 DEF DInv, InOrder, PastConsumer, Stopping
  <2>3. CASE Arrive(a) \/ BodyRead(a)
    BY <2>2, <2>3, DInvFrame DEF Arrive, BodyRead, sims, kafka, process
  <2>4. CASE Ingest(a)
    <3>1. UNCHANGED <<closed, timedOut>> /\ main' \in {main, "crashed"}
      BY <2>4 DEF Ingest, Panic, process
    <3>2. panics' = panics \/ (panics' # {} /\ timedOut)
      BY <2>4, OnlyPastATimeout DEF Ingest, Panic
    <3>3. QED
      BY <2>2, <3>1, <3>2, DInvFrame
  <2>5. QED
    BY <1>2, <2>3, <2>4
<1>3. ASSUME NEW a \in Lockers, Lock(a) \/ StopEnds(a) \/ Act(a)
      PROVE  DInv'
  <2>1. UNCHANGED <<closed, timedOut, panics, main, consumer>>
    BY <1>3 DEF Lock, StopEnds, Act, kafka, process
  <2>2. pc[a] \in {"lock", "wait", "act"} /\ \E to \in Labels : pc' = [pc EXCEPT ![a] = to]
    BY <1>3 DEF Lock, StopEnds, Act, StopBegins, Goto, Labels
  <2>3. ASSUME ~timedOut, main \in {"consumer"} \cup PastConsumer
        PROVE  InOrder'
    <3>1. a \notin Handlers
      <4>1. InFlight = {}
        BY <2>3 DEF DInv, InOrder
      <4>2. a \notin Handlers \/ a \in InFlight
        BY <2>2 DEF InFlight
      <4>3. QED
        BY <4>1, <4>2
    <3>2. a \notin Requests
      BY <3>1 DEF Handlers
    <3>3. \A b \in Handlers : pc'[b] = pc[b]
      BY <1>0, <2>2, <3>1, SMT
    <3>4. InFlight' = InFlight
      BY <3>3 DEF InFlight
    <3>5. simStop' \in {simStop, None}
      BY <1>3, <3>2 DEF Lock, StopEnds, Act
    <3>6. main \in Stopping => pc'[Main] = "done" /\ pc[Main] = "done"
      <4>1. main \in Stopping => pc[Main] = "done"
        BY <2>3 DEF DInv, InOrder
      <4>2. QED
        BY <1>0, <2>2, <4>1, SMT DEF Lockers
    <3>7. pc'[Main] = "done" => pc[Main] = "done" \/ simStop = None
      <4>1. CASE a = Main
        <5>1. Act(Main) => pc[Main] = "act"
          BY DEF Act
        <5>2. Lock(Main) \/ StopEnds(Main) => pc'[Main] # "done"
          BY <1>0, ConstantsAssumption, SMT DEF Lock, StopEnds, StopBegins, Goto, Lockers
        <5>3. QED
          BY <1>3, <4>1, <5>1, <5>2 DEF SInv, AtTheStop, Lockers
      <4>2. CASE a # Main
        BY <1>0, <2>2, <4>2, SMT DEF Lockers
      <4>3. QED
        BY <4>1, <4>2
    <3>8. QED
      BY <2>1, <2>3, <3>4, <3>5, <3>6, <3>7 DEF DInv, InOrder
  <2>4. ~timedOut' => InOrder'
    BY <2>1, <2>3 DEF InOrder, PastConsumer
  <2>5. QED
    BY <2>1, <2>4 DEF DInv, NoPanicUnlessTimedOut, PastConsumer, Stopping, Ended
<1>4. ASSUME NEW r \in Requests, TickFires(r) \/ SimExits(r)
      PROVE  DInv'
  BY <1>4, DInvFrame DEF TickFires, SimExits, locks, kafka, process
<1>5. ASSUME NEW r \in Requests, Emit(r)
      PROVE  DInv'
  <2>1. UNCHANGED <<closed, timedOut, pc, simStop, consumer>> /\ main' \in {main, "crashed"}
    BY <1>5, SMT DEF Emit, Panic, process, locks, kafka
  <2>2. panics' = panics \/ (panics' # {} /\ timedOut)
    BY <1>5, OnlyPastATimeout DEF Emit, Panic
  <2>3. QED
    BY <2>1, <2>2, DInvFrame
<1>6. ASSUME NEW r \in Requests, Expire(r)
      PROVE  DInv'
  <2>1. /\ UNCHANGED <<closed, timedOut, panics, main, consumer, simStop>>
        /\ pc' = [pc EXCEPT ![<<"expire", r>>] = "lock"]
    BY <1>6 DEF Expire, Goto, kafka, process
  <2>2. <<"expire", r>> \notin Handlers \cup {Main}
    BY ConstantsAssumption DEF Expirers, Handlers
  <2>3. \A b \in Handlers \cup {Main} : pc'[b] = pc[b]
    BY <1>0, <2>1, <2>2, SMT DEF Handlers, Lockers
  <2>4. InFlight' = InFlight
    BY <2>3 DEF InFlight
  <2>5. QED
    BY <2>1, <2>3, <2>4 DEF DInv, InOrder, NoPanicUnlessTimedOut, Ended
<1>7. CASE ConsumerPolls \/ ConsumerFlushes \/ ConsumerReturns \/ DLQSettles
  <2>1. /\ UNCHANGED <<closed, timedOut, panics, main, pc, simStop>>
        /\ consumer \in Returned => consumer' = consumer
    BY <1>7 DEF ConsumerPolls, ConsumerFlushes, ConsumerReturns, DLQSettles, locks, process, Returned
  <2>2. QED
    BY <2>1, DInvFrame
<1>8. CASE ConsumerSubmits
  <2>1. UNCHANGED <<closed, timedOut, pc, simStop>> /\ main' \in {main, "crashed"}
    BY <1>8, SMT DEF ConsumerSubmits, Panic, process, locks
  <2>2. panics' = panics \/ (panics' # {} /\ timedOut)
    BY <1>8, OnlyPastATimeout DEF ConsumerSubmits, Panic
  <2>3. consumer \notin Returned
    BY <1>8 DEF ConsumerSubmits, Returned
  <2>4. QED
    BY <2>1, <2>2, <2>3, DInvFrame
<1>9. CASE Sigterm
  BY <1>9, DInvFrame DEF Sigterm, locks, sims, kafka
<1>10. CASE MainStep
  <2>1. panics' = panics
    BY <1>10 DEF MainStep, ShutdownBegins, HandlersDone, ShutdownTimesOut, ConsumerDone,
       ConsumerTimesOut, EngineStops, ExitFailed, MainReturns, Exit, Advance
  <2>2. CASE ShutdownBegins
    BY <2>1, <2>2 DEF ShutdownBegins, Advance, DInv, NoPanicUnlessTimedOut, InOrder, PastConsumer, Stopping, Ended
  <2>3. CASE HandlersDone
    BY <2>1, <2>3
       DEF HandlersDone, Advance, locks, DInv, NoPanicUnlessTimedOut, InOrder, InFlight, PastConsumer, Stopping, Ended
  <2>4. CASE ShutdownTimesOut
    BY <2>1, <2>4 DEF ShutdownTimesOut, Advance, DInv, NoPanicUnlessTimedOut, PastConsumer, Stopping, Ended
  <2>5. CASE ConsumerDone
    <3>1. /\ main = "consumer" /\ main' = "stopSimulator" /\ consumer' \in Returned
          /\ UNCHANGED <<closed, timedOut>> /\ pc' = [pc EXCEPT ![Main] = "lock"]
      BY <2>5 DEF ConsumerDone, Advance, Goto, kafka
    <3>2. \A b \in Handlers : pc'[b] = pc[b]
      BY <1>0, <3>1, ConstantsAssumption, SMT DEF Handlers, Lockers
    <3>3. pc'[Main] # "done"
      BY <1>0, <3>1, SMT DEF Lockers
    <3>4. InFlight' = InFlight
      BY <3>2 DEF InFlight
    <3>5. QED
      BY <2>1, <3>1, <3>3, <3>4 DEF DInv, NoPanicUnlessTimedOut, InOrder, PastConsumer, Stopping, Ended
  <2>6. CASE ConsumerTimesOut
    BY <2>1, <2>6 DEF ConsumerTimesOut, Advance, DInv, NoPanicUnlessTimedOut, PastConsumer, Stopping, Ended
  <2>7. CASE EngineStops
    <3>1. /\ main = "stopSimulator" /\ main' = "drain" /\ pc[Main] = "done"
          /\ UNCHANGED <<timedOut, pc, simStop, consumer>>
      BY <2>7 DEF EngineStops, Advance, locks, kafka
    <3>2. QED
      BY <2>1, <3>1 DEF DInv, NoPanicUnlessTimedOut, InOrder, InFlight, PastConsumer, Stopping, Ended
  <2>8. CASE ExitFailed \/ MainReturns \/ Exit
    BY <2>1, <2>8 DEF ExitFailed, MainReturns, Exit, Advance, locks, kafka, InFlight, DInv, NoPanicUnlessTimedOut, InOrder, PastConsumer, Stopping, Ended
  <2>9. QED
    BY <1>10, <2>2, <2>3, <2>4, <2>5, <2>6, <2>7, <2>8 DEF MainStep
<1>11. CASE UNCHANGED vars
  BY <1>11, DInvFrame DEF vars, locks, sims, kafka, process
<1>12. QED
  BY <1>1, <1>2, <1>3, <1>4, <1>5, <1>6, <1>7, <1>8, <1>9, <1>10, <1>11 DEF Next

(* main ends its submitters in order: nobody sends to the queues that      *)
(* Engine.Stop has closed, as long as neither timeout of the shutdown has  *)
(* run out.                                                                *)
THEOREM NoSendOnClosed == Spec => []NoPanicUnlessTimedOut
<1>1. DInv => NoPanicUnlessTimedOut
  BY DEF DInv
<1>2. QED
  BY <1>1, TInvAlways, SInvAlways, DInvInit, DInvNext, PTL DEF Spec
=============================================================================
