------------------------ MODULE KafkaConsumerProofs ------------------------
(***************************************************************************)
(* Theorems about KafkaConsumer, for any processes, partitions, log length *)
(* and number of faults and moves.                                         *)
(***************************************************************************)
EXTENDS KafkaConsumer, TLAPS

(* The types hold at the start and every step keeps them. *)
LEMMA TypeInit == Init => TypeOK
BY ConstantsAssumption DEF Init, TypeOK, Start, NeverRead, NotSeen, Nothing, NoErrors, PCs, Stopped, Topics

(* What a poll does with the fetches it returns. *)
PollTakes(c, fetched, next, watermark) ==
    /\ \A p \in fetched :
          pos[c][p] <= next[p] /\ next[p] <= head[p] /\ watermark[p] <= head[p]
    /\ Observe(c, fetched, next, watermark)
    /\ pos' = [pos EXCEPT ![c] =
          [p \in Partitions |-> IF p \in fetched THEN next[p] ELSE @[p]]]
    /\ todo' = [todo EXCEPT ![c] =
          {r \in Records : /\ r[1] \in fetched
                           /\ pos[c][r[1]] <= r[2] /\ r[2] < next[r[1]]}]

LEMMA PollPicks ==
  ASSUME NEW c \in Consumers, Poll(c)
  PROVE  \E fetched \in SUBSET owned[c] :
            \E next \in [fetched -> 0 .. MaxLog], watermark \in [fetched -> 0 .. MaxLog] :
               PollTakes(c, fetched, next, watermark)
BY DEF Poll, Fetch, PollTakes

(* Observing and forgetting keep the lag tracker well typed. *)
LEMMA ObserveTypes ==
  ASSUME TypeOK, NEW c \in Consumers, NEW fetched \in SUBSET Partitions,
         NEW next, NEW watermark,
         \A p \in fetched : next[p] \in 0 .. MaxLog /\ watermark[p] \in 0 .. MaxLog,
         Observe(c, fetched, next, watermark)
  PROVE  /\ lastOffset' \in [Consumers -> [Partitions -> NotSeen .. MaxLog - 1]]
         /\ lag' \in [Consumers -> [Partitions -> 0 .. MaxLog]]
<1> USE ConstantsAssumption DEF NotSeen
<1>1. lastOffset' \in [Consumers -> [Partitions -> NotSeen .. MaxLog - 1]]
  BY DEF Observe, TypeOK
<1>2. lag' \in [Consumers -> [Partitions -> 0 .. MaxLog]]
  <2>1. \A p \in fetched : lastOffset'[c][p] # NotSeen /\ watermark[p] > lastOffset'[c][p]
                             => watermark[p] - lastOffset'[c][p] - 1 \in 0 .. MaxLog
    BY <1>1
  <2>2. QED
    BY <2>1 DEF Observe, TypeOK
<1>3. QED
  BY <1>1, <1>2

LEMMA ForgetTypes ==
  ASSUME TypeOK, NEW c \in Consumers, NEW parts, Forget(c, parts)
  PROVE  /\ lastOffset' \in [Consumers -> [Partitions -> NotSeen .. MaxLog - 1]]
         /\ lag' \in [Consumers -> [Partitions -> 0 .. MaxLog]]
BY ConstantsAssumption DEF Forget, TypeOK, NotSeen

LEMMA TypeStep == TypeOK /\ [Next]_vars => TypeOK'
<1> SUFFICES ASSUME TypeOK, [Next]_vars PROVE TypeOK'
  OBVIOUS
<1> USE ConstantsAssumption DEF TypeOK, Goto, Fault, Move, broker, group, tracker,
        publishing, budget
<1>1. ASSUME NEW p \in Partitions, Append(p) PROVE TypeOK'
  BY <1>1 DEF Append
<1>2. ASSUME NEW c \in Consumers, Loop(c) PROVE TypeOK'
  <2> USE DEF PCs, Stopped
  <2>1. CASE Poll(c)
    <3>0. PICK fetched \in SUBSET owned[c] :
             \E next \in [fetched -> 0 .. MaxLog], watermark \in [fetched -> 0 .. MaxLog] :
                PollTakes(c, fetched, next, watermark)
      BY <2>1, PollPicks
    <3>1. PICK next \in [fetched -> 0 .. MaxLog], watermark \in [fetched -> 0 .. MaxLog] :
             PollTakes(c, fetched, next, watermark)
      BY <3>0
    <3> USE DEF PollTakes
    <3>2. /\ lastOffset' \in [Consumers -> [Partitions -> NotSeen .. MaxLog - 1]]
          /\ lag' \in [Consumers -> [Partitions -> 0 .. MaxLog]]
      BY <3>1, ObserveTypes
    <3>3. pos' \in [Consumers -> [Partitions -> 0 .. MaxLog]]
      BY <3>1
    <3>4. todo' \in [Consumers -> SUBSET Records]
      BY <3>1
    <3>5. QED
      BY <2>1, <3>2, <3>3, <3>4 DEF Poll
  <2>2. CASE PollCancelled(c)
    BY <2>2 DEF PollCancelled
  <2>3. CASE Decode(c)
    <3>1. PICK parked \in SUBSET todo[c] :
             /\ todo' = [todo EXCEPT ![c] = @ \ parked]
             /\ pending' = [pending EXCEPT ![c]["dlq"] = @ \cup parked]
      BY <2>3 DEF Decode
    <3>2. parked \in SUBSET Records
      BY <3>1
    <3>3. todo' \in [Consumers -> SUBSET Records]
      BY <3>1
    <3>4. pending' \in [Consumers -> [Topics -> SUBSET Records]]
      <4>1. [pending[c] EXCEPT !["dlq"] = @ \cup parked] \in [Topics -> SUBSET Records]
        BY <3>2 DEF Topics
      <4>2. QED
        BY <3>1, <4>1
    <3>5. pc' \in [Consumers -> PCs]
      BY <2>3 DEF Decode
    <3>6. QED
      BY <2>3, <3>3, <3>4, <3>5 DEF Decode
  <2>4. CASE SubmitBatchReturns(c)
    BY <2>4 DEF SubmitBatchReturns
  <2>5. CASE FlushDLQ(c)
    BY <2>5 DEF FlushDLQ
  <2>6. CASE FlushVerdicts(c)
    BY <2>6 DEF FlushVerdicts
  <2>7. CASE FlushFails(c)
    BY <2>7 DEF FlushFails
  <2>8. CASE Commit(c)
    BY <2>8 DEF Commit, CommitUncommitted, Claims
  <2>9. CASE AllowRebalance(c)
    <3>1. CASE runErr[c] \/ ctxDone[c]
      <4>1. /\ pc' = [pc EXCEPT ![c] = "hookDLQ"]
            /\ revoking' = [revoking EXCEPT ![c] = owned[c]]
            /\ leaving' = [leaving EXCEPT ![c] = TRUE]
            /\ Forget(c, owned[c])
        BY <2>9, <3>1 DEF AllowRebalance
      <4>2. revoking' \in [Consumers -> SUBSET Partitions]
        BY <4>1
      <4>3. QED
        BY <2>9, <4>1, <4>2, ForgetTypes DEF AllowRebalance
    <3>2. CASE ~(runErr[c] \/ ctxDone[c])
      BY <2>9, <3>2 DEF AllowRebalance
    <3>3. QED
      BY <3>1, <3>2
  <2>10. CASE HookFlushDLQ(c)
    BY <2>10 DEF HookFlushDLQ
  <2>11. CASE HookFlushVerdicts(c)
    BY <2>11 DEF HookFlushVerdicts
  <2>12. CASE HookCommit(c)
    BY <2>12 DEF HookCommit, CommitUncommitted, Claims
  <2>13. CASE HookEnds(c)
    BY <2>13 DEF HookEnds, Release
  <2>14. CASE Lost(c)
    BY <2>14, ForgetTypes DEF Lost, Release
  <2>15. CASE Exit(c)
    BY <2>15 DEF Exit, Nothing, Topics
  <2>16. CASE Restart(c)
    BY <2>16 DEF Restart, NoErrors, Topics
  <2>17. ASSUME NEW r \in Records, Score(c, r) PROVE TypeOK'
    <3>1. todo' \in [Consumers -> SUBSET Records]
      BY <2>17 DEF Score
    <3>2. CASE approved' = approved \cup {r} /\ UNCHANGED pending
      BY <2>17, <3>1, <3>2 DEF Score
    <3>3. CASE /\ pending' = [pending EXCEPT ![c]["verdicts"] = @ \cup {r}]
               /\ UNCHANGED approved
      <4>1. [pending[c] EXCEPT !["verdicts"] = @ \cup {r}] \in [Topics -> SUBSET Records]
        BY DEF Topics
      <4>2. pending' \in [Consumers -> [Topics -> SUBSET Records]]
        BY <3>3, <4>1
      <4>3. QED
        BY <2>17, <3>1, <3>3, <4>2 DEF Score
    <3>4. QED
      BY <2>17, <3>2, <3>3 DEF Score
  <2> HIDE DEF TypeOK
  <2>18. QED
    BY <1>2, <2>1, <2>2, <2>3, <2>4, <2>5, <2>6, <2>7, <2>8, <2>9, <2>10, <2>11, <2>12, <2>13, <2>14, <2>15, <2>16, <2>17 DEF Loop
<1>3. ASSUME NEW c \in Consumers, NEW p \in Partitions, Assign(c, p) PROVE TypeOK'
  BY <1>3 DEF Assign
<1>4. ASSUME NEW c \in Consumers, NEW p \in Partitions, ExpireSession(c, p) PROVE TypeOK'
  BY <1>4 DEF ExpireSession
<1>5. ASSUME NEW c \in Consumers, NEW t \in Topics, NEW r \in Records, Ack(c, t, r)
      PROVE TypeOK'
  BY <1>5 DEF Ack
<1>6. ASSUME NEW c \in Consumers, NEW t \in Topics, NEW r \in Records, PublishFails(c, t, r)
      PROVE TypeOK'
  BY <1>6 DEF PublishFails
<1>7. ASSUME NEW c \in Consumers, NEW parts \in SUBSET Partitions, Revoke(c, parts)
      PROVE TypeOK'
  BY <1>7, ForgetTypes DEF Revoke, PCs
<1>8. ASSUME NEW c \in Consumers, CommitFails(c) PROVE TypeOK'
  BY <1>8 DEF CommitFails, CommitUncommitted, Claims, PCs
<1>9. ASSUME NEW c \in Consumers, HookCommitFails(c) PROVE TypeOK'
  BY <1>9 DEF HookCommitFails, CommitUncommitted, Claims, PCs
<1>10. ASSUME NEW c \in Consumers, Evict(c) PROVE TypeOK'
  BY <1>10 DEF Evict, PCs
<1>11. ASSUME NEW c \in Consumers, Sigterm(c) PROVE TypeOK'
  BY <1>11 DEF Sigterm, PCs
<1>12. ASSUME NEW c \in Consumers, Crash(c) PROVE TypeOK'
  BY <1>12, ForgetTypes DEF Crash, Nothing, Topics, Start, PCs, Stopped
<1>13. ASSUME NEW c \in Consumers, PollEmpty(c) PROVE TypeOK'
  <2>1. PICK fetched \in SUBSET owned[c] : \E watermark \in [fetched -> 0 .. MaxLog] :
           Observe(c, fetched, pos[c], watermark)
    BY <1>13 DEF PollEmpty, Fetch
  <2>2. PICK watermark \in [fetched -> 0 .. MaxLog] : Observe(c, fetched, pos[c], watermark)
    BY <2>1
  <2>3. /\ lastOffset' \in [Consumers -> [Partitions -> NotSeen .. MaxLog - 1]]
        /\ lag' \in [Consumers -> [Partitions -> 0 .. MaxLog]]
    <3>1. fetched \in SUBSET Partitions
      OBVIOUS
    <3>2. \A p \in fetched : pos[c][p] \in 0 .. MaxLog /\ watermark[p] \in 0 .. MaxLog
      BY <3>1
    <3>3. QED
      BY <2>2, <3>1, <3>2, ObserveTypes
  <2>4. QED
    BY <1>13, <2>3 DEF PollEmpty
<1>14. ASSUME NEW c \in Consumers, OtherPublishFails(c) PROVE TypeOK'
  <2>1. failed' \in [Consumers -> [Topics -> BOOLEAN]]
    <3>1. [failed[c] EXCEPT !["verdicts"] = TRUE] \in [Topics -> BOOLEAN]
      OBVIOUS
    <3>2. failed' = [failed EXCEPT ![c] = [failed[c] EXCEPT !["verdicts"] = TRUE]]
      BY <1>14 DEF OtherPublishFails
    <3>3. QED
      BY <3>1, <3>2
  <2>2. QED
    BY <1>14, <2>1 DEF OtherPublishFails, PCs
<1>15. CASE UNCHANGED vars
  BY <1>15 DEF vars
<1>16. QED
  BY <1>1, <1>2, <1>3, <1>4, <1>5, <1>6, <1>7, <1>8, <1>9, <1>10, <1>11, <1>12, <1>13, <1>14,
     <1>15 DEF Next

(* Every reachable state is well typed. *)
THEOREM TypeCorrect == Spec => []TypeOK
BY TypeInit, TypeStep, PTL DEF Spec

----------------------------------------------------------------------------
(* The inductive invariant behind AtLeastOnce.                             *)

(* Nothing is polled or committed beyond the end of the log. *)
WithinLog ==
    \A p \in Partitions :
        committed[p] <= head[p] /\ \A c \in Consumers : pos[c][p] <= head[p]

(* Whatever a process holds, has published or has approved was appended. *)
Held(c) == todo[c] \cup pending[c]["dlq"] \cup pending[c]["verdicts"]
Appended ==
    /\ \A r \in Handled : r[2] < head[r[1]]
    /\ \A c \in Consumers : \A r \in Held(c) : r[2] < head[r[1]]

(* The member whose commits the coordinator accepts is never behind. *)
OwnerIsAhead ==
    \A c \in Consumers : \A p \in Claims(c) : committed[p] <= pos[c][p]

(* A batch is in hand only between a poll and the return of SubmitBatch. *)
BatchInHand ==
    \A c \in Consumers : pc[c] \notin {"decode", "score"} => todo[c] = {}

(* The DLQ was flushed, and nothing failed on it, before the verdicts are. *)
Settled(c, t) == pending[c][t] = {} /\ ~failed[c][t]
FlushedBeforeCommit ==
    \A c \in Consumers :
        pc[c] \in {"flushVerdicts", "hookVerdicts"} \cup Committing => Settled(c, "dlq")

(* A commit is reached only when every polled record has its outcome.  It  *)
(* cannot be said that no verdict failed by then: somebody else's may.     *)
PolledBy(c) == {r \in Records : r[1] \in owned[c] /\ r[2] < pos[c][r[1]]}
HandledBeforeCommit ==
    \A c \in Consumers : pc[c] \in Committing => PolledBy(c) \subseteq Handled

(* A process owns nothing once its client is closed: the hook that Close   *)
(* runs gives up everything.                                               *)
Hook == {"hookDLQ", "hookVerdicts", "hookCommit", "hookEnd"}
OwnsNothingWhenClosed ==
    \A c \in Consumers :
        /\ pc[c] \in Stopped \cup {"returned"} => owned[c] = {}
        /\ leaving[c] /\ pc[c] \in Hook => revoking[c] = owned[c]
        /\ leaving[c] => pc[c] \in Hook \cup Stopped \cup {"returned"}

(* A polled record is handled, in hand, buffered, or covered by a failure  *)
(* that the process will not forget.                                       *)
Accounted(c, r) ==
    \/ r \in Handled
    \/ r \in Held(c)
    \/ failed[c]["dlq"] \/ failed[c]["verdicts"]
PolledIsAccounted ==
    \A c \in Consumers : \A r \in PolledBy(c) : Accounted(c, r)

IInv ==
    /\ TypeOK /\ WithinLog /\ Appended /\ OwnerIsAhead /\ BatchInHand
    /\ FlushedBeforeCommit /\ HandledBeforeCommit /\ OwnsNothingWhenClosed
    /\ PolledIsAccounted /\ AtLeastOnce

----------------------------------------------------------------------------
(* Steps by effect: those that move a process along without touching       *)
(* records or offsets, and those that commit.                              *)

ControlStep(c) ==
    \/ PollEmpty(c) \/ PollCancelled(c) \/ SubmitBatchReturns(c)
    \/ FlushDLQ(c) \/ FlushVerdicts(c) \/ FlushFails(c) \/ AllowRebalance(c)
    \/ HookFlushDLQ(c) \/ HookFlushVerdicts(c) \/ Sigterm(c)
    \/ \E parts \in SUBSET Partitions : Revoke(c, parts)

CommitStep(c) == Commit(c) \/ CommitFails(c) \/ HookCommit(c) \/ HookCommitFails(c)

records == <<todo, pending, failed, durable, approved>>
offsets == <<head, committed, owner, owned, pos>>

LEMMA ControlEffect ==
  ASSUME NEW c \in Consumers, ControlStep(c)
  PROVE  UNCHANGED <<records, offsets>>
BY DEF ControlStep, PollEmpty, PollCancelled, SubmitBatchReturns, FlushDLQ, FlushVerdicts, FlushFails,
       AllowRebalance, HookFlushDLQ, HookFlushVerdicts, Sigterm, Revoke, records, offsets,
       broker, group, publishing

LEMMA CommitEffect ==
  ASSUME NEW c \in Consumers, CommitStep(c)
  PROVE  /\ pc[c] \in Committing
         /\ pc' = [pc EXCEPT ![c] = IF pc[c] = "commit" THEN "allow" ELSE "hookEnd"]
         /\ \E accepted \in SUBSET Claims(c) : CommitUncommitted(c, accepted)
         /\ UNCHANGED <<records, head, owner, owned, pos, revoking, leaving, lastOffset, lag>>
BY DEF CommitStep, Commit, CommitFails, HookCommit, HookCommitFails, CommitUncommitted, Goto,
       Committing, records, group, tracker, publishing

LEMMA ReleaseEffect ==
  ASSUME TypeOK, NEW c \in Consumers, HookEnds(c) \/ Lost(c)
  PROVE  /\ UNCHANGED <<records, head, committed>>
         /\ \A d \in Consumers : owned'[d] \subseteq owned[d] /\ (d # c => owned'[d] = owned[d])
         /\ \A d \in Consumers, p \in Partitions :
               pos'[d][p] = pos[d][p] \/ (pos'[d][p] = 0 /\ p \notin owned'[d])
         /\ \A p \in Partitions : owner'[p] \in {owner[p], None}
<1>1. PICK parts \in SUBSET Partitions : Release(c, parts)
  BY DEF HookEnds, Lost, TypeOK
<1>2. UNCHANGED <<records, head, committed>>
  BY DEF HookEnds, Lost, records, publishing
<1>3. QED
  BY <1>1, <1>2 DEF Release, TypeOK

LEMMA PollEffect ==
  ASSUME TypeOK, NEW c \in Consumers, Poll(c)
  PROVE  /\ pc[c] = "poll" /\ pc' = [pc EXCEPT ![c] = "decode"]
         /\ UNCHANGED <<head, committed, owner, owned, revoking, leaving, pending, failed,
                        durable, approved>>
         /\ \A d \in Consumers : d # c => todo'[d] = todo[d] /\ pos'[d] = pos[d]
         /\ \A p \in Partitions : /\ pos'[c][p] \in Nat /\ pos[c][p] <= pos'[c][p]
                                  /\ pos'[c][p] = pos[c][p] \/ pos'[c][p] <= head[p]
         /\ \A r \in todo'[c] : r \in Records /\ r[2] < head[r[1]]
         /\ \A r \in Records : r[1] \in owned[c] /\ pos[c][r[1]] <= r[2] /\ r[2] < pos'[c][r[1]]
                               => r \in todo'[c]
<1>1. PICK fetched \in SUBSET owned[c] :
         \E next \in [fetched -> 0 .. MaxLog], watermark \in [fetched -> 0 .. MaxLog] :
            PollTakes(c, fetched, next, watermark)
  BY PollPicks
<1>2. PICK next \in [fetched -> 0 .. MaxLog], watermark \in [fetched -> 0 .. MaxLog] :
         PollTakes(c, fetched, next, watermark)
  BY <1>1
<1>3. /\ pc[c] = "poll" /\ pc' = [pc EXCEPT ![c] = "decode"]
      /\ UNCHANGED <<head, committed, owner, owned, revoking, leaving, pending, failed,
                     durable, approved>>
  BY DEF Poll, Fetch, Goto, broker, publishing
<1>4. fetched \subseteq Partitions /\ \A p \in Partitions : pos[c][p] \in Nat /\ head[p] \in Nat
  BY ConstantsAssumption DEF TypeOK
<1>5. \A d \in Consumers : d # c => todo'[d] = todo[d] /\ pos'[d] = pos[d]
  BY <1>2 DEF PollTakes, TypeOK
<1>6. \A p \in Partitions : pos'[c][p] = IF p \in fetched THEN next[p] ELSE pos[c][p]
  BY <1>2 DEF PollTakes, TypeOK
<1>7. \A p \in fetched : next[p] \in Nat /\ pos[c][p] <= next[p] /\ next[p] <= head[p]
  BY <1>2, ConstantsAssumption DEF PollTakes
<1>8. todo'[c] = {r \in Records : /\ r[1] \in fetched
                                  /\ pos[c][r[1]] <= r[2] /\ r[2] < next[r[1]]}
  BY <1>2 DEF PollTakes, TypeOK
<1>9. \A r \in Records : r[1] \in Partitions /\ r[2] \in Nat
  BY ConstantsAssumption DEF Records, Offsets
<1>10. \A r \in todo'[c] : r \in Records /\ r[2] < head[r[1]]
  BY <1>4, <1>7, <1>8, <1>9
<1>11. \A r \in Records : r[1] \in owned[c] /\ pos[c][r[1]] <= r[2] /\ r[2] < pos'[c][r[1]]
                           => r \in todo'[c]
  BY <1>4, <1>6, <1>7, <1>8, <1>9
<1>12. \A p \in Partitions : /\ pos'[c][p] \in Nat /\ pos[c][p] <= pos'[c][p]
                             /\ pos'[c][p] = pos[c][p] \/ pos'[c][p] <= head[p]
  BY <1>4, <1>6, <1>7
<1>13. QED
  BY <1>3, <1>5, <1>10, <1>11, <1>12

LEMMA StepCases ==
  ASSUME Next
  PROVE  \/ \E p \in Partitions : Append(p)
         \/ \E c \in Consumers :
               \/ ControlStep(c) \/ CommitStep(c)
               \/ Poll(c) \/ Decode(c) \/ HookEnds(c) \/ Lost(c)
               \/ Exit(c) \/ Restart(c) \/ Crash(c) \/ Evict(c)
               \/ \E r \in Records : Score(c, r)
               \/ \E p \in Partitions : Assign(c, p) \/ ExpireSession(c, p)
               \/ \E t \in Topics, r \in Records : Ack(c, t, r) \/ PublishFails(c, t, r)
               \/ OtherPublishFails(c)
<1>1. ASSUME NEW c \in Consumers, Loop(c)
      PROVE  \/ ControlStep(c) \/ CommitStep(c)
             \/ Poll(c) \/ Decode(c) \/ HookEnds(c) \/ Lost(c)
             \/ Exit(c) \/ Restart(c)
             \/ \E r \in Records : Score(c, r)
  BY <1>1 DEF Loop, ControlStep, CommitStep
<1>2. QED
  BY <1>1 DEF Next, ControlStep, CommitStep

----------------------------------------------------------------------------
(* Each part of the invariant is kept by every step.                       *)

LEMMA WithinLogStep ==
  ASSUME TypeOK, WithinLog, Next
  PROVE  WithinLog'
<1> SUFFICES ASSUME NEW q \in Partitions, NEW d \in Consumers
             PROVE  (committed[q] <= head[q] /\ pos[d][q] <= head[q])'
  BY ConstantsAssumption DEF WithinLog
<1> DEFINE Bounded == committed[q] <= head[q] /\ pos[d][q] <= head[q]
<1>0. /\ head[q] \in Nat /\ committed[q] \in Nat /\ pos[d][q] \in Nat
      /\ committed[q] <= head[q] /\ pos[d][q] <= head[q]
  <2>1. /\ head[q] \in 0 .. MaxLog /\ committed[q] \in 0 .. MaxLog
        /\ pos[d][q] \in 0 .. MaxLog
    BY DEF TypeOK
  <2>2. committed[q] <= head[q] /\ pos[d][q] <= head[q]
    BY DEF WithinLog
  <2>3. QED
    BY <2>1, <2>2, ConstantsAssumption
<1>1. ASSUME NEW p \in Partitions, Append(p) PROVE Bounded'
  <2>1. head'[q] \in {head[q], head[q] + 1}
    BY <1>1 DEF Append, TypeOK
  <2>2. committed' = committed /\ pos' = pos
    BY <1>1 DEF Append, group
  <2>3. QED
    BY <1>0, <2>1, <2>2
<1>2. ASSUME NEW c \in Consumers, ControlStep(c) PROVE Bounded'
  BY <1>0, <1>2, ControlEffect DEF offsets
<1>3. ASSUME NEW c \in Consumers, CommitStep(c) PROVE Bounded'
  <2>1. UNCHANGED <<head, pos>>
    BY <1>3, CommitEffect
  <2>2. committed'[q] = committed[q] \/ committed'[q] = pos[c][q]
    BY <1>3, CommitEffect DEF CommitUncommitted
  <2>3. pos[c][q] <= head[q]
    BY DEF WithinLog
  <2>4. QED
    BY <1>0, <2>1, <2>2, <2>3
<1>4. ASSUME NEW c \in Consumers, Poll(c) PROVE Bounded'
  <2>1. UNCHANGED <<head, committed>>
    BY <1>4, PollEffect
  <2>2. pos'[d][q] = pos[d][q] \/ pos'[d][q] <= head[q]
    BY <1>4, PollEffect
  <2>3. QED
    BY <1>0, <2>1, <2>2
<1>5. ASSUME NEW c \in Consumers, HookEnds(c) \/ Lost(c) PROVE Bounded'
  <2>1. UNCHANGED <<head, committed>> /\ pos'[d][q] \in {0, pos[d][q]}
    BY <1>5, ReleaseEffect
  <2>2. QED
    BY <1>0, <2>1
<1>6. ASSUME NEW c \in Consumers, Crash(c) PROVE Bounded'
  <2>1. UNCHANGED <<head, committed>>
    BY <1>6 DEF Crash, broker
  <2>2. pos'[d][q] \in {0, pos[d][q]}
    BY <1>6 DEF Crash, Start, TypeOK
  <2>3. QED
    BY <1>0, <2>1, <2>2
<1>7. ASSUME NEW c \in Consumers, NEW p \in Partitions, Assign(c, p)
      PROVE  Bounded'
  <2>1. UNCHANGED <<head, committed>>
    BY <1>7 DEF Assign
  <2>2. pos'[d][q] \in {committed[q], pos[d][q]}
    BY <1>7 DEF Assign, TypeOK
  <2>3. QED
    BY <1>0, <2>1, <2>2
<1>8. ASSUME NEW c \in Consumers,
             \/ Decode(c) \/ Exit(c) \/ Restart(c) \/ Evict(c)
             \/ \E r \in Records : Score(c, r)
             \/ \E p \in Partitions : ExpireSession(c, p)
             \/ \E t \in Topics, r \in Records : Ack(c, t, r) \/ PublishFails(c, t, r)
             \/ OtherPublishFails(c)
      PROVE  Bounded'
  <2>1. UNCHANGED <<head, committed, pos>>
    BY <1>8 DEF Decode, Exit, Restart, Evict, Score, ExpireSession, Ack, PublishFails,
                OtherPublishFails, broker, group
  <2>2. QED
    BY <1>0, <2>1
<1>9. QED
  BY StepCases, <1>1, <1>2, <1>3, <1>4, <1>5, <1>6, <1>7, <1>8

(* Records are held or handled only if they were before, except by a poll. *)
LEMMA HeldBefore ==
  ASSUME TypeOK, Next, NEW d \in Consumers, NEW r, r \in Handled' \cup Held(d)'
  PROVE  \/ r \in Handled \/ \E c \in Consumers : r \in Held(c)
         \/ Poll(d) /\ r \in todo'[d]
<1> DEFINE Before == r \in Handled \/ \E c \in Consumers : r \in Held(c)
<1>1. ASSUME NEW p \in Partitions, Append(p) PROVE Before
  BY <1>1 DEF Append, publishing, Handled, Held
<1>2. ASSUME NEW c \in Consumers, ControlStep(c) PROVE Before
  BY <1>2, ControlEffect DEF records, Handled, Held
<1>3. ASSUME NEW c \in Consumers, CommitStep(c) PROVE Before
  BY <1>3, CommitEffect DEF records, Handled, Held
<1>4. ASSUME NEW c \in Consumers, Poll(c) PROVE Before \/ (Poll(d) /\ r \in todo'[d])
  <2>1. UNCHANGED <<pending, durable, approved>>
    BY <1>4 DEF Poll, publishing
  <2>2. d # c => todo'[d] = todo[d]
    BY <1>4, PollEffect
  <2>3. CASE d = c
    <3>1. Poll(d) /\ (r \in Handled \/ r \in Held(d) \/ r \in todo'[d])
      BY <1>4, <2>1, <2>3 DEF Handled, Held
    <3>2. QED
      BY <3>1
  <2>4. CASE d # c
    <3>1. r \in Handled \/ r \in Held(d)
      BY <2>1, <2>2, <2>4 DEF Handled, Held
    <3>2. QED
      BY <3>1
  <2>5. QED
    BY <2>3, <2>4
<1>5. ASSUME NEW c \in Consumers, Decode(c) PROVE Before
  <2>1. UNCHANGED <<durable, approved>>
    BY <1>5 DEF Decode
  <2>2. /\ todo'[d] \subseteq todo[d] /\ pending'[d]["verdicts"] = pending[d]["verdicts"]
        /\ pending'[d]["dlq"] \subseteq pending[d]["dlq"] \cup todo[d]
    BY <1>5 DEF Decode, TypeOK, Topics
  <2>3. QED
    BY <2>1, <2>2 DEF Handled, Held
<1>6. ASSUME NEW c \in Consumers, NEW x \in Records, Score(c, x) PROVE Before
  <2>1. x \in todo[c] /\ durable' = durable /\ approved' \subseteq approved \cup {x}
    BY <1>6 DEF Score
  <2>2. /\ todo'[d] \subseteq todo[d] /\ pending'[d]["dlq"] = pending[d]["dlq"]
        /\ pending'[d]["verdicts"] \subseteq pending[d]["verdicts"] \cup {x}
    BY <1>6 DEF Score, TypeOK, Topics
  <2>3. r \in Handled \cup Held(d) \cup {x}
    BY <2>1, <2>2 DEF Handled, Held
  <2>4. x \in Held(c)
    BY <2>1 DEF Held
  <2>5. QED
    BY <2>3, <2>4
<1>7. ASSUME NEW c \in Consumers, NEW t \in Topics, NEW x \in Records,
             Ack(c, t, x) \/ PublishFails(c, t, x)
      PROVE  Before
  <2>1. todo' = todo /\ approved' = approved
    BY <1>7 DEF Ack, PublishFails
  <2>2. x \in pending[c][t] /\ \A s \in Topics : durable'[s] \subseteq durable[s] \cup {x}
    BY <1>7 DEF Ack, PublishFails, TypeOK
  <2>3. \A s \in Topics : pending'[d][s] \subseteq pending[d][s]
    <3>1. pending' = [pending EXCEPT ![c][t] = @ \ {x}]
      BY <1>7 DEF Ack, PublishFails
    <3>2. pending \in [Consumers -> [Topics -> SUBSET Records]]
      BY DEF TypeOK
    <3>3. QED
      BY <3>1, <3>2
  <2>4. r \in Handled \cup Held(d) \cup {x}
    BY <2>1, <2>2, <2>3 DEF Handled, Held, Topics
  <2>5. x \in Held(c)
    BY <2>2 DEF Held, Topics
  <2>6. QED
    BY <2>4, <2>5
<1>8. ASSUME NEW c \in Consumers, HookEnds(c) \/ Lost(c) PROVE Before
  BY <1>8, ReleaseEffect DEF records, Handled, Held
<1>9. ASSUME NEW c \in Consumers, Exit(c) \/ Crash(c) PROVE Before
  <2>1. UNCHANGED <<durable, approved>>
    BY <1>9 DEF Exit, Crash
  <2>2. /\ todo'[d] \subseteq todo[d]
        /\ \A s \in Topics : pending'[d][s] \subseteq pending[d][s]
    <3>1. /\ pending' = [pending EXCEPT ![c] = Nothing]
          /\ todo' = todo \/ todo' = [todo EXCEPT ![c] = {}]
      BY <1>9 DEF Exit, Crash
    <3>2. /\ pending \in [Consumers -> [Topics -> SUBSET Records]]
          /\ todo \in [Consumers -> SUBSET Records]
      BY DEF TypeOK
    <3>3. pending'[d] \in {Nothing, pending[d]}
      BY <3>1, <3>2
    <3>4. QED
      BY <3>1, <3>2, <3>3 DEF Nothing
  <2>3. QED
    BY <2>1, <2>2 DEF Handled, Held, Topics
<1>10. ASSUME NEW c \in Consumers,
              \/ Restart(c) \/ Evict(c) \/ OtherPublishFails(c)
              \/ \E p \in Partitions : Assign(c, p) \/ ExpireSession(c, p)
       PROVE  Before
  BY <1>10 DEF Restart, Evict, OtherPublishFails, Assign, ExpireSession, publishing, Handled, Held
<1>11. QED
  BY StepCases, <1>1, <1>2, <1>3, <1>4, <1>5, <1>6, <1>7, <1>8, <1>9, <1>10

(* The log only grows, and so do the outcomes. *)
LEMMA NothingUndone ==
  ASSUME TypeOK, Next
  PROVE  /\ \A p \in Partitions : head[p] <= head'[p]
         /\ Handled \subseteq Handled'
<1>0. \A p \in Partitions : head[p] \in Int
  BY DEF TypeOK
<1>1. ASSUME NEW p \in Partitions, Append(p)
      PROVE  (\A q \in Partitions : head[q] <= head'[q]) /\ Handled \subseteq Handled'
  <2>1. UNCHANGED Handled
    BY <1>1 DEF Append, publishing, Handled
  <2>2. \A q \in Partitions : head'[q] \in {head[q], head[q] + 1}
    BY <1>1 DEF Append, TypeOK
  <2>3. QED
    BY <1>0, <2>1, <2>2
<1>2. ASSUME NEW c \in Consumers, ControlStep(c)
      PROVE  head' = head /\ Handled \subseteq Handled'
  BY <1>2, ControlEffect DEF offsets, records, Handled
<1>3. ASSUME NEW c \in Consumers, CommitStep(c)
      PROVE  head' = head /\ Handled \subseteq Handled'
  BY <1>3, CommitEffect DEF records, Handled
<1>4. ASSUME NEW c \in Consumers, HookEnds(c) \/ Lost(c)
      PROVE  head' = head /\ Handled \subseteq Handled'
  BY <1>4, ReleaseEffect DEF records, Handled
<1>5. ASSUME NEW c \in Consumers,
             \/ Poll(c) \/ Decode(c) \/ Exit(c) \/ Restart(c) \/ Crash(c) \/ Evict(c)
             \/ OtherPublishFails(c)
             \/ \E r \in Records : Score(c, r)
             \/ \E p \in Partitions : Assign(c, p) \/ ExpireSession(c, p)
      PROVE  head' = head /\ Handled \subseteq Handled'
  <2>1. head' = head /\ durable' = durable
    BY <1>5 DEF Poll, Decode, Exit, Restart, Crash, Evict, OtherPublishFails, Score, Assign,
                ExpireSession, broker, publishing
  <2>2. approved \subseteq approved'
    BY <1>5 DEF Poll, Decode, Exit, Restart, Crash, Evict, OtherPublishFails, Score, Assign,
                ExpireSession
  <2>3. QED
    BY <2>1, <2>2 DEF Handled
<1>6. ASSUME NEW c \in Consumers, NEW t \in Topics, NEW r \in Records,
             Ack(c, t, r) \/ PublishFails(c, t, r)
      PROVE  head' = head /\ Handled \subseteq Handled'
  <2>1. head' = head /\ approved' = approved
    BY <1>6 DEF Ack, PublishFails, broker
  <2>2. \A s \in Topics : durable[s] \subseteq durable'[s]
    <3>1. CASE Ack(c, t, r)
      BY <3>1 DEF Ack, TypeOK
    <3>2. CASE PublishFails(c, t, r)
      BY <3>2 DEF PublishFails
    <3>3. QED
      BY <1>6, <3>1, <3>2
  <2>3. QED
    BY <2>1, <2>2 DEF Handled, Topics
<1>7. QED
  BY StepCases, <1>0, <1>1, <1>2, <1>3, <1>4, <1>5, <1>6

LEMMA AppendedStep ==
  ASSUME TypeOK, WithinLog, Appended, Next
  PROVE  Appended'
<1> SUFFICES ASSUME NEW d \in Consumers, NEW r, r \in Handled' \cup Held(d)'
             PROVE  r[2] < head'[r[1]]
  BY ConstantsAssumption DEF Appended
<1>1. r \in Records /\ r[2] < head[r[1]]
  <2>1. CASE r \in Handled
    BY <2>1 DEF Appended, Handled, TypeOK, Topics
  <2>2. ASSUME NEW c \in Consumers, r \in Held(c) PROVE r \in Records /\ r[2] < head[r[1]]
    BY <2>2 DEF Appended, Held, TypeOK, Topics
  <2>3. CASE Poll(d) /\ r \in todo'[d]
    BY <2>3, PollEffect
  <2>4. QED
    BY HeldBefore, <2>1, <2>2, <2>3
<1>2. r[1] \in Partitions /\ r[2] \in Int
  BY <1>1 DEF Records, Offsets
<1>3. head[r[1]] <= head'[r[1]]
  BY <1>2, NothingUndone
<1>4. head[r[1]] \in Int /\ head'[r[1]] \in Int
  BY <1>2, TypeStep DEF TypeOK
<1>5. QED
  BY <1>1, <1>2, <1>3, <1>4

LEMMA OwnerIsAheadStep ==
  ASSUME TypeOK, OwnerIsAhead, Next
  PROVE  OwnerIsAhead'
<1> DEFINE Ahead(d, q) == q \in owned[d] /\ owner[q] = d => committed[q] <= pos[d][q]
<1> SUFFICES ASSUME NEW d \in Consumers, NEW q \in Partitions
             PROVE  Ahead(d, q)'
  BY TypeStep DEF OwnerIsAhead, Claims, TypeOK
<1>0. /\ Ahead(d, q) /\ committed[q] \in Int
      /\ \A e \in Consumers : pos[e][q] \in Int /\ owned[e] \subseteq Partitions
      /\ d # None
  BY ConstantsAssumption DEF OwnerIsAhead, Claims, TypeOK
<1>1. ASSUME NEW p \in Partitions, Append(p) PROVE Ahead(d, q)'
  BY <1>0, <1>1 DEF Append, group
<1>2. ASSUME NEW c \in Consumers, ControlStep(c) PROVE Ahead(d, q)'
  BY <1>0, <1>2, ControlEffect DEF offsets
<1>3. ASSUME NEW c \in Consumers, CommitStep(c) PROVE Ahead(d, q)'
  <2>1. UNCHANGED <<owner, owned, pos>>
    BY <1>3, CommitEffect
  <2>2. committed'[q] = committed[q] \/ (owner[q] = c /\ committed'[q] = pos[c][q])
    BY <1>3, CommitEffect DEF CommitUncommitted, Claims
  <2>3. QED
    BY <1>0, <2>1, <2>2
<1>4. ASSUME NEW c \in Consumers, Poll(c) PROVE Ahead(d, q)'
  <2>1. UNCHANGED <<owner, committed, owned>>
    BY <1>4, PollEffect
  <2>2. q \in owned[d] => pos[d][q] <= pos'[d][q] /\ pos'[d][q] \in Int
    <3>1. CASE d = c
      BY <1>4, <3>1, PollEffect
    <3>2. CASE d # c
      BY <1>0, <1>4, <3>2, PollEffect
    <3>3. QED
      BY <3>1, <3>2
  <2>3. QED
    BY <1>0, <2>1, <2>2
<1>5. ASSUME NEW c \in Consumers, HookEnds(c) \/ Lost(c) PROVE Ahead(d, q)'
  <2>1. committed' = committed /\ owned'[d] \subseteq owned[d] /\ owner'[q] \in {owner[q], None}
    BY <1>5, ReleaseEffect
  <2>2. pos'[d][q] = pos[d][q] \/ q \notin owned'[d]
    BY <1>5, ReleaseEffect
  <2>3. QED
    BY <1>0, <2>1, <2>2
<1>6. ASSUME NEW c \in Consumers, Crash(c) PROVE Ahead(d, q)'
  <2>1. UNCHANGED <<owner, committed>>
    BY <1>6 DEF Crash, broker
  <2>2. d = c => owned'[d] = {}
    BY <1>6 DEF Crash, TypeOK
  <2>3. d # c => owned'[d] = owned[d] /\ pos'[d] = pos[d]
    BY <1>6 DEF Crash, TypeOK
  <2>4. QED
    BY <1>0, <2>1, <2>2, <2>3
<1>7. ASSUME NEW c \in Consumers, Evict(c) \/ \E p \in Partitions : ExpireSession(c, p)
      PROVE  Ahead(d, q)'
  <2>1. UNCHANGED <<committed, owned, pos>>
    BY <1>7 DEF Evict, ExpireSession, group
  <2>2. owner'[q] \in {owner[q], None}
    BY <1>7 DEF Evict, ExpireSession, TypeOK
  <2>3. QED
    BY <1>0, <2>1, <2>2
<1>8. ASSUME NEW c \in Consumers, NEW p \in Partitions, Assign(c, p) PROVE Ahead(d, q)'
  <2>1. committed' = committed
    BY <1>8 DEF Assign
  <2>2. CASE p = q
    <3>1. owner'[q] = c
      BY <1>8, <2>2 DEF Assign, TypeOK
    <3>2. pos'[c][q] = committed[q]
      BY <1>8, <2>2 DEF Assign, TypeOK
    <3>3. QED
      BY <1>0, <2>1, <3>1, <3>2
  <2>3. CASE p # q
    <3>1. owner'[q] = owner[q] /\ pos'[d][q] = pos[d][q]
      BY <1>8, <2>3 DEF Assign, TypeOK
    <3>2. q \in owned'[d] => q \in owned[d]
      BY <1>8, <2>3 DEF Assign, TypeOK
    <3>3. QED
      BY <1>0, <2>1, <3>1, <3>2
  <2>4. QED
    BY <2>2, <2>3
<1>9. ASSUME NEW c \in Consumers,
             \/ Decode(c) \/ Exit(c) \/ Restart(c)
             \/ \E r \in Records : Score(c, r)
             \/ \E t \in Topics, r \in Records : Ack(c, t, r) \/ PublishFails(c, t, r)
             \/ OtherPublishFails(c)
      PROVE  Ahead(d, q)'
  <2>1. UNCHANGED <<owner, committed, owned, pos>>
    BY <1>9 DEF Decode, Exit, Restart, Score, Ack, PublishFails, OtherPublishFails, broker, group
  <2>2. QED
    BY <1>0, <2>1
<1>10. QED
  BY StepCases, <1>1, <1>2, <1>3, <1>4, <1>5, <1>6, <1>7, <1>8, <1>9

(* Only Poll fills todo, and it leads to "decode". *)
LEMMA BatchInHandStep ==
  ASSUME TypeOK, BatchInHand, Next
  PROVE  BatchInHand'
<1> DEFINE InHand(d) == pc[d] \notin {"decode", "score"} => todo[d] = {}
<1> SUFFICES ASSUME NEW d \in Consumers PROVE InHand(d)'
  BY DEF BatchInHand
<1>0. InHand(d)
  BY DEF BatchInHand
<1>1. ASSUME NEW p \in Partitions, Append(p) PROVE InHand(d)'
  BY <1>0, <1>1 DEF Append
<1>2. ASSUME NEW c \in Consumers, ControlStep(c) PROVE InHand(d)'
  <2>1. todo' = todo
    BY <1>2, ControlEffect DEF records
  <2>2. pc'[d] = pc[d] \/ (d = c /\ pc[d] \notin {"decode", "score"})
        \/ (d = c /\ todo[d] = {})
    BY <1>2 DEF ControlStep, PollEmpty, PollCancelled, SubmitBatchReturns, FlushDLQ, FlushVerdicts,
                FlushFails, AllowRebalance, HookFlushDLQ, HookFlushVerdicts, Sigterm, Revoke,
                Goto, TypeOK
  <2>3. QED
    BY <1>0, <2>1, <2>2
<1>3. ASSUME NEW c \in Consumers, CommitStep(c) PROVE InHand(d)'
  <2>1. todo' = todo /\ pc[c] \in {"commit", "hookCommit"}
    BY <1>3, CommitEffect DEF Committing, records
  <2>2. d # c => pc'[d] = pc[d]
    BY <1>3, CommitEffect DEF TypeOK
  <2>3. QED
    BY <1>0, <2>1, <2>2
<1>4. ASSUME NEW c \in Consumers,
             Poll(c) \/ Decode(c) \/ HookEnds(c) \/ Exit(c) \/ Restart(c) \/ Crash(c)
      PROVE  InHand(d)'
  <2>1. CASE d = c
    <3>1. CASE Poll(c) \/ Decode(c)
      BY <2>1, <3>1 DEF Poll, Decode, Goto, TypeOK
    <3>2. CASE HookEnds(c) \/ Exit(c) \/ Restart(c)
      BY <1>0, <2>1, <3>2 DEF HookEnds, Exit, Restart, Stopped
    <3>3. CASE Crash(c)
      BY <2>1, <3>3 DEF Crash, TypeOK
    <3>4. QED
      BY <1>4, <3>1, <3>2, <3>3
  <2>2. CASE d # c
    <3>1. PICK label : pc' = [pc EXCEPT ![c] = label]
      BY <1>4 DEF Poll, Decode, HookEnds, Exit, Restart, Crash, Goto
    <3>2. todo'[d] = todo[d]
      <4>0. CASE Poll(c)
        BY <2>2, <4>0, PollEffect
      <4>1. CASE Decode(c) \/ Crash(c)
        BY <2>2, <4>1 DEF Decode, Crash, TypeOK
      <4>2. CASE HookEnds(c) \/ Exit(c) \/ Restart(c)
        BY <4>2 DEF HookEnds, Exit, Restart
      <4>3. QED
        BY <1>4, <4>0, <4>1, <4>2
    <3>3. QED
      BY <1>0, <2>2, <3>1, <3>2 DEF TypeOK
  <2>3. QED
    BY <2>1, <2>2
<1>5. ASSUME NEW c \in Consumers, NEW r \in Records, Score(c, r) PROVE InHand(d)'
  BY <1>0, <1>5 DEF Score, TypeOK
<1>6. ASSUME NEW c \in Consumers,
             \/ Lost(c) \/ Evict(c)
             \/ \E p \in Partitions : Assign(c, p) \/ ExpireSession(c, p)
             \/ \E t \in Topics, r \in Records : Ack(c, t, r) \/ PublishFails(c, t, r)
             \/ OtherPublishFails(c)
      PROVE  InHand(d)'
  BY <1>0, <1>6 DEF Lost, Evict, Assign, ExpireSession, Ack, PublishFails, OtherPublishFails
<1>7. QED
  BY StepCases, <1>1, <1>2, <1>3, <1>4, <1>5, <1>6

(* The failure of a verdict that is not the consumer's leaves one mark.    *)
LEMMA OtherPublishEffect ==
  ASSUME TypeOK, NEW c \in Consumers, OtherPublishFails(c)
  PROVE  /\ UNCHANGED <<broker, pc, group, todo, pending, durable, approved>>
         /\ \A d \in Consumers, s \in Topics : failed[d][s] => failed'[d][s]
         /\ \A d \in Consumers : failed'[d]["dlq"] = failed[d]["dlq"]
BY DEF OtherPublishFails, TypeOK, Topics

(* What a publish settling does to the buffers: only topic t of process c  *)
(* changes, and it held r.                                                 *)
LEMMA PublishEffect ==
  ASSUME TypeOK, NEW c \in Consumers, NEW t \in Topics, NEW r \in Records,
         Ack(c, t, r) \/ PublishFails(c, t, r)
  PROVE  /\ UNCHANGED <<broker, pc, group, todo, approved>>
         /\ r \in pending[c][t]
         /\ \A d \in Consumers, s \in Topics :
               d # c \/ s # t => pending'[d][s] = pending[d][s] /\ failed'[d][s] = failed[d][s]
         /\ pending'[c][t] = pending[c][t] \ {r}
         /\ IF Ack(c, t, r)
            THEN failed' = failed /\ durable'[t] = durable[t] \cup {r}
            ELSE failed'[c][t]
<1>1. /\ UNCHANGED <<broker, pc, group, todo, approved>>
      /\ r \in pending[c][t]
      /\ pending' = [pending EXCEPT ![c][t] = @ \ {r}]
      /\ failed' = failed \/ failed' = [failed EXCEPT ![c][t] = TRUE]
  BY DEF Ack, PublishFails
<1>2. /\ pending \in [Consumers -> [Topics -> SUBSET Records]]
      /\ failed \in [Consumers -> [Topics -> BOOLEAN]]
      /\ durable \in [Topics -> SUBSET Records]
  BY DEF TypeOK
<1>3. /\ \A d \in Consumers, s \in Topics :
            d # c \/ s # t => pending'[d][s] = pending[d][s] /\ failed'[d][s] = failed[d][s]
      /\ pending'[c][t] = pending[c][t] \ {r}
  BY <1>1, <1>2
<1>4. CASE Ack(c, t, r)
  <2>1. failed' = failed /\ durable'[t] = durable[t] \cup {r}
    BY <1>2, <1>4 DEF Ack
  <2>2. QED
    BY <1>1, <1>3, <1>4, <2>1
<1>5. CASE ~Ack(c, t, r)
  <2>1. failed' = [failed EXCEPT ![c][t] = TRUE]
    BY <1>5 DEF PublishFails
  <2>2. failed'[c][t]
    BY <1>2, <2>1
  <2>3. QED
    BY <1>1, <1>3, <1>5, <2>2
<1>6. QED
  BY <1>4, <1>5

LEMMA FlushedBeforeCommitStep ==
  ASSUME TypeOK, FlushedBeforeCommit, Next
  PROVE  FlushedBeforeCommit'
<1> DEFINE Past(d) == pc[d] \in {"flushVerdicts", "commit", "hookVerdicts", "hookCommit"}
           Flushed(d) == Past(d) => Settled(d, "dlq")
<1> SUFFICES ASSUME NEW d \in Consumers PROVE Flushed(d)'
  BY DEF FlushedBeforeCommit, Committing
<1>0. Flushed(d)
  BY DEF FlushedBeforeCommit, Committing
<1>1. ASSUME NEW p \in Partitions, Append(p) PROVE Flushed(d)'
  BY <1>0, <1>1 DEF Append, publishing, Settled
<1>2. ASSUME NEW c \in Consumers, ControlStep(c) PROVE Flushed(d)'
  <2>1. pending' = pending /\ failed' = failed
    BY <1>2, ControlEffect DEF records
  <2>2. CASE d # c
    <3>1. pc'[d] = pc[d]
      BY <1>2, <2>2 DEF ControlStep, PollEmpty, PollCancelled, SubmitBatchReturns, FlushDLQ,
            FlushVerdicts, FlushFails, AllowRebalance, HookFlushDLQ, HookFlushVerdicts,
            Sigterm, Revoke, Goto, TypeOK
    <3>2. QED
      BY <1>0, <2>1, <3>1 DEF Settled
  <2>3. CASE d = c /\ (FlushDLQ(c) \/ HookFlushDLQ(c))
    BY <2>1, <2>3 DEF FlushDLQ, HookFlushDLQ, FlushOK, Drained, Check, Settled, Goto, TypeOK
  <2>4. CASE d = c /\ (FlushVerdicts(c) \/ HookFlushVerdicts(c))
    BY <1>0, <2>1, <2>4 DEF FlushVerdicts, HookFlushVerdicts, FlushOK, Drained, Check, Settled,
                            Goto, TypeOK
  <2>5. CASE d = c /\ (Sigterm(c) \/ PollEmpty(c))
    BY <1>0, <2>1, <2>5 DEF Sigterm, PollEmpty, Settled
  <2>6. CASE /\ d = c
             /\ \/ PollCancelled(c) \/ SubmitBatchReturns(c) \/ FlushFails(c)
                \/ AllowRebalance(c) \/ \E parts \in SUBSET Partitions : Revoke(c, parts)
    <3>1. pc'[d] \in {"allow", "flushDLQ", "hookDLQ", "poll"}
      BY <2>6 DEF PollCancelled, SubmitBatchReturns, FlushFails, AllowRebalance, Revoke, Goto,
                  TypeOK
    <3>2. QED
      BY <3>1
  <2>7. QED
    BY <1>2, <2>2, <2>3, <2>4, <2>5, <2>6 DEF ControlStep
<1>3. ASSUME NEW c \in Consumers, CommitStep(c) PROVE Flushed(d)'
  <2>1. pending' = pending /\ failed' = failed
    BY <1>3, CommitEffect DEF records
  <2>2. IF d = c THEN pc'[d] \in {"allow", "hookEnd"} ELSE pc'[d] = pc[d]
    BY <1>3, CommitEffect DEF TypeOK
  <2>3. QED
    BY <1>0, <2>1, <2>2 DEF Settled
<1>4. ASSUME NEW c \in Consumers,
             \/ Poll(c) \/ Decode(c) \/ HookEnds(c) \/ Exit(c) \/ Restart(c) \/ Crash(c)
      PROVE  Flushed(d)'
  <2>1. PICK label \in {"decode", "score", "poll", "returned"} \cup Stopped :
           pc' = [pc EXCEPT ![c] = label]
    BY <1>4 DEF Poll, Decode, HookEnds, Exit, Restart, Crash, Goto, Stopped
  <2>2. CASE d = c
    BY <2>1, <2>2 DEF Stopped, TypeOK
  <2>3. CASE d # c
    <3>1. pc'[d] = pc[d]
      BY <2>1, <2>3 DEF TypeOK
    <3>2. pending'[d] = pending[d] /\ failed'[d] = failed[d]
      BY <1>4, <2>3 DEF Poll, Decode, HookEnds, Exit, Restart, Crash, publishing, TypeOK
    <3>3. QED
      BY <1>0, <3>1, <3>2 DEF Settled
  <2>4. QED
    BY <2>2, <2>3
<1>5. ASSUME NEW c \in Consumers, NEW r \in Records, Score(c, r) PROVE Flushed(d)'
  <2>1. pc' = pc /\ failed' = failed /\ pc[c] = "score"
    BY <1>5 DEF Score
  <2>2. d # c => pending'[d] = pending[d]
    BY <1>5 DEF Score, TypeOK
  <2>3. QED
    BY <1>0, <2>1, <2>2 DEF Settled
<1>6. ASSUME NEW c \in Consumers, NEW t \in Topics, NEW r \in Records,
             Ack(c, t, r) \/ PublishFails(c, t, r)
      PROVE  Flushed(d)'
  <2>1. pc' = pc /\ r \in pending[c][t]
    BY <1>6, PublishEffect
  <2>2. ASSUME NEW s \in Topics, Settled(d, s) PROVE Settled(d, s)'
    <3>1. d # c \/ s # t
      BY <2>1, <2>2 DEF Settled
    <3>2. pending'[d][s] = pending[d][s] /\ failed'[d][s] = failed[d][s]
      BY <1>6, <3>1, PublishEffect
    <3>3. QED
      BY <2>2, <3>2 DEF Settled
  <2>3. QED
    BY <1>0, <2>1, <2>2 DEF Topics
<1>7. ASSUME NEW c \in Consumers,
             Lost(c) \/ Evict(c) \/ \E p \in Partitions : Assign(c, p) \/ ExpireSession(c, p)
      PROVE  Flushed(d)'
  BY <1>0, <1>7 DEF Lost, Evict, Assign, ExpireSession, publishing, Settled
<1>8. ASSUME NEW c \in Consumers, OtherPublishFails(c) PROVE Flushed(d)'
  <2>1. UNCHANGED <<pc, pending>> /\ failed'[d]["dlq"] = failed[d]["dlq"]
    BY <1>8, OtherPublishEffect
  <2>2. QED
    BY <1>0, <2>1 DEF Settled
<1>9. QED
  BY StepCases, <1>1, <1>2, <1>3, <1>4, <1>5, <1>6, <1>7, <1>8

(* A process enters a commit by a flush of the verdicts that passed, and   *)
(* reads and gives up nothing until the commit is over.                    *)
LEMMA CommitEntered ==
  ASSUME TypeOK, Next, NEW d \in Consumers, pc'[d] \in Committing
  PROVE  \/ pc[d] = pc'[d] /\ owned'[d] = owned[d] /\ pos'[d] = pos[d]
         \/ /\ pc[d] \in {"flushVerdicts", "hookVerdicts"} /\ FlushOK(d, "verdicts")
            /\ UNCHANGED <<records, offsets>>
<1> DEFINE Goal == \/ pc[d] = pc'[d] /\ owned'[d] = owned[d] /\ pos'[d] = pos[d]
                   \/ /\ pc[d] \in {"flushVerdicts", "hookVerdicts"} /\ FlushOK(d, "verdicts")
                      /\ UNCHANGED <<records, offsets>>
<1>0. /\ pc \in [Consumers -> PCs] /\ owned \in [Consumers -> SUBSET Partitions]
      /\ pos \in [Consumers -> [Partitions -> 0 .. MaxLog]]
  BY DEF TypeOK
<1>1. ASSUME NEW p \in Partitions, Append(p) PROVE Goal
  BY <1>1 DEF Append, group
<1>2. ASSUME NEW c \in Consumers, ControlStep(c) PROVE Goal
  <2>1. UNCHANGED <<records, offsets>>
    BY <1>2, ControlEffect
  <2>2. CASE d = c /\ (FlushVerdicts(c) \/ HookFlushVerdicts(c))
    BY <2>1, <2>2 DEF FlushVerdicts, HookFlushVerdicts, FlushOK, Goto, Committing, TypeOK
  <2>3. CASE d = c /\ ~FlushVerdicts(c) /\ ~HookFlushVerdicts(c)
    <3>1. pc' = pc \/ \E label \in PCs \ Committing : pc' = [pc EXCEPT ![c] = label]
      BY <1>2, <2>3 DEF ControlStep, PollEmpty, PollCancelled, SubmitBatchReturns, FlushDLQ,
         FlushFails, AllowRebalance, HookFlushDLQ, Sigterm, Revoke, Goto, PCs, Stopped, Committing
    <3>2. pc'[d] = pc[d]
      BY <1>0, <2>3, <3>1
    <3>3. QED
      BY <2>1, <3>2 DEF offsets
  <2>4. CASE d # c
    <3>1. pc'[d] = pc[d]
      BY <1>2, <2>4 DEF ControlStep, PollEmpty, PollCancelled, SubmitBatchReturns, FlushDLQ,
            FlushVerdicts, FlushFails, AllowRebalance, HookFlushDLQ, HookFlushVerdicts,
            Sigterm, Revoke, Goto, TypeOK
    <3>2. QED
      BY <2>1, <3>1 DEF offsets
  <2>5. QED
    BY <2>2, <2>3, <2>4
<1>3. ASSUME NEW c \in Consumers, CommitStep(c) PROVE Goal
  <2>1. /\ pc' = [pc EXCEPT ![c] = IF pc[c] = "commit" THEN "allow" ELSE "hookEnd"]
        /\ UNCHANGED <<owned, pos>>
    BY <1>3, CommitEffect
  <2>2. pc'[d] = pc[d]
    BY <1>0, <2>1 DEF Committing
  <2>3. QED
    BY <2>1, <2>2
<1>4. ASSUME NEW c \in Consumers,
             \/ Poll(c) \/ Decode(c) \/ HookEnds(c) \/ Lost(c)
             \/ Exit(c) \/ Restart(c) \/ Crash(c)
             \/ \E p \in Partitions : Assign(c, p)
      PROVE  Goal
  <2>1. \/ pc' = pc /\ pc[c] = "poll"
        \/ \E label \in PCs \ Committing : pc' = [pc EXCEPT ![c] = label]
    BY <1>4 DEF Poll, Decode, HookEnds, Lost, Exit, Restart, Crash, Assign, Goto, PCs, Stopped,
                Committing
  <2>2. pc'[d] = pc[d] /\ d # c
    BY <1>0, <2>1 DEF Committing
  <2>3. owned'[d] = owned[d] /\ pos'[d] = pos[d]
    <3>1. CASE Poll(c)
      BY <2>2, <3>1, PollEffect
    <3>2. CASE ~Poll(c)
      BY <1>0, <1>4, <2>2, <3>2 DEF Decode, HookEnds, Lost, Release, Exit, Restart, Crash, Assign,
                                    group
    <3>3. QED
      BY <3>1, <3>2
  <2>4. QED
    BY <2>2, <2>3
<1>5. ASSUME NEW c \in Consumers,
             \/ Evict(c) \/ OtherPublishFails(c)
             \/ \E r \in Records : Score(c, r)
             \/ \E p \in Partitions : ExpireSession(c, p)
             \/ \E t \in Topics, r \in Records : Ack(c, t, r) \/ PublishFails(c, t, r)
      PROVE  Goal
  BY <1>5 DEF Evict, OtherPublishFails, Score, ExpireSession, Ack, PublishFails, group
<1>6. QED
  BY StepCases, <1>1, <1>2, <1>3, <1>4, <1>5

LEMMA HandledBeforeCommitStep ==
  ASSUME IInv, Next
  PROVE  HandledBeforeCommit'
<1> USE DEF IInv
<1> SUFFICES ASSUME NEW d \in Consumers, pc'[d] \in Committing,
                    NEW r \in Records, r[1] \in owned'[d], r[2] < pos'[d][r[1]]
             PROVE  r \in Handled'
  BY DEF HandledBeforeCommit, PolledBy
<1>1. CASE pc[d] = pc'[d] /\ owned'[d] = owned[d] /\ pos'[d] = pos[d]
  <2>1. r \in Handled
    BY <1>1 DEF HandledBeforeCommit, PolledBy
  <2>2. QED
    BY <2>1, NothingUndone
<1>2. CASE /\ pc[d] \in {"flushVerdicts", "hookVerdicts"} /\ FlushOK(d, "verdicts")
           /\ UNCHANGED <<records, offsets>>
  <2>1. Accounted(d, r)
    BY <1>2 DEF offsets, PolledIsAccounted, PolledBy
  <2>2. Settled(d, "dlq") /\ Settled(d, "verdicts") /\ todo[d] = {}
    BY <1>2 DEF FlushedBeforeCommit, FlushOK, Drained, Check, Settled, BatchInHand
  <2>3. r \in Handled
    BY <2>1, <2>2 DEF Accounted, Held, Settled
  <2>4. QED
    BY <2>3, NothingUndone
<1>3. QED
  BY <1>1, <1>2, CommitEntered

LEMMA OwnsNothingWhenClosedStep ==
  ASSUME TypeOK, OwnsNothingWhenClosed, Next
  PROVE  OwnsNothingWhenClosed'
<1> DEFINE Gone(d) == pc[d] \in Stopped \cup {"returned"}
           InHook(d) == pc[d] \in Hook
           Closed(d) == /\ Gone(d) => owned[d] = {}
                        /\ leaving[d] /\ InHook(d) => revoking[d] = owned[d]
                        /\ leaving[d] => InHook(d) \/ Gone(d)
<1> SUFFICES ASSUME NEW d \in Consumers PROVE Closed(d)'
  BY DEF OwnsNothingWhenClosed
<1>0. Closed(d)
  BY DEF OwnsNothingWhenClosed
<1>1. ASSUME NEW p \in Partitions, Append(p) PROVE Closed(d)'
  BY <1>0, <1>1 DEF Append, group
<1>2. ASSUME NEW c \in Consumers, ControlStep(c) PROVE Closed(d)'
  <2>1. owned' = owned
    BY <1>2, ControlEffect DEF offsets
  <2>2. CASE d # c
    <3>1. pc'[d] = pc[d] /\ leaving'[d] = leaving[d] /\ revoking'[d] = revoking[d]
      BY <1>2, <2>2 DEF ControlStep, PollEmpty, PollCancelled, SubmitBatchReturns, FlushDLQ,
            FlushVerdicts, FlushFails, AllowRebalance, HookFlushDLQ, HookFlushVerdicts,
            Sigterm, Revoke, Goto, group, TypeOK
    <3>2. QED
      BY <1>0, <2>1, <3>1
  <2>3. CASE d = c /\ AllowRebalance(c)
    <3>1. CASE pc'[d] = "hookDLQ" /\ revoking'[d] = owned[d]
      BY <2>1, <3>1 DEF Hook, Stopped
    <3>2. CASE pc[d] = "allow" /\ pc'[d] = "poll" /\ leaving'[d] = leaving[d]
      BY <1>0, <2>1, <3>2 DEF Hook, Stopped
    <3>3. QED
      BY <2>3, <3>1, <3>2 DEF AllowRebalance, Goto, TypeOK
  <2>4. CASE d = c /\ \E parts \in SUBSET Partitions : Revoke(c, parts)
    <3>1. pc[d] = "poll" /\ pc'[d] = "hookDLQ" /\ leaving'[d] = leaving[d]
      BY <2>4 DEF Revoke, Goto, TypeOK
    <3>2. QED
      BY <1>0, <2>1, <3>1 DEF Hook, Stopped
  <2>5. CASE /\ d = c
             /\ \/ PollCancelled(c) \/ SubmitBatchReturns(c) \/ FlushDLQ(c) \/ FlushVerdicts(c)
                \/ FlushFails(c) \/ HookFlushDLQ(c) \/ HookFlushVerdicts(c)
    <3>1. /\ leaving' = leaving /\ revoking' = revoking
          /\ pc[d] \in Hook <=> pc'[d] \in Hook
          /\ pc[d] \notin Stopped \cup {"returned"} /\ pc'[d] \notin Stopped \cup {"returned"}
      BY <2>5 DEF PollCancelled, SubmitBatchReturns, FlushDLQ, FlushVerdicts, FlushFails,
                  HookFlushDLQ, HookFlushVerdicts, Goto, group, Hook, Stopped, TypeOK
    <3>2. QED
      BY <1>0, <2>1, <3>1
  <2>6. CASE d = c /\ (Sigterm(c) \/ PollEmpty(c))
    BY <1>0, <2>6 DEF Sigterm, PollEmpty, group
  <2>7. QED
    BY <1>2, <2>2, <2>3, <2>4, <2>5, <2>6 DEF ControlStep
<1>3. ASSUME NEW c \in Consumers, CommitStep(c) PROVE Closed(d)'
  <2>1. UNCHANGED <<owned, revoking, leaving>> /\ pc[c] \in {"commit", "hookCommit"}
    BY <1>3, CommitEffect DEF Committing
  <2>2. IF d = c THEN pc'[d] = IF pc[c] = "commit" THEN "allow" ELSE "hookEnd"
                 ELSE pc'[d] = pc[d]
    BY <1>3, CommitEffect DEF TypeOK
  <2>3. QED
    BY <1>0, <2>1, <2>2 DEF Hook, Stopped
<1>4. ASSUME NEW c \in Consumers, Poll(c) \/ Decode(c) PROVE Closed(d)'
  <2>1. UNCHANGED <<owned, revoking, leaving>> /\ pc[c] \in {"poll", "decode"}
    BY <1>4, PollEffect DEF Decode, group
  <2>2. IF d = c THEN pc'[d] \in {"decode", "score"} ELSE pc'[d] = pc[d]
    BY <1>4, PollEffect DEF Decode, Goto, TypeOK
  <2>3. QED
    BY <1>0, <2>1, <2>2 DEF Hook, Stopped
<1>5. ASSUME NEW c \in Consumers, HookEnds(c) PROVE Closed(d)'
  <2>1. leaving' = leaving /\ pc[c] = "hookEnd"
    BY <1>5 DEF HookEnds
  <2>2. CASE d = c /\ leaving[c]
    <3>1. pc'[d] = "returned"
      BY <1>5, <2>2 DEF HookEnds, Goto, TypeOK
    <3>2. revoking[d] = owned[d]
      BY <1>0, <2>1, <2>2 DEF Hook
    <3>3. owned'[d] = {}
      BY <1>5, <2>2, <3>2 DEF HookEnds, Release, TypeOK
    <3>4. QED
      BY <3>1, <3>3 DEF Hook, Stopped
  <2>3. CASE d = c /\ ~leaving[c]
    <3>1. pc'[d] = "poll"
      BY <1>5, <2>3 DEF HookEnds, Goto, TypeOK
    <3>2. QED
      BY <2>1, <2>3, <3>1 DEF Hook, Stopped
  <2>4. CASE d # c
    BY <1>0, <1>5, <2>4 DEF HookEnds, Release, Goto, TypeOK
  <2>5. QED
    BY <2>2, <2>3, <2>4
<1>6. ASSUME NEW c \in Consumers, Lost(c) PROVE Closed(d)'
  <2>1. pc[c] = "poll" /\ pc' = pc /\ leaving' = leaving
    BY <1>6 DEF Lost
  <2>2. CASE d = c
    BY <1>0, <2>1, <2>2 DEF Hook, Stopped
  <2>3. CASE d # c
    BY <1>0, <1>6, <2>1, <2>3 DEF Lost, Release, TypeOK
  <2>4. QED
    BY <2>2, <2>3
<1>7. ASSUME NEW c \in Consumers, Exit(c) \/ Crash(c) \/ Restart(c) PROVE Closed(d)'
  <2>1. CASE d = c /\ Exit(c)
    BY <1>0, <2>1 DEF Exit, group, Goto, Hook, Stopped, TypeOK
  <2>2. CASE d = c /\ Crash(c)
    BY <2>2 DEF Crash, Goto, Hook, Stopped, TypeOK
  <2>3. CASE d = c /\ Restart(c)
    BY <2>3 DEF Restart, Goto, Hook, Stopped, TypeOK
  <2>4. CASE d # c
    BY <1>0, <1>7, <2>4 DEF Exit, Crash, Restart, group, Goto, TypeOK
  <2>5. QED
    BY <1>7, <2>1, <2>2, <2>3, <2>4
<1>8. ASSUME NEW c \in Consumers, NEW p \in Partitions, Assign(c, p) PROVE Closed(d)'
  <2>1. pc[c] = "poll" /\ UNCHANGED <<pc, revoking, leaving>>
    BY <1>8 DEF Assign
  <2>2. d # c => owned'[d] = owned[d]
    BY <1>8 DEF Assign, TypeOK
  <2>3. QED
    BY <1>0, <2>1, <2>2 DEF Hook, Stopped
<1>9. ASSUME NEW c \in Consumers,
             \/ Evict(c)
             \/ \E r \in Records : Score(c, r)
             \/ \E p \in Partitions : ExpireSession(c, p)
             \/ \E t \in Topics, r \in Records : Ack(c, t, r) \/ PublishFails(c, t, r)
             \/ OtherPublishFails(c)
      PROVE  Closed(d)'
  <2>1. UNCHANGED <<pc, group>>
    BY <1>9 DEF Evict, Score, ExpireSession, Ack, PublishFails, OtherPublishFails
  <2>2. QED
    BY <1>0, <2>1 DEF group
<1>10. QED
  BY StepCases, <1>1, <1>2, <1>3, <1>4, <1>5, <1>6, <1>7, <1>8, <1>9

(* A process forgets a failed publish only by restarting. *)
LEMMA FailuresKept ==
  ASSUME TypeOK, Next, NEW d \in Consumers, NEW s \in Topics, failed[d][s]
  PROVE  failed'[d][s] \/ Restart(d)
<1>1. ASSUME NEW p \in Partitions, Append(p) PROVE failed' = failed
  BY <1>1 DEF Append, publishing
<1>2. ASSUME NEW c \in Consumers, ControlStep(c) \/ CommitStep(c) PROVE failed' = failed
  BY <1>2, ControlEffect, CommitEffect DEF records
<1>3. ASSUME NEW c \in Consumers, HookEnds(c) \/ Lost(c) PROVE failed' = failed
  BY <1>3, ReleaseEffect DEF records
<1>4. ASSUME NEW c \in Consumers, NEW t \in Topics, NEW x \in Records,
             Ack(c, t, x) \/ PublishFails(c, t, x)
      PROVE  failed'[d][s]
  <2>1. CASE d # c \/ s # t
    BY <1>4, <2>1, PublishEffect
  <2>2. CASE d = c /\ s = t
    BY <1>4, <2>2, PublishEffect
  <2>3. QED
    BY <2>1, <2>2
<1>5. ASSUME NEW c \in Consumers, OtherPublishFails(c) PROVE failed'[d][s]
  BY <1>5, OtherPublishEffect
<1>6. ASSUME NEW c \in Consumers,
             \/ Poll(c) \/ Decode(c) \/ Exit(c) \/ Crash(c) \/ Evict(c)
             \/ \E x \in Records : Score(c, x)
             \/ \E p \in Partitions : Assign(c, p) \/ ExpireSession(c, p)
      PROVE  failed' = failed
  BY <1>6 DEF Poll, Decode, Exit, Crash, Evict, Score, Assign, ExpireSession, publishing
<1>7. ASSUME NEW c \in Consumers, Restart(c) PROVE failed'[d][s] \/ Restart(d)
  BY <1>7 DEF Restart, TypeOK
<1>8. QED
  BY StepCases, <1>1, <1>2, <1>3, <1>4, <1>5, <1>6, <1>7

(* A record that a process can account for stays accounted for, until the  *)
(* process itself goes away.                                               *)
LEMMA AccountedKept ==
  ASSUME TypeOK, BatchInHand, Next, NEW d \in Consumers, NEW r \in Records, Accounted(d, r),
         ~Exit(d), ~Crash(d), ~Restart(d)
  PROVE  Accounted(d, r)'
<1>1. CASE r \in Handled
  BY <1>1, NothingUndone DEF Accounted
<1>2. CASE failed[d]["dlq"] \/ failed[d]["verdicts"]
  <2>1. failed'[d]["dlq"] \/ failed'[d]["verdicts"]
    BY <1>2, FailuresKept DEF Topics
  <2>2. QED
    BY <2>1 DEF Accounted
<1>3. CASE r \in Held(d)
  <2>1. ASSUME NEW p \in Partitions, Append(p) PROVE Accounted(d, r)'
    BY <1>3, <2>1 DEF Append, publishing, Accounted, Held
  <2>2. ASSUME NEW c \in Consumers, ControlStep(c) \/ CommitStep(c) PROVE Accounted(d, r)'
    BY <1>3, <2>2, ControlEffect, CommitEffect DEF records, Accounted, Held
  <2>3. ASSUME NEW c \in Consumers, HookEnds(c) \/ Lost(c) PROVE Accounted(d, r)'
    BY <1>3, <2>3, ReleaseEffect DEF records, Accounted, Held
  <2>4. ASSUME NEW c \in Consumers, NEW t \in Topics, NEW x \in Records,
               Ack(c, t, x) \/ PublishFails(c, t, x)
        PROVE  Accounted(d, r)'
    <3>1. todo' = todo
      BY <2>4, PublishEffect
    <3>2. CASE r \in todo[d]
      BY <3>1, <3>2 DEF Accounted, Held
    <3>3. ASSUME NEW s \in Topics, r \in pending[d][s] PROVE Accounted(d, r)'
      <4>1. CASE d # c \/ s # t \/ r # x
        <5>1. r \in pending'[d][s]
          BY <2>4, <3>3, <4>1, PublishEffect
        <5>2. QED
          BY <5>1 DEF Accounted, Held, Topics
      <4>2. CASE d = c /\ s = t /\ r = x
        <5>1. CASE Ack(c, t, x)
          <6>1. r \in durable'[t]
            BY <4>2, <5>1, PublishEffect
          <6>2. QED
            BY <6>1 DEF Accounted, Handled, Topics
        <5>2. CASE ~Ack(c, t, x)
          <6>1. failed'[d][t]
            BY <2>4, <4>2, <5>2, PublishEffect
          <6>2. QED
            BY <6>1 DEF Accounted, Topics
        <5>3. QED
          BY <5>1, <5>2
      <4>3. QED
        BY <4>1, <4>2
    <3>4. QED
      BY <1>3, <3>2, <3>3 DEF Held, Topics
  <2>5. ASSUME NEW c \in Consumers, Poll(c) PROVE Accounted(d, r)'
    <3>1. pending' = pending
      BY <2>5, PollEffect
    <3>3. d = c => todo[d] = {}
      BY <2>5, PollEffect DEF BatchInHand
    <3>4. todo[d] \subseteq todo'[d]
      BY <2>5, <3>3, PollEffect
    <3>5. QED
      BY <1>3, <3>1, <3>4 DEF Accounted, Held
  <2>6. ASSUME NEW c \in Consumers, Decode(c) PROVE Accounted(d, r)'
    <3>1. PICK parked \in SUBSET todo[c] :
             /\ todo' = [todo EXCEPT ![c] = @ \ parked]
             /\ pending' = [pending EXCEPT ![c]["dlq"] = @ \cup parked]
      BY <2>6 DEF Decode
    <3>2. /\ todo \in [Consumers -> SUBSET Records]
          /\ pending \in [Consumers -> [Topics -> SUBSET Records]]
          /\ "dlq" \in Topics /\ "verdicts" \in Topics
      BY DEF TypeOK, Topics
    <3>3. Held(d) \subseteq Held(d)'
      BY <3>1, <3>2 DEF Held
    <3>4. QED
      BY <1>3, <3>3 DEF Accounted
  <2>7. ASSUME NEW c \in Consumers, NEW x \in Records, Score(c, x) PROVE Accounted(d, r)'
    <3>1. todo' = [todo EXCEPT ![c] = @ \ {x}]
      BY <2>7 DEF Score
    <3>2. /\ todo \in [Consumers -> SUBSET Records]
          /\ pending \in [Consumers -> [Topics -> SUBSET Records]]
          /\ "dlq" \in Topics /\ "verdicts" \in Topics
      BY DEF TypeOK, Topics
    <3>3. CASE approved' = approved \cup {x} /\ UNCHANGED pending
      <4>1. Held(d) \subseteq Held(d)' \cup {x}
        BY <3>1, <3>2, <3>3 DEF Held
      <4>2. x \in Handled'
        BY <3>3 DEF Handled
      <4>3. QED
        BY <1>3, <4>1, <4>2 DEF Accounted
    <3>4. CASE pending' = [pending EXCEPT ![c]["verdicts"] = @ \cup {x}]
      <4>1. Held(d) \subseteq Held(d)'
        BY <3>1, <3>2, <3>4 DEF Held
      <4>2. QED
        BY <1>3, <4>1 DEF Accounted
    <3>5. QED
      BY <2>7, <3>3, <3>4 DEF Score
  <2>8. ASSUME NEW c \in Consumers, c # d, Exit(c) \/ Crash(c) PROVE Accounted(d, r)'
    <3>1. todo'[d] = todo[d] /\ pending'[d] = pending[d]
      BY <2>8 DEF Exit, Crash, TypeOK
    <3>2. QED
      BY <1>3, <3>1 DEF Accounted, Held
  <2>9. ASSUME NEW c \in Consumers,
               \/ Restart(c) \/ Evict(c) \/ OtherPublishFails(c)
               \/ \E p \in Partitions : Assign(c, p) \/ ExpireSession(c, p)
        PROVE  Accounted(d, r)'
    BY <1>3, <2>9 DEF Restart, Evict, OtherPublishFails, Assign, ExpireSession, publishing,
                      Accounted, Held
  <2>10. QED
    BY StepCases, <2>1, <2>2, <2>3, <2>4, <2>5, <2>6, <2>7, <2>8, <2>9
<1>4. QED
  BY <1>1, <1>2, <1>3 DEF Accounted

LEMMA PolledIsAccountedStep ==
  ASSUME IInv, Next
  PROVE  PolledIsAccounted'
<1> USE DEF IInv
<1> SUFFICES ASSUME NEW d \in Consumers, NEW r \in Records,
                    r[1] \in owned'[d], r[2] < pos'[d][r[1]]
             PROVE  Accounted(d, r)'
  BY DEF PolledIsAccounted, PolledBy
<1> DEFINE Polled == r[1] \in owned[d] /\ r[2] < pos[d][r[1]]
<1>0. r[1] \in Partitions /\ r[2] \in Nat
  BY DEF Records, Offsets
<1>1. owned'[d] # {}
  OBVIOUS
<1>2. ~Exit(d) /\ ~Crash(d) /\ ~Restart(d)
  BY <1>1 DEF Exit, Crash, Restart, group, OwnsNothingWhenClosed, TypeOK
<1>3. CASE Polled
  BY <1>2, <1>3, AccountedKept DEF PolledIsAccounted, PolledBy
<1>4. ASSUME NEW c \in Consumers, NEW p \in Partitions, Assign(c, p), ~Polled
      PROVE  Accounted(d, r)'
  <2>1. d = c /\ r[1] = p
    BY <1>0, <1>4 DEF Assign, TypeOK
  <2>2. pos'[d][r[1]] = committed[r[1]]
    BY <1>4, <2>1 DEF Assign, TypeOK
  <2>3. r \in Handled
    BY <2>2 DEF AtLeastOnce
  <2>4. QED
    BY <2>3, NothingUndone DEF Accounted
<1>5. ASSUME NEW c \in Consumers, Poll(c), ~Polled PROVE Accounted(d, r)'
  <2>1. owned' = owned
    BY <1>5 DEF Poll
  <2>2. d = c
    BY <1>0, <1>5, <2>1, PollEffect
  <2>3. pos'[c][r[1]] \in Int /\ pos[c][r[1]] \in Int
    BY <1>0, <1>5, PollEffect DEF TypeOK
  <2>7. r \in todo'[c]
    BY <1>0, <1>5, <2>1, <2>2, <2>3, PollEffect
  <2>8. QED
    BY <2>2, <2>7 DEF Accounted, Held
<1>6. ASSUME NEW c \in Consumers, HookEnds(c) \/ Lost(c), ~Polled PROVE FALSE
  <2>1. owned'[d] \subseteq owned[d] /\ pos'[d][r[1]] = pos[d][r[1]]
    BY <1>0, <1>6, ReleaseEffect
  <2>2. QED
    BY <1>6, <2>1
<1>7. ASSUME NEW p \in Partitions, Append(p), ~Polled PROVE FALSE
  BY <1>7 DEF Append, group
<1>8. ASSUME NEW c \in Consumers, ControlStep(c) \/ CommitStep(c), ~Polled PROVE FALSE
  BY <1>8, ControlEffect, CommitEffect DEF offsets
<1>9. ASSUME NEW c \in Consumers, c # d, Crash(c), ~Polled PROVE FALSE
  BY <1>9 DEF Crash, TypeOK
<1>10. ASSUME NEW c \in Consumers, ~Polled,
              \/ Decode(c) \/ Exit(c) \/ Restart(c) \/ Evict(c)
              \/ \E x \in Records : Score(c, x)
              \/ \E p \in Partitions : ExpireSession(c, p)
              \/ \E t \in Topics, x \in Records : Ack(c, t, x) \/ PublishFails(c, t, x)
              \/ OtherPublishFails(c)
       PROVE  FALSE
  <2>1. UNCHANGED <<owned, pos>>
    BY <1>10 DEF Decode, Exit, Restart, Evict, Score, ExpireSession, Ack, PublishFails,
                 OtherPublishFails, group
  <2>2. QED
    BY <1>10, <2>1
<1>11. QED
  BY StepCases, <1>2, <1>3, <1>4, <1>5, <1>6, <1>7, <1>8, <1>9, <1>10

(* A committed offset moves only by a commit of the partition's owner,     *)
(* whose polled records all have their outcome.                            *)
LEMMA CommitIsBacked ==
  ASSUME TypeOK, FlushedBeforeCommit, Next, NEW p \in Partitions, committed'[p] # committed[p]
  PROVE  \E c \in Consumers :
            /\ CommitStep(c) /\ owner[p] = c /\ p \in owned[c]
            /\ committed'[p] = pos[c][p]
            /\ Settled(c, "dlq") /\ pc[c] \in Committing
<1>1. \E c \in Consumers : CommitStep(c)
  <2>1. ASSUME NEW q \in Partitions, Append(q) PROVE committed' = committed
    BY <2>1 DEF Append
  <2>2. ASSUME NEW c \in Consumers, ControlStep(c) PROVE committed' = committed
    BY <2>2, ControlEffect DEF offsets
  <2>3. ASSUME NEW c \in Consumers, HookEnds(c) \/ Lost(c) PROVE committed' = committed
    BY <2>3, ReleaseEffect
  <2>4. ASSUME NEW c \in Consumers,
               \/ Poll(c) \/ Decode(c) \/ Exit(c) \/ Restart(c) \/ Crash(c) \/ Evict(c)
               \/ \E x \in Records : Score(c, x)
               \/ \E q \in Partitions : Assign(c, q) \/ ExpireSession(c, q)
               \/ \E t \in Topics, x \in Records : Ack(c, t, x) \/ PublishFails(c, t, x)
               \/ OtherPublishFails(c)
        PROVE  committed' = committed
    BY <2>4 DEF Poll, Decode, Exit, Restart, Crash, Evict, Score, Assign, ExpireSession, Ack,
                PublishFails, OtherPublishFails, broker
  <2>5. QED
    BY StepCases, <2>1, <2>2, <2>3, <2>4
<1>2. PICK c \in Consumers : CommitStep(c)
  BY <1>1
<1>3. p \in Claims(c) /\ committed'[p] = pos[c][p]
  BY <1>2, CommitEffect DEF CommitUncommitted
<1>4. Settled(c, "dlq") /\ pc[c] \in Committing
  BY <1>2, CommitEffect DEF FlushedBeforeCommit
<1>5. QED
  BY <1>2, <1>3, <1>4 DEF Claims

LEMMA AtLeastOnceStep ==
  ASSUME IInv, Next
  PROVE  AtLeastOnce'
<1> USE DEF IInv
<1> SUFFICES ASSUME NEW r \in Records, r[2] < committed'[r[1]]
             PROVE  r \in Handled'
  BY DEF AtLeastOnce
<1>1. r[1] \in Partitions
  BY DEF Records
<1>2. CASE committed'[r[1]] = committed[r[1]]
  BY <1>2, NothingUndone DEF AtLeastOnce
<1>3. CASE committed'[r[1]] # committed[r[1]]
  <2>1. PICK c \in Consumers :
           /\ r[1] \in owned[c] /\ committed'[r[1]] = pos[c][r[1]] /\ pc[c] \in Committing
    BY <1>1, <1>3, CommitIsBacked
  <2>2. r \in Handled
    BY <2>1 DEF HandledBeforeCommit, PolledBy
  <2>3. QED
    BY <2>2, NothingUndone
<1>4. QED
  BY <1>2, <1>3

----------------------------------------------------------------------------
(* The theorems.                                                           *)

LEMMA InvInit == Init => IInv
<1> SUFFICES ASSUME Init PROVE IInv
  OBVIOUS
<1>1. TypeOK
  BY TypeInit
<1>2. /\ \A p \in Partitions : head[p] = 0 /\ committed[p] = 0
      /\ \A c \in Consumers : \A p \in Partitions : pos[c][p] = 0
  BY DEF Init, Start
<1>3. \A c \in Consumers :
         /\ pc[c] = "poll" /\ owned[c] = {} /\ todo[c] = {} /\ ~leaving[c]
         /\ pending[c]["dlq"] = {} /\ pending[c]["verdicts"] = {}
  BY DEF Init, Nothing, Topics
<1>4. Handled = {}
  BY DEF Init, Handled, Nothing, Topics
<1>5. WithinLog
  BY <1>2 DEF WithinLog
<1>6. /\ Appended /\ BatchInHand /\ FlushedBeforeCommit /\ HandledBeforeCommit
      /\ OwnerIsAhead /\ PolledIsAccounted
  BY <1>3, <1>4 DEF Appended, Held, BatchInHand, FlushedBeforeCommit, HandledBeforeCommit,
                    Committing, OwnerIsAhead, Claims, PolledIsAccounted, PolledBy
<1>7. OwnsNothingWhenClosed
  BY <1>3 DEF OwnsNothingWhenClosed, Hook, Stopped
<1>8. AtLeastOnce
  BY <1>2 DEF AtLeastOnce, Records, Offsets
<1>9. QED
  BY <1>1, <1>5, <1>6, <1>7, <1>8 DEF IInv

LEMMA InvStep == IInv /\ [Next]_vars => IInv'
<1> SUFFICES ASSUME IInv, [Next]_vars PROVE IInv'
  OBVIOUS
<1>1. CASE Next
  BY <1>1, TypeStep, WithinLogStep, AppendedStep, OwnerIsAheadStep, BatchInHandStep,
     FlushedBeforeCommitStep, HandledBeforeCommitStep, OwnsNothingWhenClosedStep, PolledIsAccountedStep,
     AtLeastOnceStep DEF IInv
<1>2. CASE UNCHANGED vars
  BY <1>2 DEF vars, broker, group, tracker, publishing, budget, IInv, TypeOK, WithinLog, Appended,
     OwnerIsAhead, Claims, BatchInHand, FlushedBeforeCommit, Settled,
     HandledBeforeCommit, PolledBy, OwnsNothingWhenClosed, PolledIsAccounted, Accounted, Held, Handled, AtLeastOnce
<1>3. QED
  BY <1>1, <1>2

THEOREM Invariance == Spec => []IInv
BY InvInit, InvStep, PTL DEF Spec

(* Delivery is at-least-once, for any number of processes and partitions,  *)
(* any log, and any number of faults: every record below the committed     *)
(* offset has reached an outcome that cannot be lost.                      *)
THEOREM NoRecordLost == Spec => []AtLeastOnce
<1>1. IInv => AtLeastOnce
  BY DEF IInv
<1>2. QED
  BY <1>1, Invariance, PTL

(* After one lost publish a process begins no commit until its restart;    *)
(* one that was already decided when a verdict failed still goes through.  *)
THEOREM CommitsStop == Spec => StopsCommittingForGood
<1> DEFINE Still == \A c \in Consumers, t \in Topics : failed[c][t] =>
                       /\ pc'[c] \in Committing => pc'[c] = pc[c]
                       /\ \/ t = "verdicts" /\ pc[c] \in Committing
                          \/ \A p \in Partitions : owner[p] = c => committed'[p] = committed[p]
                       /\ failed'[c][t] \/ pc[c] \in Stopped
<1>1. IInv /\ [Next]_vars => [Still]_vars
  <2> SUFFICES ASSUME IInv, Next, NEW d \in Consumers, NEW t \in Topics, failed[d][t]
               PROVE  /\ pc'[d] \in Committing => pc'[d] = pc[d]
                      /\ \/ t = "verdicts" /\ pc[d] \in Committing
                         \/ \A p \in Partitions : owner[p] = d => committed'[p] = committed[p]
                      /\ failed'[d][t] \/ pc[d] \in Stopped
    OBVIOUS
  <2>1. ASSUME pc'[d] \in Committing PROVE pc'[d] = pc[d]
    <3>1. t \in {"dlq", "verdicts"}
      BY DEF Topics
    <3>2. CASE pc[d] \in {"flushVerdicts", "hookVerdicts"} /\ FlushOK(d, "verdicts")
      BY <3>1, <3>2 DEF IInv, FlushedBeforeCommit, Settled, FlushOK, Check
    <3>3. QED
      BY <2>1, <3>2, CommitEntered DEF IInv
  <2>2. ASSUME NEW p \in Partitions, owner[p] = d, committed'[p] # committed[p]
        PROVE  t = "verdicts" /\ pc[d] \in Committing
    <3>1. Settled(d, "dlq") /\ pc[d] \in Committing
      BY <2>2, CommitIsBacked DEF IInv
    <3>2. QED
      BY <3>1 DEF Settled, Topics
  <2>3. failed'[d][t] \/ pc[d] \in Stopped
    BY FailuresKept DEF IInv, Restart
  <2>4. QED
    BY <2>1, <2>2, <2>3
<1>2. QED
  BY <1>1, Invariance, PTL DEF Spec, StopsCommittingForGood

(* The consumer implements Delivery: each of its steps appends a record,   *)
(* gives one record its outcome, moves offsets over handled records only,  *)
(* or changes nothing of what the pipeline promises.                       *)
THEOREM ImplementsDelivery == Spec => KeepsPromise
<1>1. Init => Promise!Init
  BY DEF Init, Promise!Init, Start, Handled, Nothing, Topics
<1>2. IInv /\ IInv' /\ [Next]_vars => [Promise!Next]_<<head, committed, Handled>>
  <2> SUFFICES ASSUME IInv, IInv', Next
               PROVE  Promise!Next \/ UNCHANGED <<head, committed, Handled>>
    BY DEF vars, broker, publishing, Handled
  <2>0. \A r \in Records : r \in Promise!Records
    BY DEF Records, Offsets, Promise!Records
  <2>1. ASSUME NEW p \in Partitions, Append(p) PROVE Promise!Next
    BY <2>1 DEF Append, publishing, Handled, Promise!Next, Promise!Append
  <2>2. ASSUME NEW c \in Consumers, CommitStep(c) PROVE Promise!Next
    <3>1. UNCHANGED <<head, Handled>>
      BY <2>2, CommitEffect DEF records, Handled
    <3>2. committed' \in [Partitions -> 0 .. MaxLog]
      BY DEF IInv, TypeOK
    <3>3. ASSUME NEW p \in Partitions
          PROVE  committed[p] <= committed'[p] /\ committed'[p] <= head[p]
      <4>1. committed[p] \in Int
        BY DEF IInv, TypeOK
      <4>2. committed[p] <= committed'[p]
        <5>1. CASE committed'[p] = committed[p]
          BY <4>1, <5>1
        <5>2. CASE committed'[p] # committed[p]
          <6>1. PICK d \in Consumers : p \in Claims(d) /\ committed'[p] = pos[d][p]
            BY <2>2, <5>2, CommitIsBacked DEF IInv, Claims
          <6>2. QED
            BY <6>1 DEF IInv, OwnerIsAhead
        <5>3. QED
          BY <5>1, <5>2
      <4>3. committed'[p] <= head'[p]
        BY DEF IInv, WithinLog
      <4>4. QED
        BY <3>1, <4>2, <4>3
    <3>4. ASSUME NEW r \in Promise!Records, r[2] < committed'[r[1]] PROVE r \in Handled
      BY <3>1, <3>4 DEF IInv, AtLeastOnce, Records, Offsets, Promise!Records
    <3>5. Promise!Commit
      BY <3>1, <3>2, <3>3, <3>4 DEF Promise!Commit
    <3>6. QED
      BY <3>5 DEF Promise!Next
  <2>3. ASSUME NEW c \in Consumers, NEW r \in Records, Score(c, r)
        PROVE  Promise!Next \/ UNCHANGED <<head, committed, Handled>>
    <3>1. head' = head /\ committed' = committed /\ durable' = durable
      BY <2>3 DEF Score, broker
    <3>2. r[2] < head[r[1]]
      BY <2>3 DEF Score, IInv, Appended, Held
    <3>3. CASE approved' = approved \cup {r}
      <4>1. Handled' = Handled \cup {r}
        BY <3>1, <3>3 DEF Handled
      <4>2. Promise!Handle(r)
        BY <3>1, <3>2, <4>1 DEF Promise!Handle
      <4>3. QED
        BY <2>0, <4>2 DEF Promise!Next
    <3>4. CASE approved' = approved
      BY <3>1, <3>4 DEF Handled
    <3>5. QED
      BY <2>3, <3>3, <3>4 DEF Score
  <2>4. ASSUME NEW c \in Consumers, NEW t \in Topics, NEW r \in Records, Ack(c, t, r)
        PROVE  Promise!Next
    <3>1. head' = head /\ committed' = committed /\ approved' = approved
      BY <2>4 DEF Ack, broker
    <3>2. r[2] < head[r[1]]
      BY <2>4 DEF Ack, IInv, Appended, Held, Topics
    <3>3. durable' = [durable EXCEPT ![t] = @ \cup {r}] /\ durable \in [Topics -> SUBSET Records]
      BY <2>4 DEF Ack, IInv, TypeOK
    <3>4. Handled' = Handled \cup {r}
      BY <3>1, <3>3 DEF Handled, Topics
    <3>5. Promise!Handle(r)
      BY <3>1, <3>2, <3>4 DEF Promise!Handle
    <3>6. QED
      BY <2>0, <3>5 DEF Promise!Next
  <2>5. ASSUME NEW c \in Consumers,
               \/ ControlStep(c) \/ Poll(c) \/ Decode(c) \/ HookEnds(c) \/ Lost(c)
               \/ Exit(c) \/ Restart(c) \/ Crash(c) \/ Evict(c)
               \/ \E p \in Partitions : Assign(c, p) \/ ExpireSession(c, p)
               \/ \E t \in Topics, r \in Records : PublishFails(c, t, r)
               \/ OtherPublishFails(c)
        PROVE  UNCHANGED <<head, committed, Handled>>
    <3>1. CASE ControlStep(c)
      BY <3>1, ControlEffect DEF records, offsets, Handled
    <3>2. CASE HookEnds(c) \/ Lost(c)
      BY <3>2, ReleaseEffect DEF IInv, records, Handled
    <3>3. CASE \/ Poll(c) \/ Decode(c) \/ Exit(c) \/ Restart(c) \/ Crash(c) \/ Evict(c)
               \/ \E p \in Partitions : Assign(c, p) \/ ExpireSession(c, p)
               \/ \E t \in Topics, r \in Records : PublishFails(c, t, r)
               \/ OtherPublishFails(c)
      BY <3>3 DEF Poll, Decode, Exit, Restart, Crash, Evict, Assign, ExpireSession,
                  PublishFails, OtherPublishFails, broker, publishing, Handled
    <3>4. QED
      BY <2>5, <3>1, <3>2, <3>3
  <2>6. QED
    BY StepCases, <2>1, <2>2, <2>3, <2>4, <2>5
<1>3. QED
  BY <1>1, <1>2, Invariance, PTL DEF Spec, KeepsPromise, Promise!Spec, Promise!vars
----------------------------------------------------------------------------
(* The lag tracker.  A reported partition is one the process owns and is   *)
(* not giving up, its last offset is the one before the position, and the  *)
(* lag is at most the distance to the head.  Between hooks nothing is      *)
(* being given up.                                                         *)
Tracked(c, p) ==
    lastOffset[c][p] # NotSeen =>
        /\ p \in owned[c] \ revoking[c]
        /\ lastOffset[c][p] + 1 = pos[c][p]
        /\ lag[c][p] <= head[p] - pos[c][p]
RevokesInHook(c) == pc[c] \notin Hook => revoking[c] = {}
LagInv == \A c \in Consumers : RevokesInHook(c) /\ \A p \in Partitions : Tracked(c, p)

(* An observation of fetched partitions that are owned leaves them tracked *)
(* at the new position.                                                    *)
LEMMA ObserveTracks ==
  ASSUME TypeOK, WithinLog, NEW c \in Consumers, \A p \in Partitions : Tracked(c, p),
         RevokesInHook(c), pc[c] = "poll",
         NEW fetched \in SUBSET owned[c], NEW next, NEW watermark,
         \A p \in fetched : /\ next[p] \in Nat /\ watermark[p] \in Nat
                            /\ pos[c][p] <= next[p] /\ next[p] <= head[p]
                            /\ watermark[p] <= head[p],
         Observe(c, fetched, next, watermark),
         UNCHANGED <<head, owned, revoking>>,
         \A p \in Partitions : pos'[c][p] = IF p \in fetched THEN next[p] ELSE pos[c][p],
         NEW q \in Partitions
  PROVE  Tracked(c, q)'
<1>1. /\ head[q] \in Nat /\ pos[c][q] \in Nat /\ lastOffset[c][q] \in Int /\ lag[c][q] \in Nat
      /\ pos[c][q] <= head[q]
  BY ConstantsAssumption DEF TypeOK, WithinLog, NotSeen
<1>2. revoking[c] = {}
  BY DEF RevokesInHook, Hook
<1>3. lastOffset'[c][q] = IF q \in fetched /\ pos[c][q] < next[q] THEN next[q] - 1
                                                                   ELSE lastOffset[c][q]
  BY DEF Observe, TypeOK
<1>4. lag'[c][q] = IF q \notin fetched \/ lastOffset'[c][q] = NotSeen THEN lag[c][q]
                   ELSE IF watermark[q] <= lastOffset'[c][q] THEN 0
                   ELSE watermark[q] - lastOffset'[c][q] - 1
  BY DEF Observe, TypeOK
<1>5. CASE q \in fetched
  <2>1. SUFFICES ASSUME lastOffset'[c][q] # NotSeen
                 PROVE  lastOffset'[c][q] + 1 = pos'[c][q] /\ lag'[c][q] <= head'[q] - pos'[c][q]
    BY <1>2, <1>5 DEF Tracked
  <2>2. lastOffset'[c][q] + 1 = pos'[c][q]
    BY <1>1, <1>3, <1>5, <2>1 DEF Tracked
  <2>3. lag'[c][q] <= head'[q] - pos'[c][q]
    <3>1. /\ head' = head /\ next[q] \in Nat /\ watermark[q] \in Nat
          /\ next[q] <= head[q] /\ watermark[q] <= head[q] /\ pos'[c][q] = next[q]
      BY <1>5
    <3>2. CASE watermark[q] <= lastOffset'[c][q]
      BY <1>1, <1>4, <1>5, <2>1, <3>1, <3>2
    <3>3. CASE ~(watermark[q] <= lastOffset'[c][q])
      <4>1. lastOffset'[c][q] = next[q] - 1
        BY <1>1, <1>3, <2>2, <3>1
      <4>2. lag'[c][q] = watermark[q] - lastOffset'[c][q] - 1
        BY <1>4, <1>5, <2>1, <3>3
      <4>3. QED
        BY <1>1, <3>1, <4>1, <4>2
    <3>4. QED
      BY <3>2, <3>3
  <2>4. QED
    BY <2>2, <2>3
<1>6. CASE q \notin fetched
  BY <1>3, <1>4, <1>6 DEF Tracked
<1>7. QED
  BY <1>5, <1>6

LEMMA PollTracks ==
  ASSUME IInv, LagInv, NEW c \in Consumers, Poll(c) \/ PollEmpty(c), NEW q \in Partitions
  PROVE  Tracked(c, q)'
<1> USE ConstantsAssumption DEF IInv, LagInv
<1>1. CASE Poll(c)
  <2>1. PICK fetched \in SUBSET owned[c] :
           \E next \in [fetched -> 0 .. MaxLog], watermark \in [fetched -> 0 .. MaxLog] :
              PollTakes(c, fetched, next, watermark)
    BY <1>1, PollPicks
  <2>2. PICK next \in [fetched -> 0 .. MaxLog], watermark \in [fetched -> 0 .. MaxLog] :
           PollTakes(c, fetched, next, watermark)
    BY <2>1
  <2>3. /\ Observe(c, fetched, next, watermark)
        /\ \A p \in fetched : /\ next[p] \in Nat /\ watermark[p] \in Nat
                              /\ pos[c][p] <= next[p] /\ next[p] <= head[p]
                              /\ watermark[p] <= head[p]
    BY <2>2 DEF PollTakes
  <2>4. \A p \in Partitions : pos'[c][p] = IF p \in fetched THEN next[p] ELSE pos[c][p]
    BY <2>2 DEF PollTakes, TypeOK
  <2>5. pc[c] = "poll" /\ UNCHANGED <<head, owned, revoking>>
    BY <1>1, PollEffect
  <2>6. QED
    BY <2>3, <2>4, <2>5, ObserveTracks
<1>2. CASE PollEmpty(c)
  <2>1. PICK fetched \in SUBSET owned[c] : \E watermark \in [fetched -> 0 .. MaxLog] :
           Fetch(c, fetched, pos[c], watermark)
    BY <1>2 DEF PollEmpty
  <2>2. PICK watermark \in [fetched -> 0 .. MaxLog] : Fetch(c, fetched, pos[c], watermark)
    BY <2>1
  <2>3. fetched \subseteq Partitions /\ \A p \in Partitions : pos[c][p] \in Nat
    BY DEF TypeOK
  <2>4. /\ Observe(c, fetched, pos[c], watermark) /\ pc[c] = "poll"
        /\ \A p \in fetched : /\ pos[c][p] \in Nat /\ watermark[p] \in Nat
                              /\ pos[c][p] <= pos[c][p] /\ pos[c][p] <= head[p]
                              /\ watermark[p] <= head[p]
    BY <2>2, <2>3 DEF Fetch
  <2>5. UNCHANGED <<head, owned, revoking, pos>>
    BY <1>2 DEF PollEmpty, broker
  <2>6. QED
    BY <2>4, <2>5, ObserveTracks
<1>3. QED
  BY <1>1, <1>2

(* What was forgotten is not tracked, and the rest is as before. *)
LEMMA ForgetTracks ==
  ASSUME TypeOK, NEW c \in Consumers, NEW parts, Forget(c, parts),
         NEW d \in Consumers, NEW q \in Partitions
  PROVE  IF d = c /\ q \in parts
         THEN lastOffset'[d][q] = NotSeen
         ELSE lastOffset'[d][q] = lastOffset[d][q] /\ lag'[d][q] = lag[d][q]
BY DEF Forget, TypeOK

LEMMA LagStep ==
  ASSUME IInv, LagInv, Next, NEW d \in Consumers, NEW q \in Partitions
  PROVE  RevokesInHook(d)' /\ Tracked(d, q)'
<1> DEFINE Good == RevokesInHook(d) /\ Tracked(d, q)
<1>0. TypeOK /\ WithinLog /\ Good
  BY DEF IInv, LagInv
<1>1. ASSUME NEW p \in Partitions, Append(p) PROVE Good'
  <2>1. head'[q] \in {head[q], head[q] + 1} /\ head[q] \in Int /\ lag[d][q] \in Int
        /\ pos[d][q] \in Int
    BY <1>0, <1>1 DEF Append, TypeOK
  <2>2. QED
    BY <1>0, <1>1, <2>1 DEF Append, group, tracker, RevokesInHook, Tracked
<1>2. ASSUME NEW c \in Consumers, Poll(c) \/ PollEmpty(c) PROVE Good'
  <2>1. revoking' = revoking /\ pc[c] = "poll"
    BY <1>2, PollEffect, <1>0 DEF PollEmpty, Fetch
  <2>2. CASE d = c
    <3>1. Tracked(d, q)'
      BY <1>2, <2>2, PollTracks
    <3>2. revoking[d] = {}
      BY <1>0, <2>1, <2>2 DEF RevokesInHook, Hook
    <3>3. QED
      BY <2>1, <3>1, <3>2 DEF RevokesInHook
  <2>3. CASE d # c
    <3>1. UNCHANGED <<head, owned>> /\ pos'[d] = pos[d] /\ pc'[d] = pc[d]
      BY <1>0, <1>2, <2>3, PollEffect DEF PollEmpty, broker, TypeOK
    <3>2. lastOffset'[d] = lastOffset[d] /\ lag'[d] = lag[d]
      BY <1>0, <1>2, <2>3 DEF Poll, PollEmpty, Fetch, Observe, TypeOK
    <3>3. QED
      BY <1>0, <2>1, <3>1, <3>2 DEF RevokesInHook, Tracked
  <2>4. QED
    BY <2>2, <2>3
<1>3. ASSUME NEW c \in Consumers, NEW parts \in SUBSET Partitions, Forget(c, parts),
             revoking' = [revoking EXCEPT ![c] = parts],
             pc' = [pc EXCEPT ![c] = "hookDLQ"],
             revoking[c] = {}, UNCHANGED <<head, owned, pos>>
      PROVE  Good'
  <2>1. RevokesInHook(d)'
    BY <1>0, <1>3 DEF RevokesInHook, Hook, TypeOK
  <2>2. revoking'[d] = IF d = c THEN parts ELSE revoking[d]
    BY <1>0, <1>3 DEF TypeOK
  <2>3. Tracked(d, q)'
    BY <1>0, <1>3, <2>2, ForgetTracks DEF Tracked
  <2>4. QED
    BY <2>1, <2>3
<1>4. ASSUME NEW c \in Consumers, NEW parts \in SUBSET Partitions, Revoke(c, parts) PROVE Good'
  <2>1. revoking[c] = {}
    BY <1>4 DEF Revoke, LagInv, RevokesInHook, Hook
  <2>2. QED
    BY <1>3, <1>4, <2>1 DEF Revoke, Goto, broker
<1>5. ASSUME NEW c \in Consumers, AllowRebalance(c) PROVE Good'
  <2>1. revoking[c] = {} /\ owned[c] \in SUBSET Partitions /\ pc[c] = "allow"
    BY <1>0, <1>5 DEF AllowRebalance, LagInv, RevokesInHook, Hook, TypeOK
  <2>2. CASE runErr[c] \/ ctxDone[c]
    BY <1>3, <1>5, <2>1, <2>2 DEF AllowRebalance, Goto, broker
  <2>3. CASE ~(runErr[c] \/ ctxDone[c])
    <3>1. UNCHANGED <<head, owned, pos, revoking, lastOffset, lag>>
          /\ pc' = [pc EXCEPT ![c] = "poll"]
      BY <1>5, <2>3 DEF AllowRebalance, Goto, broker, tracker
    <3>2. QED
      BY <1>0, <2>1, <3>1 DEF RevokesInHook, Tracked, Hook, TypeOK
  <2>4. QED
    BY <2>2, <2>3
<1>6. ASSUME NEW c \in Consumers,
             \/ PollCancelled(c) \/ SubmitBatchReturns(c) \/ FlushDLQ(c) \/ FlushVerdicts(c)
             \/ FlushFails(c) \/ HookFlushDLQ(c) \/ HookFlushVerdicts(c) \/ Sigterm(c)
             \/ CommitStep(c) \/ Decode(c) \/ Exit(c) \/ Evict(c) \/ Restart(c)
             \/ \E x \in Records : Score(c, x)
             \/ \E p \in Partitions : ExpireSession(c, p)
             \/ \E t \in Topics, x \in Records : Ack(c, t, x) \/ PublishFails(c, t, x)
             \/ OtherPublishFails(c)
      PROVE  Good'
  <2>1. UNCHANGED <<head, owned, pos, revoking, lastOffset, lag>>
    <3>1. CASE CommitStep(c)
      BY <3>1, CommitEffect
    <3>2. CASE ~CommitStep(c)
      BY <1>6, <3>2 DEF PollCancelled, SubmitBatchReturns, FlushDLQ, FlushVerdicts, FlushFails,
         HookFlushDLQ, HookFlushVerdicts, Sigterm, Decode, Exit, Evict, Restart, Score,
         ExpireSession, Ack, PublishFails, OtherPublishFails, broker, group, tracker
    <3>3. QED
      BY <3>1, <3>2
  <2>2. pc'[d] \in Hook \/ pc'[d] = pc[d] \/ pc[d] \notin Hook
    <3>1. CASE CommitStep(c)
      BY <1>0, <3>1, CommitEffect DEF Hook, TypeOK
    <3>2. CASE HookFlushDLQ(c) \/ HookFlushVerdicts(c)
      BY <1>0, <3>2 DEF HookFlushDLQ, HookFlushVerdicts, Goto, Hook, TypeOK
    <3>3. CASE \/ PollCancelled(c) \/ SubmitBatchReturns(c) \/ FlushDLQ(c)
               \/ FlushVerdicts(c) \/ FlushFails(c) \/ Decode(c) \/ Exit(c) \/ Restart(c)
      <4>1. pc[c] \notin Hook /\ \E label : pc' = [pc EXCEPT ![c] = label]
        BY <3>3 DEF PollCancelled, SubmitBatchReturns, FlushDLQ, FlushVerdicts, FlushFails,
                    Decode, Exit, Restart, Goto, Hook, Stopped
      <4>2. QED
        BY <1>0, <4>1 DEF TypeOK
    <3>4. CASE \/ Sigterm(c) \/ Evict(c)
               \/ \E x \in Records : Score(c, x)
               \/ \E p \in Partitions : ExpireSession(c, p)
               \/ \E t \in Topics, x \in Records : Ack(c, t, x) \/ PublishFails(c, t, x)
               \/ OtherPublishFails(c)
      BY <3>4 DEF Sigterm, Evict, Score, ExpireSession, Ack, PublishFails, OtherPublishFails
    <3>5. QED
      BY <1>6, <3>1, <3>2, <3>3, <3>4
  <2>3. QED
    BY <1>0, <2>1, <2>2 DEF RevokesInHook, Tracked
<1>7. ASSUME NEW c \in Consumers, HookEnds(c) PROVE Good'
  <2>1. Release(c, revoking[c]) /\ UNCHANGED <<head, lastOffset, lag>>
    BY <1>7 DEF HookEnds, tracker
  <2>2. CASE d = c
    <3>1. owned'[d] = owned[d] \ revoking[d] /\ revoking'[d] = {}
      BY <1>0, <2>1, <2>2 DEF Release, TypeOK
    <3>2. q \notin revoking[d] => pos'[d][q] = pos[d][q]
      BY <1>0, <2>1, <2>2 DEF Release, TypeOK
    <3>3. QED
      BY <1>0, <2>1, <3>1, <3>2 DEF RevokesInHook, Tracked
  <2>3. CASE d # c
    <3>1. owned'[d] = owned[d] /\ revoking'[d] = revoking[d] /\ pos'[d] = pos[d]
      BY <1>0, <2>1, <2>3 DEF Release, TypeOK
    <3>2. pc'[d] = pc[d]
      BY <1>0, <1>7, <2>3 DEF HookEnds, Goto, TypeOK
    <3>3. QED
      BY <1>0, <2>1, <3>1, <3>2 DEF RevokesInHook, Tracked
  <2>4. QED
    BY <2>2, <2>3
<1>8. ASSUME NEW c \in Consumers, Lost(c) \/ Crash(c) PROVE Good'
  <2>1. PICK parts : owned[c] \subseteq parts /\ Forget(c, parts)
    BY <1>0, <1>8 DEF Lost, Crash, TypeOK
  <2>2. revoking' = [revoking EXCEPT ![c] = {}] /\ head' = head
    BY <1>8 DEF Lost, Crash, Release, broker
  <2>3. CASE d = c
    <3>1. lastOffset'[d][q] = NotSeen
      BY <1>0, <2>1, <2>3, ForgetTracks DEF Tracked
    <3>2. QED
      BY <1>0, <2>2, <2>3, <3>1 DEF RevokesInHook, Tracked, TypeOK
  <2>4. CASE d # c
    <3>1. /\ owned'[d] = owned[d] /\ revoking'[d] = revoking[d] /\ pos'[d] = pos[d]
          /\ pc'[d] = pc[d]
      BY <1>0, <1>8, <2>4 DEF Lost, Crash, Release, Goto, TypeOK
    <3>2. lastOffset'[d][q] = lastOffset[d][q] /\ lag'[d][q] = lag[d][q]
      BY <1>0, <2>1, <2>4, ForgetTracks
    <3>3. QED
      BY <1>0, <2>2, <3>1, <3>2 DEF RevokesInHook, Tracked
  <2>5. QED
    BY <2>3, <2>4
<1>9. ASSUME NEW c \in Consumers, NEW p \in Partitions, Assign(c, p) PROVE Good'
  <2>1. /\ UNCHANGED <<head, pc, revoking, lastOffset, lag>>
        /\ owned[d] \subseteq owned'[d]
        /\ pos'[d][q] = pos[d][q] \/ q \notin owned[d]
    BY <1>0, <1>9 DEF Assign, tracker, TypeOK
  <2>2. QED
    BY <1>0, <2>1 DEF RevokesInHook, Tracked
<1>10. ASSUME NEW c \in Consumers, ControlStep(c) PROVE Good'
  BY <1>2, <1>4, <1>5, <1>6, <1>10 DEF ControlStep
<1> HIDE DEF Good
<1>11. Good'
  BY StepCases, <1>1, <1>2, <1>6, <1>7, <1>8, <1>9, <1>10
<1>12. QED
  BY <1>11 DEF Good

LEMMA LagInvStep ==
  ASSUME IInv, LagInv, Next
  PROVE  LagInv'
<1>1. CASE Partitions = {}
  <2>1. TypeOK'
    BY TypeStep DEF IInv
  <2>2. \A c \in Consumers : revoking'[c] = {}
    BY <1>1, <2>1 DEF TypeOK
  <2>3. QED
    BY <1>1, <2>2 DEF LagInv, RevokesInHook
<1>2. CASE Partitions # {}
  BY <1>2, LagStep DEF LagInv
<1>3. QED
  BY <1>1, <1>2

(* The lag a process exports is the backlog of a partition it keeps, for   *)
(* any number of processes, rebalances and faults.                         *)
THEOREM LagIsReal == Spec => []LagIsOwnBacklog
<1>1. Init => LagInv
  <2>1. ASSUME Init, NEW c \in Consumers, NEW p \in Partitions
        PROVE  revoking[c] = {} /\ lastOffset[c][p] = NotSeen
    BY <2>1 DEF Init, NeverRead
  <2>2. ASSUME Init, NEW c \in Consumers PROVE revoking[c] = {}
    BY <2>2 DEF Init
  <2>3. QED
    BY <2>1, <2>2 DEF LagInv, RevokesInHook, Tracked
<1>2. IInv /\ LagInv /\ [Next]_vars => LagInv'
  <2>1. CASE Next
    BY <2>1, LagInvStep
  <2>2. CASE UNCHANGED vars
    BY <2>2 DEF vars, broker, group, tracker, LagInv, RevokesInHook, Tracked
  <2>3. QED
    BY <2>1, <2>2
<1>3. LagInv => LagIsOwnBacklog
  BY DEF LagInv, LagIsOwnBacklog, Reported, Tracked
<1>4. QED
  BY <1>1, <1>2, <1>3, Invariance, PTL DEF Spec

----------------------------------------------------------------------------
(* Records that never decode, and what is replayed when nothing fails, on  *)
(* top of the inductive invariant.                                         *)

(* A record that never decodes is not scored. *)
NeverScored ==
    \A r \in Undecodable :
        /\ r \notin approved \cup durable["verdicts"]
        /\ \A c \in Consumers : /\ r \notin pending[c]["verdicts"]
                                /\ pc[c] = "score" => r \notin todo[c]

LEMMA NeverScoredStep ==
  ASSUME TypeOK, NeverScored, Next
  PROVE  NeverScored'
<1> SUFFICES ASSUME NEW r \in Undecodable, NEW d \in Consumers
             PROVE  /\ r \notin approved' \cup durable'["verdicts"]
                    /\ r \notin pending'[d]["verdicts"]
                    /\ pc'[d] = "score" => r \notin todo'[d]
  BY ConstantsAssumption DEF NeverScored
<1> DEFINE Out == r \notin approved \cup durable["verdicts"]
           Clean == r \notin pending[d]["verdicts"] /\ (pc[d] = "score" => r \notin todo[d])
<1>0. /\ Out /\ \A c \in Consumers : /\ r \notin pending[c]["verdicts"]
                                     /\ pc[c] = "score" => r \notin todo[c]
      /\ pc \in [Consumers -> PCs] /\ todo \in [Consumers -> SUBSET Records]
      /\ pending \in [Consumers -> [Topics -> SUBSET Records]]
      /\ durable \in [Topics -> SUBSET Records]
      /\ "verdicts" \in Topics /\ "dlq" \in Topics
  BY DEF NeverScored, TypeOK, Topics
<1>1. ASSUME NEW p \in Partitions, Append(p) PROVE (Out /\ Clean)'
  BY <1>0, <1>1 DEF Append, publishing
<1>2. ASSUME NEW c \in Consumers, ControlStep(c) \/ CommitStep(c) PROVE (Out /\ Clean)'
  <2>1. UNCHANGED <<pending, durable, approved, todo>>
    BY <1>2, ControlEffect, CommitEffect DEF records
  <2>2. pc'[d] = "score" => pc[d] = "score"
    <3>1. \E label \in PCs : label # "score" /\ (pc' = [pc EXCEPT ![c] = label] \/ pc' = pc)
      BY <1>2 DEF ControlStep, CommitStep, PollEmpty, PollCancelled, SubmitBatchReturns, FlushDLQ,
         FlushVerdicts, FlushFails, AllowRebalance, HookFlushDLQ, HookFlushVerdicts, Sigterm,
         Revoke, Commit, CommitFails, HookCommit, HookCommitFails, Goto, PCs, Stopped
    <3>2. QED
      BY <1>0, <3>1
  <2>3. QED
    BY <1>0, <2>1, <2>2
<1>3. ASSUME NEW c \in Consumers, Poll(c) PROVE (Out /\ Clean)'
  <2>1. UNCHANGED <<pending, durable, approved>> /\ pc' = [pc EXCEPT ![c] = "decode"]
    BY <1>3, PollEffect
  <2>2. d # c => todo'[d] = todo[d]
    BY <1>3, PollEffect
  <2>3. QED
    BY <1>0, <2>1, <2>2
<1>4. ASSUME NEW c \in Consumers, Decode(c) PROVE (Out /\ Clean)'
  <2>1. PICK parked \in SUBSET todo[c] :
            /\ todo[c] \cap Undecodable \subseteq parked
            /\ todo' = [todo EXCEPT ![c] = @ \ parked]
            /\ pending' = [pending EXCEPT ![c]["dlq"] = @ \cup parked]
    BY <1>4 DEF Decode
  <2>2. UNCHANGED <<durable, approved>> /\ pc' = [pc EXCEPT ![c] = "score"]
    BY <1>4 DEF Decode, Goto
  <2>3. pending'[d]["verdicts"] = pending[d]["verdicts"]
    BY <1>0, <2>1
  <2>4. d = c => r \notin todo'[d]
    BY <1>0, <2>1
  <2>5. d # c => todo'[d] = todo[d] /\ pc'[d] = pc[d]
    BY <1>0, <2>1, <2>2
  <2>6. QED
    BY <1>0, <2>2, <2>3, <2>4, <2>5
<1>5. ASSUME NEW c \in Consumers, NEW x \in Records, Score(c, x) PROVE (Out /\ Clean)'
  <2>1. /\ x # r /\ UNCHANGED <<pc, durable>> /\ approved' \subseteq approved \cup {x}
        /\ todo' = [todo EXCEPT ![c] = @ \ {x}]
        /\ pending' = pending \/ pending' = [pending EXCEPT ![c]["verdicts"] = @ \cup {x}]
    BY <1>0, <1>5 DEF Score
  <2>2. pending'[d]["verdicts"] \subseteq pending[d]["verdicts"] \cup {x}
    BY <1>0, <2>1
  <2>3. todo'[d] \subseteq todo[d]
    BY <1>0, <2>1
  <2>4. QED
    BY <1>0, <2>1, <2>2, <2>3
<1>6. ASSUME NEW c \in Consumers, NEW t \in Topics, NEW x \in Records,
             Ack(c, t, x) \/ PublishFails(c, t, x)
      PROVE  (Out /\ Clean)'
  <2>1. /\ UNCHANGED <<pc, todo, approved>> /\ x \in pending[c][t]
        /\ pending' = [pending EXCEPT ![c][t] = @ \ {x}]
        /\ durable' = durable \/ durable' = [durable EXCEPT ![t] = @ \cup {x}]
    BY <1>6 DEF Ack, PublishFails
  <2>2. pending'[d]["verdicts"] \subseteq pending[d]["verdicts"]
    BY <1>0, <2>1
  <2>3. r \notin durable'["verdicts"]
    BY <1>0, <2>1
  <2>4. QED
    BY <1>0, <2>1, <2>2, <2>3
<1>7. ASSUME NEW c \in Consumers, Exit(c) \/ Crash(c) PROVE (Out /\ Clean)'
  <2>1. /\ UNCHANGED <<durable, approved>>
        /\ \E label \in Stopped : pc' = [pc EXCEPT ![c] = label]
        /\ pending' = [pending EXCEPT ![c] = Nothing]
        /\ todo' = todo \/ todo' = [todo EXCEPT ![c] = {}]
    BY <1>7 DEF Exit, Crash, Goto, Stopped
  <2>2. pending'[d] = pending[d] \/ pending'[d] = Nothing
    BY <1>0, <2>1
  <2>3. todo'[d] \subseteq todo[d] /\ (pc'[d] = "score" => pc[d] = "score")
    BY <1>0, <2>1 DEF Stopped
  <2>4. QED
    BY <1>0, <2>1, <2>2, <2>3 DEF Nothing
<1>8. ASSUME NEW c \in Consumers,
             \/ HookEnds(c) \/ Lost(c) \/ Restart(c) \/ Evict(c) \/ OtherPublishFails(c)
             \/ \E p \in Partitions : Assign(c, p) \/ ExpireSession(c, p)
      PROVE  (Out /\ Clean)'
  <2>1. UNCHANGED <<pending, durable, approved, todo>>
    BY <1>8 DEF HookEnds, Lost, Restart, Evict, OtherPublishFails, Assign, ExpireSession, publishing
  <2>2. pc' = pc \/ \E label \in {"poll", "returned"} : pc' = [pc EXCEPT ![c] = label]
    BY <1>8 DEF HookEnds, Lost, Restart, Evict, OtherPublishFails, Assign, ExpireSession, Goto
  <2>3. QED
    BY <1>0, <2>1, <2>2
<1>9. QED
  BY StepCases, <1>1, <1>2, <1>3, <1>4, <1>5, <1>6, <1>7, <1>8

(* A record that never decodes is on the dead letter queue before the      *)
(* committed offset moves past it, whatever crashes and fails.             *)
THEOREM PoisonIsParked == Spec => []PoisonParked
<1>1. Init => NeverScored
  BY DEF Init, NeverScored, Nothing, Topics
<1>2. IInv /\ NeverScored /\ [Next]_vars => NeverScored'
  <2>1. CASE Next
    BY <2>1, NeverScoredStep DEF IInv
  <2>2. CASE UNCHANGED vars
    BY <2>2 DEF vars, publishing, NeverScored
  <2>3. QED
    BY <2>1, <2>2
<1>3. IInv /\ NeverScored => PoisonParked
  BY ConstantsAssumption DEF IInv, AtLeastOnce, NeverScored, PoisonParked, Handled
<1>4. QED
  BY <1>1, <1>2, <1>3, Invariance, PTL DEF Spec

----------------------------------------------------------------------------
(* Without a fault. *)

(* A record that was handled or is held somewhere. *)
Seen(r) == r \in Handled \/ \E c \in Consumers : r \in Held(c)

(* No later poll returns it: it is committed, or its owner has read past it. *)
Passed(r) ==
    \/ r[2] < committed[r[1]]
    \/ \E c \in Consumers : r[1] \in owned[c] /\ r[2] < pos[c][r[1]]

(* Owners and the coordinator agree, and a hook ends with everything       *)
(* committed: nothing between is left to be read again.                    *)
Calm ==
    /\ \A c \in Consumers, t \in Topics : ~failed[c][t]
    /\ \A c \in Consumers, p \in Partitions : owner[p] = c <=> p \in owned[c]
    /\ \A c \in Consumers : pc[c] = "hookEnd" =>
          \A p \in owned[c] : committed[p] = pos[c][p]
    /\ \A r \in Records : Seen(r) => Passed(r)
    /\ NoReplayWithoutFault

CalmWithoutFault == faults = 0 => Calm

(* The steps that may come before the first fault.                         *)
LEMMA CalmCases ==
  ASSUME TypeOK, Next, faults' = 0
  PROVE  /\ faults = 0
         /\ \/ \E p \in Partitions : Append(p)
            \/ \E c \in Consumers :
                  \/ ControlStep(c) \/ (CommitStep(c) /\ ~HookCommitFails(c))
                  \/ Poll(c) \/ Decode(c) \/ HookEnds(c) \/ Lost(c)
                  \/ Exit(c) \/ Restart(c)
                  \/ \E r \in Records : Score(c, r)
                  \/ \E p \in Partitions : Assign(c, p) \/ ExpireSession(c, p)
                  \/ \E t \in Topics, r \in Records : Ack(c, t, r)
<1>1. faults \in Nat
  BY ConstantsAssumption DEF TypeOK
<1>2. ~Fault
  BY <1>1 DEF Fault
<1>3. \A c \in Consumers : ~Evict(c) /\ ~Crash(c) /\ ~HookCommitFails(c) /\ ~OtherPublishFails(c)
                          /\ \A t \in Topics, r \in Records : ~PublishFails(c, t, r)
  BY <1>2 DEF Evict, Crash, HookCommitFails, OtherPublishFails, PublishFails
<1>4. faults' = faults
  <2>1. ASSUME NEW c \in Consumers, CommitFails(c) PROVE faults' = faults
    BY <1>2, <2>1 DEF CommitFails, budget
  <2>2. ASSUME NEW c \in Consumers, Loop(c) PROVE faults' = faults
    BY <2>2 DEF Loop, Poll, PollCancelled, Decode, SubmitBatchReturns, Score, FlushDLQ,
       FlushVerdicts, FlushFails, Commit, AllowRebalance, HookFlushDLQ, HookFlushVerdicts,
       HookCommit, HookEnds, Lost, Exit, Restart, budget
  <2>3. ASSUME NEW p \in Partitions, Append(p) PROVE faults' = faults
    BY <2>3 DEF Append, budget
  <2>4. ASSUME NEW c \in Consumers,
               \/ \E p \in Partitions : Assign(c, p) \/ ExpireSession(c, p)
               \/ \E t \in Topics, r \in Records : Ack(c, t, r)
               \/ \E parts \in SUBSET Partitions : Revoke(c, parts)
               \/ PollEmpty(c) \/ Sigterm(c)
        PROVE  faults' = faults
    BY <2>4 DEF Assign, ExpireSession, Ack, Revoke, PollEmpty, Sigterm, Move, budget
  <2>5. QED
    BY <1>3, <2>1, <2>2, <2>3, <2>4 DEF Next
<1>5. QED
  BY <1>3, <1>4, StepCases

(* What a poll returns lies between the positions before and after it.     *)
LEMMA PollReturns ==
  ASSUME TypeOK, NEW c \in Consumers, Poll(c), NEW r \in todo'[c]
  PROVE  /\ r \in Records /\ r[1] \in owned[c]
         /\ pos[c][r[1]] <= r[2] /\ r[2] < pos'[c][r[1]]
<1>1. PICK fetched \in SUBSET owned[c] :
         \E next \in [fetched -> 0 .. MaxLog], watermark \in [fetched -> 0 .. MaxLog] :
            PollTakes(c, fetched, next, watermark)
  BY PollPicks
<1>2. PICK next \in [fetched -> 0 .. MaxLog], watermark \in [fetched -> 0 .. MaxLog] :
         PollTakes(c, fetched, next, watermark)
  BY <1>1
<1>3. fetched \subseteq Partitions
  BY DEF TypeOK
<1>4. \A p \in fetched : pos'[c][p] = next[p]
  BY <1>2, <1>3 DEF PollTakes, TypeOK
<1>5. todo'[c] = {x \in Records : /\ x[1] \in fetched
                                  /\ pos[c][x[1]] <= x[2] /\ x[2] < next[x[1]]}
  BY <1>2 DEF PollTakes, TypeOK
<1>6. QED
  BY <1>4, <1>5

(* Nobody has seen what a poll returns. *)
LEMMA PollIsFresh ==
  ASSUME TypeOK, OwnerIsAhead, Calm, NEW c \in Consumers, Poll(c), NEW r \in todo'[c]
  PROVE  ~Seen(r)
<1>1. /\ r \in Records /\ r[1] \in owned[c] /\ r[1] \in Partitions
      /\ pos[c][r[1]] <= r[2]
  BY PollReturns DEF TypeOK
<1>2. /\ r[2] \in Int /\ committed[r[1]] \in Int
      /\ \A d \in Consumers : pos[d][r[1]] \in Int
  BY <1>1, ConstantsAssumption DEF Records, Offsets, TypeOK
<1>3. owner[r[1]] = c
  BY <1>1 DEF Calm
<1>4. committed[r[1]] <= pos[c][r[1]]
  BY <1>1, <1>3 DEF OwnerIsAhead, Claims
<1>5. \A d \in Consumers : r[1] \in owned[d] => d = c
  BY <1>1, <1>3 DEF Calm
<1>6. ~Passed(r)
  BY <1>1, <1>2, <1>4, <1>5 DEF Passed
<1>7. QED
  BY <1>1, <1>6 DEF Calm

LEMMA NoFailuresStep ==
  ASSUME TypeOK, Calm, Next, faults' = 0, NEW d \in Consumers, NEW s \in Topics
  PROVE  ~failed'[d][s]
<1>1. failed' = failed \/ \E c \in Consumers : failed' = [failed EXCEPT ![c] = NoErrors]
  <2>1. ASSUME NEW p \in Partitions, Append(p) PROVE failed' = failed
    BY <2>1 DEF Append, publishing
  <2>2. ASSUME NEW c \in Consumers,
               \/ ControlStep(c) \/ CommitStep(c) \/ Poll(c) \/ HookEnds(c) \/ Lost(c)
        PROVE  failed' = failed
    BY <2>2, ControlEffect, CommitEffect, PollEffect, ReleaseEffect DEF records
  <2>3. ASSUME NEW c \in Consumers,
               \/ Decode(c) \/ Exit(c) \/ \E r \in Records : Score(c, r)
               \/ \E p \in Partitions : Assign(c, p) \/ ExpireSession(c, p)
               \/ \E t \in Topics, r \in Records : Ack(c, t, r)
        PROVE  failed' = failed
    BY <2>3 DEF Decode, Exit, Score, Assign, ExpireSession, Ack, publishing
  <2>4. ASSUME NEW c \in Consumers, Restart(c)
        PROVE  failed' = [failed EXCEPT ![c] = NoErrors]
    BY <2>4 DEF Restart
  <2>5. QED
    BY CalmCases, <2>1, <2>2, <2>3, <2>4
<1>2. failed \in [Consumers -> [Topics -> BOOLEAN]] /\ ~failed[d][s]
  BY DEF TypeOK, Calm
<1>3. failed'[d] \in {failed[d], NoErrors}
  BY <1>1, <1>2
<1>4. QED
  BY <1>2, <1>3 DEF NoErrors

LEMMA OwnersKnowStep ==
  ASSUME TypeOK, Calm, Next, faults' = 0, NEW d \in Consumers, NEW q \in Partitions
  PROVE  owner'[q] = d <=> q \in owned'[d]
<1>0. /\ \A c \in Consumers, p \in Partitions : owner[p] = c <=> p \in owned[c]
      /\ owner \in [Partitions -> Consumers \cup {None}]
      /\ owned \in [Consumers -> SUBSET Partitions] /\ None \notin Consumers
  BY ConstantsAssumption DEF Calm, TypeOK
<1>1. CASE UNCHANGED <<owner, owned>>
  BY <1>0, <1>1
<1>2. ASSUME NEW c \in Consumers, NEW p \in Partitions, Assign(c, p)
      PROVE  owner'[q] = d <=> q \in owned'[d]
  <2>1. /\ owner[p] = None /\ owner' = [owner EXCEPT ![p] = c]
        /\ owned' = [owned EXCEPT ![c] = @ \cup {p}]
    BY <1>2 DEF Assign
  <2>2. QED
    BY <1>0, <2>1
<1>3. ASSUME NEW c \in Consumers, HookEnds(c)
      PROVE  owner'[q] = d <=> q \in owned'[d]
  <2>1. Release(c, revoking[c])
    BY <1>3 DEF HookEnds
  <2>2. QED
    BY <1>0, <2>1 DEF Release
<1>4. ASSUME NEW c \in Consumers, Lost(c) PROVE FALSE
  BY <1>0, <1>4 DEF Lost, Claims
<1>5. ASSUME NEW c \in Consumers, NEW p \in Partitions, ExpireSession(c, p) PROVE FALSE
  BY <1>0, <1>5 DEF ExpireSession
<1>6. ASSUME NEW p \in Partitions, Append(p) PROVE UNCHANGED <<owner, owned>>
  BY <1>6 DEF Append, group
<1>7. ASSUME NEW c \in Consumers, ControlStep(c) \/ CommitStep(c) \/ Poll(c)
      PROVE  UNCHANGED <<owner, owned>>
  BY <1>7, ControlEffect, CommitEffect, PollEffect DEF offsets
<1>8. ASSUME NEW c \in Consumers,
             \/ Decode(c) \/ Exit(c) \/ Restart(c) \/ \E r \in Records : Score(c, r)
             \/ \E t \in Topics, r \in Records : Ack(c, t, r)
      PROVE  UNCHANGED <<owner, owned>>
  BY <1>8 DEF Decode, Exit, Restart, Score, Ack, broker, group
<1>9. QED
  BY CalmCases, <1>1, <1>2, <1>3, <1>4, <1>5, <1>6, <1>7, <1>8

LEMMA HookCommittedStep ==
  ASSUME TypeOK, Calm, Next, faults' = 0,
         NEW d \in Consumers, pc'[d] = "hookEnd", NEW q \in owned'[d]
  PROVE  committed'[q] = pos'[d][q]
<1>0. /\ \A c \in Consumers, p \in Partitions : owner[p] = c <=> p \in owned[c]
      /\ pc \in [Consumers -> PCs] /\ committed \in [Partitions -> 0 .. MaxLog]
      /\ pos \in [Consumers -> [Partitions -> 0 .. MaxLog]]
      /\ owned \in [Consumers -> SUBSET Partitions]
      /\ \A t \in Topics : ~failed[d][t]
      /\ pc[d] = "hookEnd" => \A p \in owned[d] : committed[p] = pos[d][p]
  BY DEF Calm, TypeOK
<1>1. ASSUME pc[d] = "hookEnd", owned'[d] = owned[d], pos'[d] = pos[d],
             committed'[q] = committed[q]
      PROVE  committed'[q] = pos'[d][q]
  BY <1>0, <1>1
<1>2. ASSUME NEW p \in Partitions, Append(p) PROVE committed'[q] = pos'[d][q]
  BY <1>1, <1>2 DEF Append, group
<1>3. ASSUME NEW c \in Consumers, ControlStep(c) PROVE committed'[q] = pos'[d][q]
  <2>1. UNCHANGED <<committed, owned, pos>>
    BY <1>3, ControlEffect DEF offsets
  <2>2. pc[d] = "hookEnd"
    <3>1. \/ pc' = pc
          \/ \E label \in PCs : label # "hookEnd" /\ pc' = [pc EXCEPT ![c] = label]
          \/ d = c /\ \E t \in Topics : failed[d][t]
          \/ d # c /\ \E label \in PCs : pc' = [pc EXCEPT ![c] = label]
      BY <1>3 DEF ControlStep, PollEmpty, PollCancelled, SubmitBatchReturns, FlushDLQ,
         FlushVerdicts, FlushFails, AllowRebalance, HookFlushDLQ, HookFlushVerdicts, Sigterm,
         Revoke, Goto, PCs, Stopped, Check, Topics
    <3>2. QED
      BY <1>0, <3>1
  <2>3. QED
    BY <1>1, <2>1, <2>2
<1>4. ASSUME NEW c \in Consumers, CommitStep(c), ~HookCommitFails(c)
      PROVE  committed'[q] = pos'[d][q]
  <2>1. /\ pc' = [pc EXCEPT ![c] = IF pc[c] = "commit" THEN "allow" ELSE "hookEnd"]
        /\ UNCHANGED <<owner, owned, pos>>
    BY <1>4, CommitEffect
  <2>2. PICK accepted \in SUBSET Claims(c) : CommitUncommitted(c, accepted)
    BY <1>4, CommitEffect
  <2>3. q \in Partitions /\ q \in owned[d] /\ owner[q] = d
    BY <1>0, <2>1
  <2>4. CASE d # c
    <3>1. pc[d] = "hookEnd"
      BY <1>0, <2>1, <2>4
    <3>2. committed'[q] = committed[q]
      BY <2>2, <2>3, <2>4 DEF CommitUncommitted, Claims
    <3>3. QED
      BY <1>1, <2>1, <3>1, <3>2
  <2>5. CASE d = c
    <3>1. HookCommit(c)
      BY <1>0, <1>4, <2>1, <2>5 DEF CommitStep, Commit, CommitFails
    <3>2. CommitUncommitted(c, Claims(c))
      BY <3>1 DEF HookCommit
    <3>3. q \in Claims(c)
      BY <2>3, <2>5 DEF Claims
    <3>4. QED
      BY <2>1, <2>3, <2>5, <3>2, <3>3 DEF CommitUncommitted
  <2>6. QED
    BY <2>4, <2>5
<1>5. ASSUME NEW c \in Consumers, Poll(c) PROVE committed'[q] = pos'[d][q]
  <2>1. pc' = [pc EXCEPT ![c] = "decode"] /\ UNCHANGED <<committed, owned>>
    BY <1>5, PollEffect
  <2>2. d # c /\ pc[d] = "hookEnd"
    BY <1>0, <2>1
  <2>3. pos'[d] = pos[d]
    BY <1>5, <2>2, PollEffect
  <2>4. QED
    BY <1>1, <2>1, <2>2, <2>3
<1>6. ASSUME NEW c \in Consumers, HookEnds(c) \/ Lost(c) PROVE committed'[q] = pos'[d][q]
  <2>1. PICK parts : Release(c, parts)
    BY <1>6 DEF HookEnds, Lost
  <2>2. /\ committed' = committed
        /\ pc' = pc \/ \E label \in {"poll", "returned"} : pc' = [pc EXCEPT ![c] = label]
    BY <1>6 DEF HookEnds, Lost, Goto
  <2>3. pc[d] = "hookEnd"
    BY <1>0, <2>2
  <2>4. d # c
    <3>1. Lost(c) => pc[c] = "poll"
      BY DEF Lost
    <3>2. HookEnds(c) => pc'[c] # "hookEnd"
      BY <1>0 DEF HookEnds, Goto
    <3>3. QED
      BY <1>6, <2>3, <3>1, <3>2
  <2>5. owned'[d] = owned[d] /\ pos'[d] = pos[d]
    BY <1>0, <2>1, <2>4 DEF Release
  <2>6. QED
    BY <1>1, <2>2, <2>3, <2>5
<1>7. ASSUME NEW c \in Consumers, NEW p \in Partitions, Assign(c, p)
      PROVE  committed'[q] = pos'[d][q]
  <2>1. /\ pc[c] = "poll" /\ UNCHANGED <<pc, committed>>
        /\ owned' = [owned EXCEPT ![c] = @ \cup {p}]
        /\ pos' = [pos EXCEPT ![c][p] = committed[p]]
    BY <1>7 DEF Assign
  <2>2. d # c
    BY <2>1
  <2>3. owned'[d] = owned[d] /\ pos'[d] = pos[d]
    BY <1>0, <2>1, <2>2
  <2>4. QED
    BY <1>1, <2>1, <2>3
<1>8. ASSUME NEW c \in Consumers,
             \/ Decode(c) \/ Exit(c) \/ Restart(c) \/ \E r \in Records : Score(c, r)
             \/ \E p \in Partitions : ExpireSession(c, p)
             \/ \E t \in Topics, r \in Records : Ack(c, t, r)
      PROVE  committed'[q] = pos'[d][q]
  <2>1. UNCHANGED <<committed, owned, pos>>
    BY <1>8 DEF Decode, Exit, Restart, Score, ExpireSession, Ack, broker, group
  <2>2. \/ pc' = pc
        \/ \E label \in PCs : label # "hookEnd" /\ pc' = [pc EXCEPT ![c] = label]
    BY <1>8 DEF Decode, Exit, Restart, Score, ExpireSession, Ack, Goto, PCs, Stopped
  <2>3. pc[d] = "hookEnd"
    BY <1>0, <2>2
  <2>4. QED
    BY <1>1, <2>1, <2>3
<1>9. QED
  BY CalmCases, <1>2, <1>3, <1>4, <1>5, <1>6, <1>7, <1>8

(* What was passed stays passed. *)
LEMMA PassedKept ==
  ASSUME IInv, Calm, Next, faults' = 0, NEW r \in Records, Passed(r)
  PROVE  Passed(r)'
<1> DEFINE q == r[1]
<1>0. /\ TypeOK /\ TypeOK' /\ q \in Partitions /\ r[2] \in Int
      /\ committed[q] \in Int /\ committed'[q] \in Int
      /\ \A c \in Consumers : pos[c][q] \in Int /\ pos'[c][q] \in Int
  <2>1. TypeOK /\ TypeOK'
    BY TypeStep DEF IInv
  <2>2. q \in Partitions /\ r[2] \in Int
    BY ConstantsAssumption DEF Records, Offsets
  <2>3. /\ committed[q] \in 0 .. MaxLog /\ committed'[q] \in 0 .. MaxLog
        /\ \A c \in Consumers : pos[c][q] \in 0 .. MaxLog /\ pos'[c][q] \in 0 .. MaxLog
    BY <2>1, <2>2 DEF TypeOK
  <2>4. QED
    BY <2>1, <2>2, <2>3, ConstantsAssumption
<1>1. committed[q] <= committed'[q]
  <2>1. CASE committed'[q] = committed[q]
    BY <1>0, <2>1
  <2>2. CASE committed'[q] # committed[q]
    <3>1. PICK c \in Consumers : owner[q] = c /\ q \in owned[c] /\ committed'[q] = pos[c][q]
      BY <1>0, <2>2, CommitIsBacked DEF IInv
    <3>2. QED
      BY <3>1 DEF IInv, OwnerIsAhead, Claims
  <2>3. QED
    BY <2>1, <2>2
<1>2. CASE r[2] < committed[q]
  BY <1>0, <1>1, <1>2 DEF Passed
<1>3. ASSUME NEW d \in Consumers, q \in owned[d], r[2] < pos[d][q]
      PROVE  Passed(r)'
  <2>1. ASSUME q \in owned'[d], pos[d][q] <= pos'[d][q] PROVE Passed(r)'
    BY <1>0, <1>3, <2>1 DEF Passed
  <2>2. ASSUME UNCHANGED <<owned, pos>> PROVE Passed(r)'
    BY <1>0, <1>3, <2>1, <2>2
  <2>3. ASSUME NEW c \in Consumers, Poll(c) PROVE Passed(r)'
    <3>1. UNCHANGED owned /\ (d # c => pos'[d] = pos[d]) /\ pos[c][q] <= pos'[c][q]
      BY <1>0, <2>3, PollEffect
    <3>2. QED
      BY <1>0, <1>3, <2>1, <3>1
  <2>4. ASSUME NEW c \in Consumers, HookEnds(c) PROVE Passed(r)'
    <3>1. Release(c, revoking[c]) /\ committed' = committed /\ pc[c] = "hookEnd"
      BY <2>4 DEF HookEnds
    <3>2. CASE d = c /\ q \in revoking[c]
      <4>1. committed[q] = pos[d][q]
        BY <1>3, <3>1, <3>2 DEF Calm
      <4>2. QED
        BY <1>3, <3>1, <4>1 DEF Passed
    <3>3. CASE ~(d = c /\ q \in revoking[c])
      <4>1. q \in owned'[d] /\ pos'[d][q] = pos[d][q]
        BY <1>0, <1>3, <3>1, <3>3 DEF Release, TypeOK
      <4>2. QED
        BY <1>0, <2>1, <4>1
    <3>4. QED
      BY <3>2, <3>3
  <2>5. ASSUME NEW c \in Consumers, Lost(c) PROVE FALSE
    BY <1>0, <2>5 DEF Lost, Claims, Calm, TypeOK
  <2>6. ASSUME NEW c \in Consumers, NEW p \in Partitions, Assign(c, p) PROVE Passed(r)'
    <3>1. /\ p \notin owned[c] /\ owned' = [owned EXCEPT ![c] = @ \cup {p}]
          /\ pos' = [pos EXCEPT ![c][p] = committed[p]]
      BY <2>6 DEF Assign
    <3>2. q \in owned'[d] /\ pos'[d][q] = pos[d][q]
      BY <1>0, <1>3, <3>1 DEF TypeOK
    <3>3. QED
      BY <1>0, <2>1, <3>2
  <2>7. ASSUME NEW p \in Partitions, Append(p) PROVE Passed(r)'
    BY <2>2, <2>7 DEF Append, group
  <2>8. ASSUME NEW c \in Consumers, ControlStep(c) \/ CommitStep(c) PROVE Passed(r)'
    BY <2>2, <2>8, ControlEffect, CommitEffect DEF offsets
  <2>9. ASSUME NEW c \in Consumers,
               \/ Decode(c) \/ Exit(c) \/ Restart(c) \/ \E x \in Records : Score(c, x)
               \/ \E p \in Partitions : ExpireSession(c, p)
               \/ \E t \in Topics, x \in Records : Ack(c, t, x)
        PROVE  Passed(r)'
    BY <2>2, <2>9 DEF Decode, Exit, Restart, Score, ExpireSession, Ack, group
  <2>10. QED
    BY <1>0, CalmCases, <2>3, <2>4, <2>5, <2>6, <2>7, <2>8, <2>9
<1>4. QED
  BY <1>2, <1>3 DEF Passed

LEMMA SeenIsPassedStep ==
  ASSUME IInv, Calm, Next, faults' = 0, NEW r \in Records, Seen(r)'
  PROVE  Passed(r)'
<1>0. TypeOK
  BY DEF IInv
<1>1. CASE Seen(r)
  BY <1>1, PassedKept DEF Calm
<1>2. CASE ~Seen(r)
  <2>1. PICK d \in Consumers : r \in Handled' \cup Held(d)'
    BY ConstantsAssumption DEF Seen
  <2>2. Poll(d) /\ r \in todo'[d]
    BY <1>0, <1>2, <2>1, HeldBefore DEF Seen
  <2>3. r[1] \in owned[d] /\ r[2] < pos'[d][r[1]] /\ owned' = owned
    BY <1>0, <2>2, PollReturns, PollEffect
  <2>4. QED
    BY <2>3 DEF Passed
<1>3. QED
  BY <1>1, <1>2

(* A record in hand is nowhere else. *)
OnlyHere(c, r) ==
    /\ r \notin Handled
    /\ \A d \in Consumers : \A t \in Topics : r \notin pending[d][t]
    /\ \A d \in Consumers \ {c} : r \notin todo[d]

(* It stays so while it is in hand: other records move, and nothing new    *)
(* comes but by a poll.                                                    *)
LEMMA OnlyHereKept ==
  ASSUME TypeOK, NEW b \in Consumers, NEW r, OnlyHere(b, r),
         NEW moved, r \notin moved, Handled' \subseteq Handled \cup moved,
         \A d \in Consumers : todo'[d] \subseteq todo[d] \cup moved,
         \A d \in Consumers, t \in Topics : pending'[d][t] \subseteq pending[d][t] \cup moved
  PROVE  OnlyHere(b, r)'
BY DEF OnlyHere

LEMMA OnlyHereStep ==
  ASSUME IInv, Calm, Next, faults' = 0, NEW b \in Consumers, NEW r \in todo'[b]
  PROVE  OnlyHere(b, r)'
<1>0. /\ TypeOK /\ "dlq" \in Topics /\ "verdicts" \in Topics
      /\ todo \in [Consumers -> SUBSET Records]
      /\ pending \in [Consumers -> [Topics -> SUBSET Records]]
      /\ durable \in [Topics -> SUBSET Records]
  BY DEF IInv, TypeOK, Topics
<1>1. \A c \in Consumers : \A x \in todo[c] : OnlyHere(c, x)
  BY <1>0, CalmCases DEF Calm, NoReplayWithoutFault, OnlyHere
<1>2. CASE UNCHANGED records
  <2>1. r \in todo[b] /\ UNCHANGED <<todo, pending, Handled>>
    BY <1>2 DEF records, Handled
  <2>2. QED
    BY <1>1, <2>1 DEF OnlyHere
<1>3. ASSUME NEW c \in Consumers, Poll(c) PROVE OnlyHere(b, r)'
  <2>1. /\ UNCHANGED <<pending, durable, approved>>
        /\ \A d \in Consumers : d # c => todo'[d] = todo[d]
    BY <1>0, <1>3, PollEffect
  <2>2. \A x \in todo'[c] : ~Seen(x)
    BY <1>0, <1>3, PollIsFresh DEF IInv
  <2>3. Handled' = Handled
    BY <2>1 DEF Handled
  <2>4. CASE b = c
    <3>1. r \notin Handled /\ \A d \in Consumers : r \notin Held(d)
      BY <2>2, <2>4 DEF Seen
    <3>2. QED
      BY <2>1, <2>3, <2>4, <3>1 DEF OnlyHere, Held, Topics
  <2>5. CASE b # c
    <3>1. r \in todo[b] /\ OnlyHere(b, r)
      BY <1>1, <2>1, <2>5
    <3>2. r \notin todo'[c]
      BY <2>2, <3>1 DEF Seen, Held
    <3>3. QED
      BY <2>1, <2>3, <3>1, <3>2 DEF OnlyHere
  <2>6. QED
    BY <2>4, <2>5
<1>4. ASSUME NEW c \in Consumers, Decode(c) PROVE OnlyHere(b, r)'
  <2>1. PICK parked \in SUBSET todo[c] :
            /\ todo' = [todo EXCEPT ![c] = @ \ parked]
            /\ pending' = [pending EXCEPT ![c]["dlq"] = @ \cup parked]
    BY <1>4 DEF Decode
  <2>2. Handled' = Handled
    BY <1>4 DEF Decode, Handled
  <2>3. \A d \in Consumers : todo'[d] \subseteq todo[d]
    BY <1>0, <2>1
  <2>4. r \in todo[b] /\ OnlyHere(b, r)
    BY <1>1, <2>3
  <2>5. r \notin parked
    BY <1>0, <2>1, <2>4 DEF OnlyHere
  <2>6. \A d \in Consumers, t \in Topics : pending'[d][t] \subseteq pending[d][t] \cup parked
    BY <1>0, <2>1
  <2>7. QED
    BY <1>0, <2>2, <2>3, <2>4, <2>5, <2>6, OnlyHereKept
<1>5. ASSUME NEW c \in Consumers, NEW x \in Records, Score(c, x) PROVE OnlyHere(b, r)'
  <2>1. /\ x \in todo[c] /\ durable' = durable /\ approved' \subseteq approved \cup {x}
        /\ todo' = [todo EXCEPT ![c] = @ \ {x}]
        /\ pending' = pending \/ pending' = [pending EXCEPT ![c]["verdicts"] = @ \cup {x}]
    BY <1>5 DEF Score
  <2>2. Handled' \subseteq Handled \cup {x}
    BY <2>1 DEF Handled
  <2>3. \A d \in Consumers : todo'[d] \subseteq todo[d]
    BY <1>0, <2>1
  <2>4. r \in todo[b] /\ OnlyHere(b, r)
    BY <1>1, <2>3
  <2>5. r # x
    BY <1>0, <2>1, <2>4 DEF OnlyHere
  <2>6. \A d \in Consumers, t \in Topics : pending'[d][t] \subseteq pending[d][t] \cup {x}
    BY <1>0, <2>1
  <2>7. QED
    BY <1>0, <2>2, <2>3, <2>4, <2>5, <2>6, OnlyHereKept
<1>6. ASSUME NEW c \in Consumers, NEW s \in Topics, NEW x \in Records, Ack(c, s, x)
      PROVE  OnlyHere(b, r)'
  <2>1. /\ x \in pending[c][s] /\ UNCHANGED <<todo, approved>>
        /\ pending' = [pending EXCEPT ![c][s] = @ \ {x}]
        /\ durable' = [durable EXCEPT ![s] = @ \cup {x}]
    BY <1>6 DEF Ack
  <2>2. \A t \in Topics : durable'[t] \subseteq durable[t] \cup {x}
    BY <1>0, <2>1
  <2>3. Handled' \subseteq Handled \cup {x}
    BY <1>0, <2>1, <2>2 DEF Handled
  <2>4. r \in todo[b] /\ OnlyHere(b, r)
    BY <1>1, <2>1
  <2>5. r # x
    BY <2>1, <2>4 DEF OnlyHere
  <2>6. \A d \in Consumers, t \in Topics : pending'[d][t] \subseteq pending[d][t] \cup {x}
    BY <1>0, <2>1
  <2>7. QED
    BY <1>0, <2>1, <2>3, <2>4, <2>5, <2>6, OnlyHereKept
<1>7. ASSUME NEW c \in Consumers, Exit(c) PROVE OnlyHere(b, r)'
  <2>1. UNCHANGED <<todo, durable, approved>> /\ pending' = [pending EXCEPT ![c] = Nothing]
    BY <1>7 DEF Exit
  <2>2. \A d \in Consumers, t \in Topics : pending'[d][t] \subseteq pending[d][t]
    BY <1>0, <2>1 DEF Nothing
  <2>3. r \in todo[b] /\ OnlyHere(b, r) /\ Handled' = Handled
    BY <1>1, <2>1 DEF Handled
  <2>4. QED
    BY <2>1, <2>2, <2>3 DEF OnlyHere
<1>8. ASSUME NEW p \in Partitions, Append(p) PROVE UNCHANGED records
  BY <1>8 DEF Append, publishing, records
<1>9. ASSUME NEW c \in Consumers,
             ControlStep(c) \/ CommitStep(c) \/ HookEnds(c) \/ Lost(c)
      PROVE  UNCHANGED records
  BY <1>0, <1>9, ControlEffect, CommitEffect, ReleaseEffect
<1>10. ASSUME NEW c \in Consumers, \E p \in Partitions : Assign(c, p) \/ ExpireSession(c, p)
       PROVE  UNCHANGED records
  BY <1>10 DEF Assign, ExpireSession, publishing, records
<1>11. ASSUME NEW c \in Consumers, Restart(c)
       PROVE  OnlyHere(b, r)'
  <2>1. UNCHANGED <<todo, pending, durable, approved>>
    BY <1>11 DEF Restart
  <2>2. r \in todo[b] /\ OnlyHere(b, r) /\ Handled' = Handled
    BY <1>1, <2>1 DEF Handled
  <2>3. QED
    BY <2>1, <2>2 DEF OnlyHere
<1>12. QED
  BY <1>0, CalmCases, <1>2, <1>3, <1>4, <1>5, <1>6, <1>7, <1>8, <1>9, <1>10, <1>11

LEMMA CalmStep ==
  ASSUME IInv, CalmWithoutFault, Next
  PROVE  CalmWithoutFault'
<1> SUFFICES ASSUME faults' = 0 PROVE Calm'
  BY DEF CalmWithoutFault
<1>1. TypeOK /\ Calm
  BY CalmCases DEF IInv, CalmWithoutFault
<1>2. (\A c \in Consumers, t \in Topics : ~failed[c][t])'
  BY <1>1, NoFailuresStep
<1>3. (\A c \in Consumers, p \in Partitions : owner[p] = c <=> p \in owned[c])'
  BY <1>1, OwnersKnowStep
<1>4. (\A c \in Consumers : pc[c] = "hookEnd" => \A p \in owned[c] : committed[p] = pos[c][p])'
  BY <1>1, HookCommittedStep
<1>5. (\A r \in Records : Seen(r) => Passed(r))'
  BY <1>1, SeenIsPassedStep
<1>6. NoReplayWithoutFault'
  BY <1>1, OnlyHereStep DEF NoReplayWithoutFault, OnlyHere
<1>7. QED
  BY <1>2, <1>3, <1>4, <1>5, <1>6 DEF Calm

(* As long as there is no fault, no record is scored, parked or published  *)
(* twice, nor in two hands: rebalances, SIGTERMs and restarts commit what  *)
(* they interrupt, wherever they interrupt it.                             *)
THEOREM NothingReplayed == Spec => []NoReplayWithoutFault
<1>1. Init => CalmWithoutFault
  <2> SUFFICES ASSUME Init PROVE Calm
    BY DEF CalmWithoutFault
  <2>1. \A c \in Consumers : /\ owned[c] = {} /\ todo[c] = {} /\ pc[c] = "poll"
                            /\ \A t \in Topics : pending[c][t] = {} /\ ~failed[c][t]
    BY DEF Init, Nothing, NoErrors
  <2>2. Handled = {}
    BY DEF Init, Handled, Nothing, Topics
  <2>3. \A r \in Records : ~Seen(r)
    BY <2>1, <2>2 DEF Seen, Held, Topics
  <2>4. \A p \in Partitions : owner[p] = None
    BY DEF Init
  <2>5. QED
    BY <2>1, <2>3, <2>4, ConstantsAssumption DEF Calm, NoReplayWithoutFault
<1>2. IInv /\ CalmWithoutFault /\ [Next]_vars => CalmWithoutFault'
  <2>1. CASE Next
    BY <2>1, CalmStep
  <2>2. ASSUME IInv, CalmWithoutFault, UNCHANGED vars PROVE CalmWithoutFault'
    BY <2>2 DEF vars, broker, group, publishing, budget, CalmWithoutFault, Calm, Seen, Passed,
       Held, Handled, NoReplayWithoutFault
  <2>3. QED
    BY <2>1, <2>2
<1>3. CalmWithoutFault => NoReplayWithoutFault
  BY DEF CalmWithoutFault, Calm, NoReplayWithoutFault
<1>4. QED
  BY <1>1, <1>2, <1>3, Invariance, PTL DEF Spec
=============================================================================
