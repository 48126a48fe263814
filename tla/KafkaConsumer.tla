--------------------------- MODULE KafkaConsumer ---------------------------
(***************************************************************************)
(* The Kafka side of the scoring API: internal/kafka/kafka.go, the hook    *)
(* and the shutdown of cmd/api/main.go, against a broker with one consumer *)
(* group.  Each member of Consumers is one API process: a poll loop        *)
(* (poll, decode, score, flush, commit, AllowRebalance), two asynchronous  *)
(* producers (verdicts and DLQ) with a sticky failure counter each, and a  *)
(* revoke hook that runs between batches and when the client is closed.    *)
(* The verdict producer also serves the simulator and HTTP ingest.         *)
(*                                                                         *)
(* The environment appends records, moves partitions between members,      *)
(* evicts a silent member, settles or fails a publish, fails a commit,     *)
(* signals or kills a process and restarts it.  MaxFaults bounds what is   *)
(* an infrastructure fault, MaxMoves the orderly events (a rebalance, a    *)
(* SIGTERM) and MaxLog the records appended to a partition.                *)
(***************************************************************************)
EXTENDS Integers

CONSTANTS
    Consumers,     \* API processes of the group "lambari-scoring"
    Partitions,    \* partitions of the topic "transactions"
    None,          \* "no member owns it"
    Undecodable,   \* records that never decode or validate
    MaxLog, MaxFaults, MaxMoves

Offsets == 0 .. MaxLog - 1
Records == Partitions \X Offsets
Topics == {"dlq", "verdicts"}

ASSUME ConstantsAssumption ==
    /\ MaxLog \in Nat /\ MaxFaults \in Nat /\ MaxMoves \in Nat
    /\ Consumers # {} /\ None \notin Consumers
    /\ Undecodable \subseteq Records

VARIABLES
    \* the broker
    head,       \* head[p]: records appended to p
    committed,  \* committed[p]: the group's committed offset
    owner,      \* owner[p]: the member the group coordinator gave p to
    \* each process
    pc,         \* where its Run loop stands
    owned,      \* partitions its client believes it owns
    pos,        \* pos[c][p]: first offset not yet returned by a poll
    todo,       \* records of the batch in hand, not yet routed or scored
    pending,    \* pending[c][t]: publishes of polled records buffered for topic t
    failed,     \* failed[c][t]: publishErrors of the producer of topic t
    ctxDone,    \* the signal context is cancelled
    runErr,     \* Run has failed with "publish failed, not committing"
    revoking,   \* partitions the revoke hook in progress gives up
    leaving,    \* that hook was started by client.Close
    lastOffset, \* lag tracker: last offset read of a partition, or NotSeen
    lag,        \* lag tracker: its lag, exported while it is seen
    \* outcomes that no crash can undo
    approved,   \* records scored as approve: nothing has to be published
    durable,    \* durable[t]: records whose publish to topic t is stored
    \* budgets
    faults, moves

broker == <<head, committed, owner>>
tracker == <<lastOffset, lag>>
group == <<owned, pos, revoking, leaving, tracker>>
publishing == <<pending, failed, durable>>
budget == <<faults, moves>>
vars == <<broker, pc, group, todo, publishing, ctxDone, runErr, approved, budget>>

Stopped == {"crashed", "exit0", "exit1"}
PCs == Stopped \cup
       {"poll", "decode", "score", "flushDLQ", "flushVerdicts", "commit", "allow",
        "hookDLQ", "hookVerdicts", "hookCommit", "hookEnd", "returned"}

Nothing == [t \in Topics |-> {}]
NoErrors == [t \in Topics |-> FALSE]
Start == [p \in Partitions |-> 0]
NotSeen == -1
NeverRead == [p \in Partitions |-> NotSeen]

Init ==
    /\ head = Start
    /\ committed = Start
    /\ owner = [p \in Partitions |-> None]
    /\ pc = [c \in Consumers |-> "poll"]
    /\ owned = [c \in Consumers |-> {}]
    /\ pos = [c \in Consumers |-> Start]
    /\ todo = [c \in Consumers |-> {}]
    /\ pending = [c \in Consumers |-> Nothing]
    /\ failed = [c \in Consumers |-> NoErrors]
    /\ ctxDone = [c \in Consumers |-> FALSE]
    /\ runErr = [c \in Consumers |-> FALSE]
    /\ revoking = [c \in Consumers |-> {}]
    /\ leaving = [c \in Consumers |-> FALSE]
    /\ lastOffset = [c \in Consumers |-> NeverRead]
    /\ lag = [c \in Consumers |-> Start]
    /\ approved = {}
    /\ durable = Nothing
    /\ faults = 0
    /\ moves = 0

Goto(c, label) == pc' = [pc EXCEPT ![c] = label]
Fault == faults < MaxFaults /\ faults' = faults + 1 /\ UNCHANGED moves
Move == moves < MaxMoves /\ moves' = moves + 1 /\ UNCHANGED faults

----------------------------------------------------------------------------
(* The broker and the group coordinator.                                   *)

(* A producer's record reaches the log.                                    *)
Append(p) ==
    /\ head[p] < MaxLog
    /\ head' = [head EXCEPT ![p] = @ + 1]
    /\ UNCHANGED <<committed, owner, pc, group, todo, publishing, ctxDone, runErr,
                   approved, budget>>

(* A rebalance gives a free partition to a member; reading resumes from    *)
(* the committed offset.  BlockRebalanceOnPoll: only between batches.      *)
Assign(c, p) ==
    /\ pc[c] = "poll" /\ ~ctxDone[c]
    /\ owner[p] = None /\ p \notin owned[c]
    /\ owner' = [owner EXCEPT ![p] = c]
    /\ owned' = [owned EXCEPT ![c] = @ \cup {p}]
    /\ pos' = [pos EXCEPT ![c][p] = committed[p]]
    /\ UNCHANGED <<head, committed, pc, revoking, leaving, tracker, todo, publishing,
                   ctxDone, runErr, approved, budget>>

(* The coordinator drops a live member that missed its heartbeats or the   *)
(* rebalance timeout.  The member does not know yet.                       *)
Evict(c) ==
    /\ Fault
    /\ \E p \in owned[c] : owner[p] = c
    /\ owner' = [p \in Partitions |-> IF owner[p] = c THEN None ELSE owner[p]]
    /\ UNCHANGED <<head, committed, pc, group, todo, publishing, ctxDone, runErr, approved>>

(* The session of a dead member times out, and its partition is free.      *)
ExpireSession(c, p) ==
    /\ owner[p] = c /\ p \notin owned[c]
    /\ owner' = [owner EXCEPT ![p] = None]
    /\ UNCHANGED <<head, committed, pc, group, todo, publishing, ctxDone, runErr,
                   approved, budget>>

(* A commit moves the offsets of the partitions in accepted to the polled  *)
(* positions.  The coordinator refuses a member that no longer owns them;  *)
(* any other shortfall is a commit that failed in part or as a whole.      *)
Claims(c) == {p \in owned[c] : owner[p] = c}

(* Fault: the offset committed is one past the next record to read.        *)
CommitOnePast(c, accepted) ==
    /\ accepted \subseteq Claims(c)
    /\ committed' = [p \in Partitions |->
                        IF p \in accepted THEN pos[c][p] + 1 ELSE committed[p]]

CommitUncommitted(c, accepted) ==
    /\ accepted \subseteq Claims(c)
    /\ committed' = [p \in Partitions |->
                        IF p \in accepted THEN pos[c][p] ELSE committed[p]]

----------------------------------------------------------------------------
(* The asynchronous producers.                                             *)

(* The broker acknowledges a buffered publish.                             *)
Ack(c, t, r) ==
    /\ r \in pending[c][t]
    /\ pending' = [pending EXCEPT ![c][t] = @ \ {r}]
    /\ durable' = [durable EXCEPT ![t] = @ \cup {r}]
    /\ UNCHANGED <<broker, pc, group, todo, failed, ctxDone, runErr, approved, budget>>

(* A publish is given up: its callback counts the error, for good.         *)
PublishFails(c, t, r) ==
    /\ Fault
    /\ r \in pending[c][t]
    /\ pending' = [pending EXCEPT ![c][t] = @ \ {r}]
    /\ failed' = [failed EXCEPT ![c][t] = TRUE]
    /\ UNCHANGED <<broker, pc, group, todo, durable, ctxDone, runErr, approved>>

(* So is that of a verdict which is not the consumer's: simulator and HTTP *)
(* ingest publish through the same producer, whenever they like.  While it *)
(* is buffered it only keeps a flush waiting.                              *)
OtherPublishFails(c) ==
    /\ Fault
    /\ pc[c] \notin Stopped
    /\ failed' = [failed EXCEPT ![c]["verdicts"] = TRUE]
    /\ UNCHANGED <<broker, pc, group, todo, pending, durable, ctxDone, runErr, approved>>

Drained(c, t) == pending[c][t] = {}

(* Fault: Flush reports kgo's own error only, which is nil either way.     *)
CheckFindsNothing(c, t) == FALSE

(* publishErrors.check *)
Check(c, t) == failed[c][t]

FlushOK(c, t) == Drained(c, t) /\ ~Check(c, t)
FlushErr(c, t) == (Drained(c, t) /\ Check(c, t)) \/ ctxDone[c]

----------------------------------------------------------------------------
(* The poll loop of Consumer.Run.                                          *)

(* The lag tracker takes the fetched partitions' last offsets and high     *)
(* watermarks, which may trail; one never read stays unknown.              *)
Observe(c, fetched, next, watermark) ==
    /\ lastOffset' = [lastOffset EXCEPT ![c] =
          [p \in Partitions |->
              IF p \in fetched /\ pos[c][p] < next[p] THEN next[p] - 1 ELSE @[p]]]
    /\ lag' = [lag EXCEPT ![c] =
          [p \in Partitions |->
              IF p \notin fetched \/ lastOffset'[c][p] = NotSeen THEN @[p]
              ELSE IF watermark[p] <= lastOffset'[c][p] THEN 0
              ELSE watermark[p] - lastOffset'[c][p] - 1]]

(* Forget: a partition given up is not reported any more. *)
Forget(c, parts) ==
    /\ lastOffset' = [lastOffset EXCEPT ![c] =
          [p \in Partitions |-> IF p \in parts THEN NotSeen ELSE @[p]]]
    /\ lag' = [lag EXCEPT ![c] = [p \in Partitions |-> IF p \in parts THEN 0 ELSE @[p]]]

(* PollFetches returns records: any run of new records of each partition   *)
(* fetched, all but those whose fetch failed.  A poll that was already     *)
(* waiting when the context was cancelled may still return them.           *)
Fetch(c, fetched, next, watermark) ==
    /\ pc[c] = "poll"
    /\ \A p \in fetched :
          pos[c][p] <= next[p] /\ next[p] <= head[p] /\ watermark[p] <= head[p]
    /\ Observe(c, fetched, next, watermark)

Poll(c) ==
    /\ \E fetched \in SUBSET owned[c] :
       \E next \in [fetched -> 0 .. MaxLog], watermark \in [fetched -> 0 .. MaxLog] :
          /\ Fetch(c, fetched, next, watermark)
          /\ \E p \in fetched : pos[c][p] < next[p]
          /\ pos' = [pos EXCEPT ![c] =
                        [p \in Partitions |-> IF p \in fetched THEN next[p] ELSE @[p]]]
          /\ todo' = [todo EXCEPT ![c] =
                        {r \in Records : /\ r[1] \in fetched
                                         /\ pos[c][r[1]] <= r[2] /\ r[2] < next[r[1]]}]
    /\ Goto(c, "decode")
    /\ UNCHANGED <<broker, owned, revoking, leaving, publishing, ctxDone, runErr,
                   approved, budget>>

(* PollFetches returns watermarks and no record: the loop polls again.     *)
PollEmpty(c) ==
    /\ \E fetched \in SUBSET owned[c] : \E watermark \in [fetched -> 0 .. MaxLog] :
          Fetch(c, fetched, pos[c], watermark)
    /\ UNCHANGED <<broker, pc, owned, pos, revoking, leaving, todo, publishing, ctxDone,
                   runErr, approved, budget>>

(* PollFetches returns nothing but the cancellation.  (A poll that returns *)
(* only fetch errors sleeps and polls again: no state changes.)            *)
PollCancelled(c) ==
    /\ pc[c] = "poll" /\ ctxDone[c]
    /\ Goto(c, "allow")
    /\ UNCHANGED <<broker, group, todo, publishing, ctxDone, runErr, approved, budget>>

(* Fault: an invalid record is logged and dropped.                         *)
DecodeDrops(c) ==
    /\ pc[c] = "decode"
    /\ \E parked \in SUBSET todo[c] :
          /\ todo[c] \cap Undecodable \subseteq parked
          /\ todo' = [todo EXCEPT ![c] = @ \ parked]
    /\ Goto(c, "score")
    /\ UNCHANGED <<broker, group, publishing, ctxDone, runErr, approved, budget>>

(* handleRecords up to SubmitBatch: what does not decode or does not       *)
(* validate goes to the DLQ.  Validity depends on the clock (a timestamp   *)
(* too far in the future), so a decodable record may be parked or not.     *)
Decode(c) ==
    /\ pc[c] = "decode"
    /\ \E parked \in SUBSET todo[c] :
          /\ todo[c] \cap Undecodable \subseteq parked
          /\ todo' = [todo EXCEPT ![c] = @ \ parked]
          /\ pending' = [pending EXCEPT ![c]["dlq"] = @ \cup parked]
    /\ Goto(c, "score")
    /\ UNCHANGED <<broker, group, failed, durable, ctxDone, runErr, approved, budget>>

(* An engine worker scores one record of the batch, in any order, and the  *)
(* OnFlagged hook buffers the verdict of a flagged one.  The decision      *)
(* depends on the velocity windows, so a replay may decide otherwise.      *)
Score(c, r) ==
    /\ pc[c] = "score"
    /\ r \in todo[c]
    /\ todo' = [todo EXCEPT ![c] = @ \ {r}]
    /\ \/ approved' = approved \cup {r} /\ UNCHANGED pending
       \/ pending' = [pending EXCEPT ![c]["verdicts"] = @ \cup {r}] /\ UNCHANGED approved
    /\ UNCHANGED <<broker, pc, group, failed, durable, ctxDone, runErr, budget>>

(* Fault: SubmitBatch returns once the batch is enqueued.                  *)
BatchReturnsOnEnqueue(c) ==
    /\ pc[c] = "score"
    /\ Goto(c, "flushDLQ")
    /\ UNCHANGED <<broker, group, todo, publishing, ctxDone, runErr, approved, budget>>

(* SubmitBatch returns when every transaction of the batch is scored.      *)
SubmitBatchReturns(c) ==
    /\ pc[c] = "score" /\ todo[c] = {}
    /\ Goto(c, "flushDLQ")
    /\ UNCHANGED <<broker, group, todo, publishing, ctxDone, runErr, approved, budget>>

(* processBatch: Consumer.flush waits for the DLQ, then for the verdicts.  *)
FlushDLQ(c) ==
    /\ pc[c] = "flushDLQ" /\ FlushOK(c, "dlq")
    /\ Goto(c, "flushVerdicts")
    /\ UNCHANGED <<broker, group, todo, publishing, ctxDone, runErr, approved, budget>>

FlushVerdicts(c) ==
    /\ pc[c] = "flushVerdicts" /\ FlushOK(c, "verdicts")
    /\ Goto(c, "commit")
    /\ UNCHANGED <<broker, group, todo, publishing, ctxDone, runErr, approved, budget>>

(* A failed flush ends Run with an error, unless it is a shutdown that     *)
(* interrupted it: then Run goes on to leave the group.                    *)
FlushFails(c) ==
    /\ \/ pc[c] = "flushDLQ" /\ FlushErr(c, "dlq")
       \/ pc[c] = "flushVerdicts" /\ FlushErr(c, "verdicts")
    /\ runErr' = [runErr EXCEPT ![c] = ~ctxDone[c]]
    /\ Goto(c, "allow")
    /\ UNCHANGED <<broker, group, todo, publishing, ctxDone, approved, budget>>

(* The commit of processBatch.  Its error is logged and nothing else.      *)
Commit(c) ==
    /\ pc[c] = "commit"
    /\ CommitUncommitted(c, Claims(c))
    /\ Goto(c, "allow")
    /\ UNCHANGED <<head, owner, group, todo, publishing, ctxDone, runErr, approved, budget>>

CommitFails(c) ==
    /\ pc[c] = "commit"
    /\ IF ctxDone[c] THEN UNCHANGED budget ELSE Fault
    /\ \E accepted \in SUBSET Claims(c) :
          accepted # Claims(c) /\ CommitUncommitted(c, accepted)
    /\ Goto(c, "allow")
    /\ UNCHANGED <<head, owner, group, todo, publishing, ctxDone, runErr, approved>>

(* AllowRebalance, then the tests that end Run's loop.  The deferred       *)
(* client.Close runs the revoke hook on everything still owned.            *)
AllowRebalance(c) ==
    /\ pc[c] = "allow"
    /\ IF runErr[c] \/ ctxDone[c]
       THEN /\ Goto(c, "hookDLQ")
            /\ revoking' = [revoking EXCEPT ![c] = owned[c]]
            /\ leaving' = [leaving EXCEPT ![c] = TRUE]
            /\ Forget(c, owned[c])
       ELSE /\ Goto(c, "poll")
            /\ UNCHANGED <<revoking, leaving, tracker>>
    /\ UNCHANGED <<broker, owned, pos, todo, publishing, ctxDone, runErr, approved, budget>>

----------------------------------------------------------------------------
(* The OnPartitionsRevoked hook and OnPartitionsLost.                      *)

(* Fault: BlockRebalanceOnPoll is not set.                                 *)
RevokeMidBatch(c, parts) ==
    /\ Move
    /\ pc[c] \in {"poll", "score"}
    /\ parts # {} /\ parts \subseteq Claims(c)
    /\ revoking' = [revoking EXCEPT ![c] = parts]
    /\ Forget(c, parts)
    /\ Goto(c, "hookDLQ")
    /\ UNCHANGED <<broker, owned, pos, leaving, todo, publishing, ctxDone, runErr, approved>>

(* Fault: the hook does not forget the lag of the partitions.              *)
RevokeKeepsLag(c, parts) ==
    /\ Move
    /\ pc[c] = "poll"
    /\ parts # {} /\ parts \subseteq Claims(c)
    /\ revoking' = [revoking EXCEPT ![c] = parts]
    /\ Goto(c, "hookDLQ")
    /\ UNCHANGED <<broker, owned, pos, leaving, tracker, todo, publishing, ctxDone, runErr,
                   approved>>

(* A rebalance asks for some partitions back; the hook forgets their lag.  *)
Revoke(c, parts) ==
    /\ Move
    /\ pc[c] = "poll"
    /\ parts # {} /\ parts \subseteq Claims(c)
    /\ revoking' = [revoking EXCEPT ![c] = parts]
    /\ Forget(c, parts)
    /\ Goto(c, "hookDLQ")
    /\ UNCHANGED <<broker, owned, pos, leaving, todo, publishing, ctxDone, runErr, approved>>

(* The hook's flush runs under the client's context, not the signal's.     *)
HookFlushDLQ(c) ==
    /\ pc[c] = "hookDLQ" /\ Drained(c, "dlq")
    /\ Goto(c, IF Check(c, "dlq") THEN "hookEnd" ELSE "hookVerdicts")
    /\ UNCHANGED <<broker, group, todo, publishing, ctxDone, runErr, approved, budget>>

HookFlushVerdicts(c) ==
    /\ pc[c] = "hookVerdicts" /\ Drained(c, "verdicts")
    /\ Goto(c, IF Check(c, "verdicts") THEN "hookEnd" ELSE "hookCommit")
    /\ UNCHANGED <<broker, group, todo, publishing, ctxDone, runErr, approved, budget>>

(* Fault: the hook gives the partitions up without committing.             *)
HookOnlyFlushes(c) ==
    /\ pc[c] = "hookCommit"
    /\ Goto(c, "hookEnd")
    /\ UNCHANGED <<broker, group, todo, publishing, ctxDone, runErr, approved, budget>>

HookCommit(c) ==
    /\ pc[c] = "hookCommit"
    /\ CommitUncommitted(c, Claims(c))
    /\ Goto(c, "hookEnd")
    /\ UNCHANGED <<head, owner, group, todo, publishing, ctxDone, runErr, approved, budget>>

HookCommitFails(c) ==
    /\ pc[c] = "hookCommit"
    /\ Fault
    /\ \E accepted \in SUBSET Claims(c) :
          accepted # Claims(c) /\ CommitUncommitted(c, accepted)
    /\ Goto(c, "hookEnd")
    /\ UNCHANGED <<head, owner, group, todo, publishing, ctxDone, runErr, approved>>

(* The partitions are released: to the group by a rebalance, or because    *)
(* the member leaves.  After Close the consumer goroutine ends and, if Run *)
(* returned an error, cancels the context of main.                         *)
Release(c, parts) ==
    /\ owner' = [p \in Partitions |-> IF p \in parts /\ owner[p] = c THEN None ELSE owner[p]]
    /\ owned' = [owned EXCEPT ![c] = @ \ parts]
    /\ pos' = [pos EXCEPT ![c] = [p \in Partitions |-> IF p \in parts THEN 0 ELSE @[p]]]
    /\ revoking' = [revoking EXCEPT ![c] = {}]

(* Fault: the consumer goroutine logs Run's error and main keeps waiting.  *)
HookEndsNoCancel(c) ==
    /\ pc[c] = "hookEnd"
    /\ Release(c, revoking[c])
    /\ Goto(c, IF leaving[c] THEN "returned" ELSE "poll")
    /\ UNCHANGED <<ctxDone, head, committed, leaving, tracker, todo, publishing, runErr, approved, budget>>

HookEnds(c) ==
    /\ pc[c] = "hookEnd"
    /\ Release(c, revoking[c])
    /\ Goto(c, IF leaving[c] THEN "returned" ELSE "poll")
    /\ ctxDone' = [ctxDone EXCEPT ![c] = @ \/ runErr[c]]
    /\ UNCHANGED <<head, committed, leaving, tracker, todo, publishing, runErr, approved,
                   budget>>

(* The client learns that it was dropped.  Nothing can be committed.       *)
Lost(c) ==
    /\ pc[c] = "poll"
    /\ owned[c] # Claims(c)
    /\ Release(c, owned[c])
    /\ Forget(c, owned[c])
    /\ UNCHANGED <<head, committed, pc, leaving, todo, publishing, ctxDone, runErr,
                   approved, budget>>

----------------------------------------------------------------------------
(* The process.                                                            *)

Sigterm(c) ==
    /\ Move
    /\ pc[c] \notin Stopped /\ ~ctxDone[c]
    /\ ctxDone' = [ctxDone EXCEPT ![c] = TRUE]
    /\ UNCHANGED <<broker, pc, group, todo, publishing, runErr, approved>>

(* main waits for ctx and for the consumer, and exits 1 if Run failed.     *)
(* What is still buffered then is gone; the failure counters are kept for  *)
(* the record only.                                                        *)
Exit(c) ==
    /\ pc[c] = "returned" /\ ctxDone[c]
    /\ Goto(c, IF runErr[c] THEN "exit1" ELSE "exit0")
    /\ pending' = [pending EXCEPT ![c] = Nothing]
    /\ UNCHANGED <<broker, group, todo, failed, durable, ctxDone, runErr, approved, budget>>

(* The process dies at any point (a kill, a panic, or the consumer missing *)
(* main's ten seconds): all it held is gone, its group session lingers.    *)
Crash(c) ==
    /\ Fault
    /\ pc[c] \notin Stopped
    /\ Goto(c, "crashed")
    /\ owned' = [owned EXCEPT ![c] = {}]
    /\ pos' = [pos EXCEPT ![c] = Start]
    /\ Forget(c, Partitions)
    /\ todo' = [todo EXCEPT ![c] = {}]
    /\ pending' = [pending EXCEPT ![c] = Nothing]
    /\ revoking' = [revoking EXCEPT ![c] = {}]
    /\ UNCHANGED <<broker, leaving, failed, durable, ctxDone, runErr, approved>>

Restart(c) ==
    /\ pc[c] \in Stopped
    /\ Goto(c, "poll")
    /\ failed' = [failed EXCEPT ![c] = NoErrors]
    /\ ctxDone' = [ctxDone EXCEPT ![c] = FALSE]
    /\ runErr' = [runErr EXCEPT ![c] = FALSE]
    /\ leaving' = [leaving EXCEPT ![c] = FALSE]
    /\ UNCHANGED <<broker, owned, pos, tracker, todo, pending, durable, revoking, approved,
                   budget>>

----------------------------------------------------------------------------
(* What a process does by itself. *)
Loop(c) ==
    \/ Poll(c) \/ PollCancelled(c) \/ Decode(c) \/ SubmitBatchReturns(c)
    \/ \E r \in Records : Score(c, r)
    \/ FlushDLQ(c) \/ FlushVerdicts(c) \/ FlushFails(c)
    \/ Commit(c) \/ AllowRebalance(c)
    \/ HookFlushDLQ(c) \/ HookFlushVerdicts(c) \/ HookCommit(c) \/ HookEnds(c)
    \/ Lost(c) \/ Exit(c) \/ Restart(c)

Next ==
    \/ \E p \in Partitions : Append(p)
    \/ \E c \in Consumers :
          \/ Loop(c)
          \/ \E p \in Partitions : Assign(c, p) \/ ExpireSession(c, p)
          \/ \E t \in Topics, r \in Records : Ack(c, t, r) \/ PublishFails(c, t, r)
          \/ \E parts \in SUBSET Partitions : Revoke(c, parts)
          \/ PollEmpty(c) \/ CommitFails(c) \/ HookCommitFails(c)
          \/ OtherPublishFails(c) \/ Evict(c) \/ Sigterm(c) \/ Crash(c)

Spec == Init /\ [][Next]_vars

(* Every process takes its steps, the broker answers, the coordinator      *)
(* hands out free partitions and times dead sessions out, and a stopped    *)
(* process is restarted.  Appends, faults and moves are never owed.        *)
Fairness ==
    \A c \in Consumers :
        /\ WF_vars(Loop(c))
        /\ \A p \in Partitions : WF_vars(Assign(c, p)) /\ WF_vars(ExpireSession(c, p))
        /\ \A t \in Topics, r \in Records : WF_vars(Ack(c, t, r))

FairSpec == Spec /\ Fairness

----------------------------------------------------------------------------
(* Properties.                                                             *)

(* Every variable keeps its type: in particular no position and no         *)
(* committed offset leaves the log's range.                                *)
TypeOK ==
    /\ head \in [Partitions -> 0 .. MaxLog]
    /\ committed \in [Partitions -> 0 .. MaxLog]
    /\ owner \in [Partitions -> Consumers \cup {None}]
    /\ pc \in [Consumers -> PCs]
    /\ owned \in [Consumers -> SUBSET Partitions]
    /\ pos \in [Consumers -> [Partitions -> 0 .. MaxLog]]
    /\ todo \in [Consumers -> SUBSET Records]
    /\ pending \in [Consumers -> [Topics -> SUBSET Records]]
    /\ failed \in [Consumers -> [Topics -> BOOLEAN]]
    /\ ctxDone \in [Consumers -> BOOLEAN]
    /\ runErr \in [Consumers -> BOOLEAN]
    /\ revoking \in [Consumers -> SUBSET Partitions]
    /\ leaving \in [Consumers -> BOOLEAN]
    /\ lastOffset \in [Consumers -> [Partitions -> NotSeen .. MaxLog - 1]]
    /\ lag \in [Consumers -> [Partitions -> 0 .. MaxLog]]
    /\ approved \in SUBSET Records
    /\ durable \in [Topics -> SUBSET Records]
    /\ faults \in 0 .. MaxFaults
    /\ moves \in 0 .. MaxMoves

Handled == approved \cup durable["dlq"] \cup durable["verdicts"]

(* Delivery is at-least-once: whatever crashes, rebalances, evictions and  *)
(* failed publishes or commits happen, a record below the group's          *)
(* committed offset was approved, or its verdict or DLQ record is stored.  *)
AtLeastOnce == \A r \in Records : r[2] < committed[r[1]] => r \in Handled

(* A record that never decodes is not dropped: once committed past, it is  *)
(* on the dead letter queue.                                               *)
PoisonParked ==
    \A r \in Undecodable : r[2] < committed[r[1]] => r \in durable["dlq"]

(* One lost publish stops committing for good: until its restart a process *)
(* whose producers ever failed a publish begins no commit.  (A verdict of  *)
(* the simulator or of an HTTP request may still fail when a commit has    *)
(* already been decided: that one goes through, and is the last.)          *)
Committing == {"commit", "hookCommit"}
StopsCommittingForGood ==
    [][\A c \in Consumers, t \in Topics : failed[c][t] =>
          /\ pc'[c] \in Committing => pc'[c] = pc[c]
          /\ \/ t = "verdicts" /\ pc[c] \in Committing
             \/ \A p \in Partitions : owner[p] = c => committed'[p] = committed[p]
          /\ failed'[c][t] \/ pc[c] \in Stopped]_vars

(* Rebalances, SIGTERMs and restarts alone replay nothing: with no fault,  *)
(* a record in a batch was not scored, parked or published before, and no  *)
(* other process holds it.                                                 *)
NoReplayWithoutFault ==
    faults = 0 =>
        \A c \in Consumers : \A r \in todo[c] :
            /\ r \notin Handled
            /\ \A d \in Consumers : \A t \in Topics : r \notin pending[d][t]
            /\ \A d \in Consumers \ {c} : r \notin todo[d]

(* The lag a process exports is a backlog it is reading: none of a         *)
(* partition that it lost, gave up or is giving up, which the new owner    *)
(* reports, and at most what lies between its position and the head.       *)
Reported(c) == {p \in Partitions : lastOffset[c][p] # NotSeen}
LagIsOwnBacklog ==
    \A c \in Consumers : \A p \in Reported(c) :
        /\ p \in owned[c] \ revoking[c]
        /\ lag[c][p] <= head[p] - pos[c][p]

(* Every appended record in the end reaches its outcome: no crash,         *)
(* eviction, lost publish or shutdown leaves a partition stuck.  (Its      *)
(* offset may stay uncommitted: a commit that failed is only covered by    *)
(* that of a later batch.)                                                 *)
EveryRecordHandled ==
    \A r \in Records : r[2] < head[r[1]] ~> r \in Handled

(* KafkaConsumer implements Delivery: no commit moves backwards, past the  *)
(* log or over a record whose outcome could still be lost.                 *)
Promise == INSTANCE Delivery WITH handled <- Handled
KeepsPromise == Promise!Spec
=============================================================================
