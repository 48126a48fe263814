---------------------------- MODULE BatchScoring ----------------------------
(***************************************************************************)
(* What the engine promises its callers: every transaction it took is      *)
(* scored exactly once, and SubmitBatch returns only when all of its       *)
(* transactions have been scored and their verdicts handed over.  There    *)
(* are no queues and no workers here; Engine is shown to implement this.   *)
(* KafkaConsumer's Score and SubmitBatchReturns take the engine to be just *)
(* this.                                                                   *)
(***************************************************************************)
EXTENDS Integers

CONSTANTS
    Txs,
    Batches   \* Batches[c]: the transactions of the SubmitBatch call c

VARIABLES
    taken,    \* transactions the engine accepted
    scored,   \* ... and scored, hook included
    returned  \* calls of SubmitBatch that returned

vars == <<taken, scored, returned>>

Init == taken = {} /\ scored = {} /\ returned = {}

Take(t) ==
    /\ t \notin taken
    /\ taken' = taken \cup {t}
    /\ UNCHANGED <<scored, returned>>

ScoreOne(t) ==
    /\ t \in taken \ scored
    /\ scored' = scored \cup {t}
    /\ UNCHANGED <<taken, returned>>

Return(c) ==
    /\ c \notin returned /\ Batches[c] \subseteq scored
    /\ returned' = returned \cup {c}
    /\ UNCHANGED <<taken, scored>>

Next ==
    \/ \E t \in Txs : Take(t) \/ ScoreOne(t)
    \/ \E c \in DOMAIN Batches : Return(c)

Spec == Init /\ [][Next]_vars
=============================================================================
