------------------------------ MODULE Delivery ------------------------------
(***************************************************************************)
(* What the scoring pipeline promises of the transactions topic (README,   *)
(* "Delivery semantics"): an offset is committed only when every record    *)
(* below it has been dealt with, and a commit is never taken back.  There  *)
(* are no processes, batches, buffers or rebalances here: KafkaConsumer    *)
(* is shown to implement this specification.                               *)
(***************************************************************************)
EXTENDS Integers

CONSTANTS Partitions, MaxLog

Records == Partitions \X (0 .. MaxLog - 1)

VARIABLES
    head,       \* head[p]: the number of records appended to partition p
    committed,  \* committed[p]: the group's committed offset of partition p
    handled     \* records whose outcome can no longer be lost

vars == <<head, committed, handled>>

Init ==
    /\ head = [p \in Partitions |-> 0]
    /\ committed = [p \in Partitions |-> 0]
    /\ handled = {}

Append(p) ==
    /\ head[p] < MaxLog
    /\ head' = [head EXCEPT ![p] = @ + 1]
    /\ UNCHANGED <<committed, handled>>

(* An appended record reaches its outcome: approved, or flagged with its   *)
(* verdict published, or parked on the dead letter queue.                  *)
Handle(r) ==
    /\ r[2] < head[r[1]]
    /\ handled' = handled \cup {r}
    /\ UNCHANGED <<head, committed>>

(* The group's offsets move forward, over handled records only.            *)
Commit ==
    /\ \E next \in [Partitions -> 0 .. MaxLog] :
          /\ \A p \in Partitions : committed[p] <= next[p] /\ next[p] <= head[p]
          /\ \A r \in Records : r[2] < next[r[1]] => r \in handled
          /\ committed' = next
    /\ UNCHANGED <<head, handled>>

Next ==
    \/ \E p \in Partitions : Append(p)
    \/ \E r \in Records : Handle(r)
    \/ Commit

Spec == Init /\ [][Next]_vars
=============================================================================
