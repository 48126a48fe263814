----------------------------- MODULE CaseStore -----------------------------
(***************************************************************************)
(* cases.MemStore (internal/cases/cases.go): the newest MaxOpen open cases, *)
(* and the newest MaxOpen resolved ones, known here by their label and by   *)
(* which resolution it was.  Every operation runs under the store's lock    *)
(* and is one step.  No next-state relation: ReviewQueue drives the store   *)
(* with verdicts and analysts.                                              *)
(***************************************************************************)
EXTENDS Integers, Sequences, FiniteSets, SequencesExt, Filter

CONSTANTS
    Cases,     \* transaction ids; the score of a case is Score[id]
    Score,
    Labels,    \* the resolutions: confirmed_fraud, false_positive
    MaxOpen,   \* capacity: 200 in cmd/api/main.go
    MaxOpens   \* bound: cases ever opened

Resolutions == [nth : Nat \ {0}, label : Labels]

ASSUME StoreAssumption ==
    /\ Score \in [Cases -> Nat] /\ IsFiniteSet(Labels)
    /\ MaxOpen \in Nat \ {0} /\ MaxOpens \in Nat

VARIABLES
    open,      \* ids of the open cases
    openIDs,   \* "exactly the open cases, oldest first"
    openedAt,  \* openedAt[id]: the millisecond an open case was opened in, else 0
    now,       \* that of the newest opening
    counts,    \* counts[label]
    history,   \* the resolved cases, newest last, MaxOpen at most
    opens      \* cases opened so far

store == <<open, openIDs, openedAt, now, counts, history, opens>>

StoreInit ==
    /\ open = {} /\ openIDs = <<>>
    /\ openedAt = [id \in Cases |-> 0]
    /\ counts = [l \in Labels |-> 0]
    /\ history = <<>> /\ opens = 0 /\ now = 0

(* MemStore.Open: a duplicate of an open case is ignored; a full store     *)
(* evicts the front of openIDs.  Two cases may share a millisecond.        *)
Open(id) ==
    IF id \in open THEN UNCHANGED store
    ELSE LET ids == Append(openIDs, id)
             full == Len(ids) > MaxOpen
             evicted == IF full THEN {Head(ids)} ELSE {}
         IN  /\ opens < MaxOpens
             /\ opens' = opens + 1
             /\ now' \in {now, now + 1} \ {0}
             /\ openedAt' = [c \in Cases |-> IF c = id THEN now'
                                           ELSE IF c \in evicted THEN 0 ELSE openedAt[c]]
             /\ open' = (open \cup {id}) \ evicted
             /\ openIDs' = IF full THEN Tail(ids) ELSE ids
             /\ UNCHANGED <<counts, history>>

Found(id) == id \in open

(* Fault: what overflows is the new resolution, not the oldest. *)
OldestKept(s) == SubSeq(s, 1, Min({MaxOpen, Len(s)}))

(* What a full history keeps of s. *)
Newest(s) == SubSeq(s, Len(s) - Min({MaxOpen, Len(s)}) + 1, Len(s))

(* The label counts, and goes with its case into the history. *)
ResolvedTotal == SumFunction(counts)

Labelled(label) ==
    /\ counts' = [counts EXCEPT ![label] = @ + 1]
    /\ history' = Newest(Append(history, [nth |-> ResolvedTotal + 1, label |-> label]))

(* Fault: the id stays in the insertion order. *)
ResolveLeavesID(id, label) ==
    /\ Found(id)
    /\ open' = open \ {id}
    /\ Labelled(label)
    /\ UNCHANGED <<openIDs, openedAt, now, opens>>

(* Fault: the case stays open until the next reload. *)
ResolveKeepsOpen(id, label) ==
    /\ Found(id)
    /\ Labelled(label)
    /\ UNCHANGED <<open, openIDs, openedAt, now, opens>>

(* MemStore.Resolve of an open case; any other id is ErrNotFound.          *)
Resolve(id, label) ==
    /\ Found(id)
    /\ open' = open \ {id}
    /\ openIDs' = Without(openIDs, id)
    /\ openedAt' = [openedAt EXCEPT ![id] = 0]
    /\ Labelled(label)
    /\ UNCHANGED <<now, opens>>

(* MemStore.List of the open cases: highest score first, then the newest.  *)
(* It sorts what ranging over a map yields, so cases that tie come in any  *)
(* order: List may return any member of Lists.                             *)
Before(a, b) ==
    Score[a] > Score[b] \/ (Score[a] = Score[b] /\ openedAt[a] > openedAt[b])

Lists(limit) ==
    { SubSeq(order, 1, Min({limit, Len(order)})) : order \in
        { s \in SetToSeqs(open) : \A i, j \in DOMAIN s : i < j => ~Before(s[j], s[i]) } }

(* MemStore.List of the resolved cases: the newest resolution first. *)
ListResolved(limit) ==
    [i \in 1 .. Min({limit, Len(history)}) |-> history[Len(history) + 1 - i]]

----------------------------------------------------------------------------
(* Properties. *)

StoreTypeOK ==
    /\ open \subseteq Cases /\ openIDs \in Seq(Cases)
    /\ openedAt \in [Cases -> 0 .. now] /\ now \in 0 .. opens /\ opens \in 0 .. MaxOpens
    /\ counts \in [Labels -> 0 .. MaxOpens]
    /\ history \in Seq(Resolutions) /\ Len(history) <= MaxOpen

(* The insertion order lists each open case once, oldest first, and no     *)
(* other: it cannot grow without bound, whatever is resolved and reopened. *)
OldestFirst ==
    /\ Range(openIDs) = open /\ IsInjective(openIDs) /\ Len(openIDs) <= MaxOpen
    /\ \A i, j \in DOMAIN openIDs : i < j => openedAt[openIDs[i]] <= openedAt[openIDs[j]]

(* An opened case is labelled at most once: two analysts who resolve it    *)
(* cannot both be counted as training labels.  What GET /api/cases lists   *)
(* as resolved is the newest resolutions, each once and the last one       *)
(* first, as many as were made or the cap allows, and the counters have    *)
(* counted every label in it.                                              *)
EachOpeningLabelledOnce ==
    /\ ResolvedTotal + Cardinality(open) <= opens
    /\ LET listed == ListResolved(MaxOpen) IN
          /\ Len(listed) = Min({MaxOpen, ResolvedTotal})
          /\ \A i \in DOMAIN listed : listed[i].nth = ResolvedTotal + 1 - i
          /\ \A l \in Labels :
                Cardinality({i \in DOMAIN listed : listed[i].label = l}) <= counts[l]
=============================================================================
