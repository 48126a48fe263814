---------------------------- MODULE ReviewQueue ----------------------------
(***************************************************************************)
(* An analyst's review queue: CaseStore on the server, the SSE stream of    *)
(* internal/api/server.go that carries the top of the queue, the resolve    *)
(* request, and the reducer of frontend/src/lib/casesReducer.ts as          *)
(* components/ReviewQueue.tsx drives it.  A second analyst works on the     *)
(* same store.                                                              *)
(*                                                                          *)
(* The stream delivers its frames in order, the answer to a request comes   *)
(* over another connection: the two overtake each other freely.  Requests   *)
(* and answers get lost and the stream reconnects, MaxFaults times.         *)
(***************************************************************************)
EXTENDS CaseStore, FiniteSetsExt

CONSTANTS
    None,
    QueueInStream,   \* queueInStream: cases per frame
    MaxFrames,       \* bound: frames under way
    MaxFaults

(* The part of a frame that changes, a resolve request and where its answer *)
(* stands, and a row with its place.                                       *)
Sent == [queue : Seq(Cases), scored : Nat, counts : [Labels -> Nat]]
Requests == [id : Cases, label : Labels, status : {"sent", "ok", "gone", "fail"}]
Rows == [c : Cases, index : Nat \ {0}]

ASSUME QueueAssumption ==
    /\ None \notin Cases \cup Sent \cup Requests \cup Rows
    /\ QueueInStream \in Nat \ {0} /\ MaxFrames \in Nat \ {0} /\ MaxFaults \in Nat

VARIABLES
    \* the connection
    frames,    \* frames on their way, oldest first
    lastSent,  \* what the handler compares the next frame with, or None
    sending,   \* the handler found a change and marshals again
    request,   \* the resolve request, or None
    \* QueueState of the reducer
    cases, busy, pending, paused, deferred,
    \* history
    told,      \* cases the analyst knows to be gone, not reopened since
    tainted,   \* ... which a frame under way still listed when the answer came
    held,      \* the reducer kept a case of the latest frame out, or put one back
    faults

handler == <<lastSent, sending>>
connection == <<frames, handler, request>>
queueState == <<cases, busy, pending, paused, deferred>>
ghosts == <<told, tainted, held>>
vars == <<store, connection, queueState, ghosts, faults>>

Init ==
    /\ StoreInit
    /\ frames = <<>> /\ lastSent = None /\ sending = FALSE /\ request = None
    /\ cases = <<>> /\ busy = None /\ pending = None /\ paused = FALSE /\ deferred = None
    /\ told = {} /\ tainted = {} /\ held = FALSE /\ faults = 0

Fault == faults < MaxFaults /\ faults' = faults + 1

----------------------------------------------------------------------------
(* The server. *)

(* The engine's OnFlagged hook opens a case, a replay maybe an old one.    *)
Flagged(id) ==
    /\ Open(id)
    /\ told' = told \ {id} /\ tainted' = tainted \ {id}
    /\ UNCHANGED <<connection, queueState, held, faults>>

ResolvedElsewhere(id, label) ==
    /\ Resolve(id, label)
    /\ UNCHANGED <<connection, queueState, ghosts, faults>>

(* stream, a tick: what of the frame the review queue depends on (the      *)
(* statistics count every verdict) is compared with the last one ...       *)
StreamTick ==
    /\ ~sending /\ Len(frames) < MaxFrames
    /\ \E queue \in Lists(QueueInStream) :
          lastSent' = [queue |-> queue, scored |-> opens, counts |-> counts]
    /\ lastSent' # lastSent
    /\ sending' = TRUE
    /\ UNCHANGED <<store, frames, request, queueState, ghosts, faults>>

(* ... and if it changed the frame is made once more, and sent.            *)
StreamSend ==
    /\ sending
    /\ \E queue \in Lists(QueueInStream) : frames' = Append(frames, queue)
    /\ sending' = FALSE
    /\ UNCHANGED <<store, lastSent, request, queueState, ghosts, faults>>

(* The stream breaks; EventSource opens another.                           *)
Reconnect ==
    /\ Fault
    /\ frames' = <<>> /\ lastSent' = None /\ sending' = FALSE
    /\ UNCHANGED <<store, request, queueState, ghosts>>

(* resolveCase: 200 or 404. *)
ServerResolves ==
    /\ request # None /\ request.status = "sent"
    /\ IF Found(request.id)
       THEN Resolve(request.id, request.label) /\ request' = [request EXCEPT !.status = "ok"]
       ELSE UNCHANGED store /\ request' = [request EXCEPT !.status = "gone"]
    /\ UNCHANGED <<frames, handler, queueState, ghosts, faults>>

(* The request does not get there, or its answer does not come back.       *)
RequestFails ==
    /\ Fault
    /\ request # None
    /\ request' = [request EXCEPT !.status = "fail"]
    /\ UNCHANGED <<store, frames, handler, queueState, ghosts>>

----------------------------------------------------------------------------
(* The reducer. *)

(* withoutBusy *)
WithoutBusy(list) == Without(list, busy)

(* withoutDeferred *)
WithoutDeferred == IF deferred = None THEN None ELSE WithoutBusy(deferred)

(* Fault: frames are shown as they come. *)
LoadedAsIs ==
    /\ frames # <<>>
    /\ frames' = Tail(frames)
    /\ IF paused
       THEN deferred' = Head(frames) /\ held' = FALSE /\ UNCHANGED cases
       ELSE cases' = Head(frames) /\ held' = FALSE /\ UNCHANGED deferred
    /\ UNCHANGED <<store, handler, request, busy, pending, paused, told, tainted, faults>>

(* "loaded", for each frame: deferred while paused. *)
Loaded ==
    /\ frames # <<>>
    /\ frames' = Tail(frames)
    /\ IF paused
       THEN /\ deferred' = Head(frames)
            /\ held' = FALSE
            /\ UNCHANGED cases
       ELSE /\ cases' = WithoutBusy(Head(frames))
            /\ held' = (busy \in Range(Head(frames)))
            /\ UNCHANGED deferred
    /\ UNCHANGED <<store, handler, request, busy, pending, paused, told, tainted, faults>>

(* A button of a row, all of them disabled while one resolve is in flight: *)
(* "resolveStart", then the POST.                                          *)
ResolveStart(i, label) ==
    /\ busy = None /\ request = None /\ i \in DOMAIN cases
    /\ cases' = RemoveAt(cases, i)
    /\ busy' = cases[i]
    /\ pending' = [c |-> cases[i], index |-> i]
    /\ request' = [id |-> cases[i], label |-> label, status |-> "sent"]
    /\ UNCHANGED <<store, frames, handler, paused, deferred, ghosts, faults>>

Told(id) ==
    /\ told' = IF id \in open THEN told ELSE told \cup {id}
    /\ tainted' = IF id \notin open /\ \E i \in DOMAIN frames : id \in Range(frames[i])
                  THEN tainted \cup {id} ELSE tainted

(* Fault: the row kept for the roll-back is not let go. *)
ResolveOkKeepsPending ==
    /\ request # None /\ request.status \in {"ok", "gone"}
    /\ busy' = None /\ request' = None
    /\ deferred' = WithoutDeferred
    /\ Told(request.id)
    /\ UNCHANGED <<store, frames, handler, cases, pending, paused, held, faults>>

(* Fault: the deferred snapshot is left alone. *)
ResolveOkKeepsDeferred ==
    /\ request # None /\ request.status \in {"ok", "gone"}
    /\ busy' = None /\ pending' = None /\ request' = None
    /\ Told(request.id)
    /\ UNCHANGED <<store, frames, handler, cases, paused, deferred, held, faults>>

(* "resolveOk", and "resolveGone" for a 404. *)
ResolveOkOrGone ==
    /\ request # None /\ request.status \in {"ok", "gone"}
    /\ busy' = None /\ pending' = None /\ request' = None
    /\ deferred' = WithoutDeferred
    /\ held' = (held \/ deferred' # deferred)
    /\ Told(request.id)
    /\ UNCHANGED <<store, frames, handler, cases, paused, faults>>

(* "resolveFail": any other error rolls back, as near to its old place as  *)
(* the rows allow.                                                         *)
ResolveFail ==
    /\ request # None /\ request.status = "fail"
    /\ cases' = InsertAt(cases, Min({pending.index, Len(cases) + 1}), pending.c)
    /\ busy' = None /\ pending' = None /\ request' = None
    /\ held' = TRUE
    /\ UNCHANGED <<store, frames, handler, paused, deferred, told, tainted, faults>>

Pause ==
    /\ ~paused
    /\ paused' = TRUE
    /\ UNCHANGED <<store, connection, cases, busy, pending, deferred, ghosts, faults>>

(* Fault: the deferred snapshot is dropped. *)
ResumeDropsDeferred ==
    /\ paused
    /\ paused' = FALSE
    /\ deferred' = None
    /\ UNCHANGED <<store, connection, cases, busy, pending, ghosts, faults>>

Resume ==
    /\ paused
    /\ paused' = FALSE
    /\ deferred' = None
    /\ IF deferred = None
       THEN UNCHANGED <<cases, held>>
       ELSE cases' = WithoutBusy(deferred) /\ held' = (held \/ busy \in Range(deferred))
    /\ UNCHANGED <<store, connection, busy, pending, told, tainted, faults>>

----------------------------------------------------------------------------
Next ==
    \/ \E id \in Cases : Flagged(id)
    \/ \E id \in Cases, label \in Labels : ResolvedElsewhere(id, label)
    \/ StreamTick \/ StreamSend \/ Reconnect \/ ServerResolves \/ RequestFails
    \/ \E i \in 1 .. MaxOpen + 1, label \in Labels : ResolveStart(i, label)
    \/ Loaded \/ ResolveOkOrGone \/ ResolveFail
    \/ Pause \/ Resume

Spec == Init /\ [][Next]_vars

(* The stream ticks, frames and answers arrive or fail.                    *)
FairSpec ==
    /\ Spec
    /\ WF_vars(StreamTick) /\ WF_vars(StreamSend) /\ WF_vars(Loaded)
    /\ WF_vars(ServerResolves) /\ WF_vars(ResolveOkOrGone) /\ WF_vars(ResolveFail)

----------------------------------------------------------------------------
(* Properties. *)

(* Every variable keeps its type; the rows outgrow a frame by one at most. *)
TypeOK ==
    /\ StoreTypeOK
    /\ \A i \in DOMAIN frames : frames[i] \in Seq(Cases)
    /\ request = None \/ request \in Requests
    /\ sending \in BOOLEAN /\ (lastSent = None => ~sending)
    /\ cases \in Seq(Cases) /\ Len(cases) <= QueueInStream + 1
    /\ busy \in Cases \cup {None} /\ paused \in BOOLEAN
    /\ pending = None \/ pending \in Rows
    /\ pending = None <=> busy = None
    /\ deferred = None \/ deferred \in Seq(Cases)
    /\ told \subseteq Cases /\ tainted \subseteq told /\ held \in BOOLEAN

(* A case is shown once, and not at all while its resolve is in flight:    *)
(* neither a frame nor a roll-back doubles a row or re-shows it.           *)
EachCaseShownOnce ==
    /\ IsInjective(cases)
    /\ busy \notin Range(cases)
    /\ busy # None => request # None /\ request.id = busy

(* A case the server said is resolved or gone does not come back, by a     *)
(* frame or by resuming, unless it is reopened, or a frame that was        *)
(* already under way then still lists it.                                  *)
GoneStaysGone == Range(cases) \cap (told \ tainted) = {}

(* Once the analyst lets go, the rows become the top of the server's       *)
(* queue, in its order, unless the reducer last kept a case out or put one *)
(* back itself.                                                            *)
RowsConverge == <>[]~paused => <>[](held \/ cases \in Lists(QueueInStream))

(* "drop the case from it so resuming can't bring it back"                 *)
(* (casesReducer.ts:43)                                                    *)
ResumeBringsNothingBack ==
    [][paused /\ ~paused' => Range(cases') \cap told \subseteq Range(cases)]_vars
=============================================================================
