----------------------------- MODULE EventQueue -----------------------------
(***************************************************************************)
(* The persistent event queue of events.py as a data type: its state is a  *)
(* record, and every method of class EventQueue is an operator from the    *)
(* old record (and the arguments) to the new one.                          *)
(*                                                                         *)
(* An event is its event_id: the id is a hash of the notification, or the  *)
(* Message Center id, and every lookup in the code is by id.  A completed  *)
(* recording is its fingerprint.  deferred_events is the set of deferred   *)
(* ids: the reason and the time stamp only reach the diagnostics.          *)
(***************************************************************************)
EXTENDS Integers, Sequences, FiniteSets

CONSTANTS
    Events,         \* event ids
    Recordings,     \* fingerprints of SD-card recordings
    MaxProcessed,   \* MAX_PROCESSED_EVENT_IDS
    MaxPending,     \* MAX_PENDING_EVENTS
    MaxCompleted    \* MAX_COMPLETED_RECORDINGS

\* const.py: 512, 100 and 256; nothing in the queue relies on their order.
ASSUME BoundsAssumption ==
    /\ MaxProcessed \in Nat \ {0}
    /\ MaxPending \in Nat \ {0}
    /\ MaxCompleted \in Nat \ {0}

-----------------------------------------------------------------------------
(* Sequence helpers *)

IdsOf(s) == {s[i] : i \in DOMAIN s}

\* Python's s[-n:], for n > 0.
LastOf(s, n) == IF Len(s) > n THEN SubSeq(s, Len(s) - n + 1, Len(s)) ELSE s

\* [x for x in s if x not in ids]
Without(s, ids) ==
    LET kept[i \in 0 .. Len(s)] ==
            IF i = 0 THEN << >>
            ELSE IF s[i] \in ids THEN kept[i-1] ELSE Append(kept[i-1], s[i])
    IN  kept[Len(s)]

-----------------------------------------------------------------------------
(* The queue record and what is written to the store *)

QueueType ==
    [processed : Seq(Events),       \* _processed, oldest first
     seen      : SUBSET Events,     \* _processed_set
     pending   : Seq(Events),       \* _pending, oldest first
     completed : Seq(Recordings),   \* _completed_recordings, oldest first
     deferred  : SUBSET Events]     \* keys of _deferred

StorageType ==
    [processed : Seq(Events), pending : Seq(Events),
     completed : Seq(Recordings), deferred : SUBSET Events]

EmptyQueue == [processed |-> << >>, seen |-> {}, pending |-> << >>,
               completed |-> << >>, deferred |-> {}]

-----------------------------------------------------------------------------
(* The methods of class EventQueue *)

Accepts(q, e) == e \notin q.seen

\* Mutant: the bound of the pending list is checked one entry too early.
EnqueueEvictsEarly(q, e) ==
    IF ~Accepts(q, e) THEN q
    ELSE LET processed == Append(q.processed, e)
             pending   == Append(q.pending, e)
         IN  [q EXCEPT
               !.processed = LastOf(processed, MaxProcessed),
               !.seen      = @ \union {e},
               !.pending   = IF Len(pending) >= MaxPending THEN Tail(pending) ELSE pending,
               !.deferred  = @ \ {Head(pending)}]

Enqueue(q, e) ==
    IF ~Accepts(q, e) THEN q
    ELSE LET processed == Append(q.processed, e)
             pending   == Append(q.pending, e)
             expires   == Len(processed) > MaxProcessed
             evicts    == Len(pending) > MaxPending
             forgotten == IF expires THEN {Head(processed)} \ IdsOf(pending)
                                     ELSE {}
         IN  [q EXCEPT
               !.processed = IF expires THEN Tail(processed) ELSE processed,
               !.seen      = (@ \union {e}) \ forgotten,
               !.pending   = IF evicts THEN Tail(pending) ELSE pending,
               !.deferred  = IF evicts THEN @ \ {Head(pending)} ELSE @]

\* Mutant: the deferral of a removed event stays.
RemoveKeepsDeferral(q, e) == [q EXCEPT !.pending = Without(@, {e})]

Remove(q, e) ==
    [q EXCEPT !.pending = Without(@, {e}), !.deferred = @ \ {e}]

\* remember_completed_recording: a known fingerprint is not added again.
Remember(q, r) ==
    IF r \in IdsOf(q.completed) THEN q
    ELSE [q EXCEPT !.completed = LastOf(Append(@, r), MaxCompleted)]

\* defer: only a pending event can be deferred.
Defer(q, e) ==
    IF e \in IdsOf(q.pending) THEN [q EXCEPT !.deferred = @ \union {e}] ELSE q

Rearm(q, e) == [q EXCEPT !.deferred = @ \ {e}]

\* discard_deferred: the ids are dropped from the queue, never from the
\* dedupe history.
DiscardDeferred(q, ids) ==
    LET removed == ids \intersect q.deferred \intersect IdsOf(q.pending)
    IN  [q EXCEPT !.pending = Without(@, removed), !.deferred = @ \ removed]

\* Mutant: deferrals are not written.
AsStorageWithoutDeferrals(q) ==
    [processed |-> LastOf(q.processed, MaxProcessed), pending |-> q.pending,
     completed |-> LastOf(q.completed, MaxCompleted), deferred |-> {}]

AsStorage(q) ==
    [processed |-> LastOf(q.processed, MaxProcessed),
     pending   |-> q.pending,
     completed |-> LastOf(q.completed, MaxCompleted),
     deferred  |-> q.deferred]

\* Mutant: pending ids are not put back into the dedupe set.
LoadForgetsPending(d) ==
    [processed |-> LastOf(d.processed, MaxProcessed),
     seen      |-> IdsOf(LastOf(d.processed, MaxProcessed)),
     pending   |-> LastOf(d.pending, MaxPending),
     completed |-> LastOf(d.completed, MaxCompleted),
     deferred  |-> d.deferred \intersect IdsOf(d.pending)]

\* Mutant: only pending events stay known across a restart.
LoadForgetsHistory(d) ==
    [processed |-> LastOf(d.processed, MaxProcessed), seen |-> IdsOf(LastOf(d.pending, MaxPending)),
     pending   |-> LastOf(d.pending, MaxPending),
     completed |-> LastOf(d.completed, MaxCompleted),
     deferred  |-> d.deferred \intersect IdsOf(d.pending)]

\* load on what as_storage wrote: a pending id whose processed entry has
\* expired is appended to the dedupe history again.
Load(d) ==
    LET kept    == LastOf(d.processed, MaxProcessed)
        pending == LastOf(d.pending, MaxPending)
    IN  [processed |-> kept \o Without(pending, IdsOf(kept)),
         seen      |-> IdsOf(kept) \union IdsOf(pending),
         pending   |-> pending,
         completed |-> LastOf(d.completed, MaxCompleted),
         deferred  |-> d.deferred \intersect IdsOf(pending)]

-----------------------------------------------------------------------------
(* What every method relies on and re-establishes *)

Distinct(s) == \A i, j \in DOMAIN s : s[i] = s[j] => i = j

\* Nothing pending can be accepted a second time, no list holds an entry
\* twice, and only pending events are deferred.
QueueOK(q) ==
    /\ IdsOf(q.processed) \subseteq q.seen
    /\ IdsOf(q.pending) \subseteq q.seen
    /\ q.deferred \subseteq IdsOf(q.pending)
    /\ Distinct(q.processed) /\ Distinct(q.pending) /\ Distinct(q.completed)
    /\ Len(q.pending) <= MaxPending
    /\ Len(q.completed) <= MaxCompleted
    /\ Len(q.processed) <= MaxProcessed + MaxPending

StorageOK(d) ==
    /\ d.deferred \subseteq IdsOf(d.pending)
    /\ Distinct(d.processed) /\ Distinct(d.pending) /\ Distinct(d.completed)
    /\ Len(d.pending) <= MaxPending
    /\ Len(d.completed) <= MaxCompleted
    /\ Len(d.processed) <= MaxProcessed
=============================================================================
