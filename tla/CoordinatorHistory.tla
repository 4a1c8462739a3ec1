------------------------ MODULE CoordinatorHistory -------------------------
(***************************************************************************)
(* The coordinator with the history of the ids it accepted, to state what  *)
(* the bounded dedupe list of events.py still guarantees when ids expire,  *)
(* pending events overflow and the process is restarted.                   *)
(*                                                                         *)
(* A restart may lose the end of the history, the part no completed write  *)
(* covers: the snapshots of the history travel with those of the queue.    *)
(***************************************************************************)
EXTENDS Coordinator

CONSTANTS MaxAccepted,      \* bound: ids accepted in one run
          MaxBatch          \* bound: events in one call of async_ingest_events

VARIABLES accepted,         \* ids accepted so far, oldest first
          acceptedWriting,  \* that history when the contents being written were taken
          acceptedDisk,     \* that history when the contents on disk were taken
          clearedAt         \* per id: Len(accepted) when the user cleared it, or NotCleared

histVars == <<coordVars, accepted, acceptedWriting, acceptedDisk, clearedAt>>

NotCleared == MaxAccepted + 1

HInit ==
    /\ CoordInit
    /\ accepted = << >> /\ acceptedWriting = << >> /\ acceptedDisk = << >>
    /\ clearedAt = [e \in Events |-> NotCleared]

\* The history's snapshots follow the queue's.
Follow ==
    /\ acceptedWriting' = IF phase' = "writing" /\ phase # "writing"
                          THEN accepted' ELSE acceptedWriting
    /\ acceptedDisk' = IF phase = "writing" /\ phase' = "written"
                       THEN acceptedWriting ELSE acceptedDisk

Batches == UNION {[1 .. n -> Events] : n \in 1 .. MaxBatch}

\* The ids a batch adds, in order.  Each is tested against the queue as the ids before it
\* left it: one that expired within the batch is accepted again.
New(batch) ==
    LET before(i) == EnqueueAll(queue, SubSeq(batch, 1, i - 1))
        new[i \in 0 .. Len(batch)] ==
            IF i = 0 THEN << >>
            ELSE IF Accepts(before(i), batch[i]) THEN Append(new[i-1], batch[i]) ELSE new[i-1]
    IN  new[Len(batch)]

HIngest(t, batch) ==
    /\ ~Saving(t)
    /\ Len(accepted) + Len(New(batch)) <= MaxAccepted
    /\ IngestEvents(t, batch)
    /\ accepted' = accepted \o New(batch)
    /\ UNCHANGED clearedAt
    /\ Follow

HOther(t) ==
    /\ ~Saving(t)
    /\ \E e \in IdsOf(queue.pending) :
            \/ CompleteEvent(t, e, {})
            \/ \E r \in Recordings : CompleteEvent(t, e, {r})
            \/ DeferEvent(t, e)
            \/ RearmEvent(t, e)
    /\ UNCHANGED <<accepted, clearedAt>>
    /\ Follow

HClear(t) ==
    /\ ~Saving(t)
    /\ ClearDeferred(t, Events)
    /\ clearedAt' = [e \in Events |-> IF e \in queue.deferred THEN Len(accepted)
                                     ELSE clearedAt[e]]
    /\ UNCHANGED accepted
    /\ Follow

HStore ==
    /\ StoreBegin \/ StoreWrite \/ \E t \in Tasks : Return(t)
    /\ UNCHANGED <<accepted, clearedAt>>
    /\ Follow

HRestart ==
    /\ Restart
    /\ accepted' = acceptedDisk
    /\ acceptedWriting' = acceptedDisk
    /\ clearedAt' = [e \in Events |->
                        IF e \in IdsOf(queue'.pending) THEN NotCleared ELSE clearedAt[e]]
    /\ UNCHANGED acceptedDisk

HNext ==
    \/ \E t \in Tasks, batch \in Batches : HIngest(t, batch)
    \/ \E t \in Tasks : HOther(t) \/ HClear(t)
    \/ HStore \/ HRestart

HSpec == HInit /\ [][HNext]_histVars

-----------------------------------------------------------------------------
Guaranteed == MaxProcessed + 1 - MaxPending

Window(s) == IF Guaranteed > 0 THEN IdsOf(LastOf(s, Guaranteed)) ELSE {}

\* What is pending when id i is tested: what was, and the ids of its batch before it.
PendingAt(i) ==
    LastOf(queue.pending \o SubSeq(accepted', Len(accepted) + 1, i - 1), MaxPending)

\* An id is accepted again, in a later batch or in the same one, only when it is not
\* pending at that moment and at least MaxProcessed + 1 - MaxPending ids were accepted
\* after it, restarts included.  The window is shorter than MaxProcessed: load appends
\* pending ids that had expired to the end of the list, and the next as_storage cuts
\* as many entries from its front (EventQueue.load and as_storage).
DedupeWindow ==
    [][\A i \in DOMAIN accepted' \ DOMAIN accepted :
            /\ accepted'[i] \notin Window(SubSeq(accepted', 1, i - 1))
            /\ accepted'[i] \notin IdsOf(PendingAt(i))]_histVars

\* An id the user cleared is not accepted again while fewer ids than the
\* window were accepted after the clearing (async_clear_deferred_recordings:
\* "the cleared historical Android notifications cannot be ingested again").
ClearedStaysKnown ==
    [][\A i \in DOMAIN accepted' \ DOMAIN accepted :
            LET since == clearedAt[accepted'[i]]
            IN  since = NotCleared \/ i - 1 - since >= Guaranteed]_histVars
=============================================================================
