---------------------------- MODULE Coordinator ----------------------------
(***************************************************************************)
(* ReolinkBatteryCoordinator (coordinator.py): the one owner of the event  *)
(* queue.  Every method changes the queue in memory and, in the same step  *)
(* of the event loop, hands the new contents to Home Assistant's Store;    *)
(* the calling task then waits for async_save, and the other tasks run.    *)
(*                                                                         *)
(* The Store is external.  Its async_save keeps the latest contents given  *)
(* to it and takes a first-come first-served lock: the task that holds the *)
(* lock writes these contents, and a task that gets the lock and finds     *)
(* them already taken by an earlier writer returns at once.                *)
(***************************************************************************)
EXTENDS EventQueue

CONSTANT Tasks      \* the tasks of the event loop that call the coordinator

VARIABLES
    queue,      \* coordinator._queue
    disk,       \* what the storage file holds
    savers,     \* tasks inside async_save, in the order of the Store's lock
    phase,      \* what the first of them does
    writing,    \* the contents the current writer took, once it has taken any
    unwritten   \* the Store holds contents no writer has taken yet

storeVars == <<savers, phase, writing, unwritten>>
coordVars == <<queue, disk, savers, phase, writing, unwritten>>

Saving(t) == t \in IdsOf(savers)

-----------------------------------------------------------------------------
(* The Store (external) *)

\* A call of async_save with the new queue: an uncontended lock is taken at
\* once and the write starts.
Save(t) ==
    /\ savers' = Append(savers, t)
    /\ IF savers = << >>
       THEN phase' = "writing" /\ writing' = AsStorage(queue')
            /\ UNCHANGED unwritten
       ELSE unwritten' = TRUE /\ UNCHANGED <<phase, writing>>

\* The first task got the lock from its predecessor and finds contents.
StoreBegin ==
    /\ phase = "woken" /\ unwritten
    /\ phase' = "writing"
    /\ writing' = AsStorage(queue)
    /\ unwritten' = FALSE
    /\ UNCHANGED <<queue, disk, savers>>

\* The file is replaced atomically.
StoreWrite ==
    /\ phase = "writing"
    /\ disk' = writing
    /\ phase' = "written"
    /\ UNCHANGED <<queue, savers, writing, unwritten>>

\* async_save returns to t, which releases the lock.
Return(t) ==
    /\ savers # << >> /\ t = Head(savers)
    /\ phase = "written" \/ (phase = "woken" /\ ~unwritten)
    /\ savers' = Tail(savers)
    /\ phase' = IF Tail(savers) = << >> THEN "free" ELSE "woken"
    /\ UNCHANGED <<queue, disk, writing, unwritten>>

-----------------------------------------------------------------------------
(* The coordinator's methods.  A method that changes nothing does not save *)
(* and does not wait.                                                      *)

\* The queue becomes q; t waits for the save if that is a change.
Commit(t, q, changed) ==
    /\ queue' = q
    /\ IF changed THEN Save(t) ELSE UNCHANGED storeVars
    /\ UNCHANGED disk

EnqueueAll(q, batch) ==
    LET after[i \in 0 .. Len(batch)] ==
            IF i = 0 THEN q ELSE Enqueue(after[i-1], batch[i])
    IN  after[Len(batch)]

IngestEvents(t, batch) ==
    Commit(t, EnqueueAll(queue, batch), \E i \in DOMAIN batch : Accepts(queue, batch[i]))

\* Mutant: the event id is remembered instead of the fingerprint.
CompleteEventMixesIds(t, e, recs) ==
    Commit(t, IF recs = {} THEN Remove(queue, e) ELSE Remember(Remove(queue, e), e),
           e \in IdsOf(queue.pending) \/ recs # {})

\* Mutant: only a removal is saved, so that the fingerprint for an evicted event is not.
CompleteEventSavesRemovals(t, e, recs) ==
    Commit(t, IF recs = {} THEN Remove(queue, e)
              ELSE Remember(Remove(queue, e), CHOOSE r \in recs : TRUE),
           e \in IdsOf(queue.pending))

\* recs is empty (a duplicate recording) or holds the verified recording.
CompleteEvent(t, e, recs) ==
    LET removed == e \in IdsOf(queue.pending)
        added   == recs \ IdsOf(queue.completed)
    IN  Commit(t, IF recs = {} THEN Remove(queue, e)
                  ELSE Remember(Remove(queue, e), CHOOSE r \in recs : TRUE),
               removed \/ added # {})

\* The time stamp makes a second deferral of the same event a change too.
DeferEvent(t, e) == Commit(t, Defer(queue, e), e \in IdsOf(queue.pending))

\* Mutant: the rearmed queue is not saved.
RearmEventUnsaved(t, e) == Commit(t, Rearm(queue, e), FALSE)

RearmEvent(t, e) == Commit(t, Rearm(queue, e), e \in queue.deferred)

\* The deferred pending events of one source.
ClearDeferred(t, ofSource) ==
    Commit(t, DiscardDeferred(queue, queue.deferred \intersect ofSource),
           queue.deferred \intersect ofSource \intersect IdsOf(queue.pending) # {})

\* async_shutdown always saves.
Shutdown(t) == Commit(t, queue, TRUE)

\* The process dies, whatever the tasks were doing, and a new coordinator
\* loads the file.
Restart ==
    /\ queue' = Load(disk)
    /\ savers' = << >> /\ phase' = "free"
    /\ writing' = disk /\ unwritten' = FALSE
    /\ UNCHANGED disk

-----------------------------------------------------------------------------
CoordInit ==
    /\ queue = EmptyQueue
    /\ disk = AsStorage(EmptyQueue)
    /\ savers = << >> /\ phase = "free"
    /\ writing = disk /\ unwritten = FALSE

\* Any task that is not waiting may make any call.
Call(t) ==
    /\ ~Saving(t)
    /\ \/ \E batch \in Seq(Events) : IngestEvents(t, batch)
       \/ \E e \in Events : \/ CompleteEvent(t, e, {})
                            \/ \E r \in Recordings : CompleteEvent(t, e, {r})
                            \/ DeferEvent(t, e)
                            \/ RearmEvent(t, e)
       \/ \E ofSource \in SUBSET Events : ClearDeferred(t, ofSource)
       \/ Shutdown(t)

CoordNext ==
    \/ \E t \in Tasks : Call(t) \/ Return(t)
    \/ StoreBegin \/ StoreWrite \/ Restart

CoordSpec == CoordInit /\ [][CoordNext]_coordVars

-----------------------------------------------------------------------------
(* What the coordinator promises *)

CoordTypeOK ==
    /\ queue \in QueueType
    /\ disk \in StorageType /\ writing \in StorageType
    /\ savers \in Seq(Tasks)
    /\ phase \in {"free", "writing", "written", "woken"}
    /\ unwritten \in BOOLEAN

\* The lists stay bounded, without duplicates, and consistent with each
\* other, whatever the order of calls, overflows and restarts (the class
\* comment "A bounded, serializable queue with event-id deduplication").
QueueConsistent == QueueOK(queue) /\ StorageOK(disk)

\* No call forgets to save: when no task is waiting for the Store, the file
\* holds the queue, or nothing changed since it was loaded from the file
\* (load may put expired ids back into the dedupe list, which the next call
\* that changes the queue writes).
IdleMeansSaved ==
    savers = << >> => disk = AsStorage(queue) \/ queue = Load(disk)

\* A restart now, with everything saved, would lose no pending event, no
\* deferral and no fingerprint, and would not reopen a pending event.
RestartKeepsWork ==
    LET restored == Load(AsStorage(queue))
    IN  /\ restored.pending = queue.pending
        /\ restored.deferred = queue.deferred
        /\ restored.completed = queue.completed
        /\ restored.seen \subseteq queue.seen
=============================================================================
