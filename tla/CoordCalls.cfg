\* Two callers that wait for the Store in turn, batches, expiring ids, overflow, restarts.
CONSTANTS
    Events = {e1, e2, e3, e4}
    Recordings = {r1, r2}
    Tasks = {t1, t2}
    MaxProcessed = 3
    MaxPending = 2
    MaxCompleted = 1
    MaxAccepted = 5
    MaxBatch = 2
SPECIFICATION HSpec
INVARIANT CoordTypeOK
INVARIANT QueueConsistent
INVARIANT IdleMeansSaved
INVARIANT RestartKeepsWork
PROPERTY DedupeWindow
SYMMETRY Symmetry
CHECK_DEADLOCK FALSE
