\* An id that expired from the dedupe list while it was pending, then cleared and reloaded.
CONSTANTS
    Events = {e1, e2, e3, e4, e5}
    Recordings = {r1}
    Tasks = {t1}
    MaxProcessed = 3
    MaxPending = 2
    MaxCompleted = 1
    MaxAccepted = 6
    MaxBatch = 1
SPECIFICATION HSpec
PROPERTY ClearedStaysKnown
SYMMETRY Symmetry
CHECK_DEADLOCK FALSE
