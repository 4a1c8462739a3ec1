\* A restart at any step, unloading, a queue that overflows with cloud events.
CONSTANTS
    e1 = e1
    e2 = e2
    e3 = e3
    r1 = r1
    r2 = r2
    Worker = Worker
    Recover = Recover
    Clear = Clear
    Unload = Unload
    Events = {e1, e2, e3}
    Android = {e1, e2}
    Recordings = {r1, r2}
    Tasks <- MCTasks
    EventTime <- ThreeTimes
    Matches <- ThreeMatches
    MaxAge = 1
    MaxAttempts = 2
    MaxProcessed = 3
    MaxPending = 2
    MaxCompleted = 2
    MaxTime = 2
    MaxRestarts = 1
    MaxPresses = 0
    MayUnload = TRUE
SPECIFICATION Spec
INVARIANT PublishedIsDurable
INVARIANT PublishedOnce
INVARIANT StartupWakesAtMostOne
PROPERTY RemovalJustified
CHECK_DEADLOCK FALSE
