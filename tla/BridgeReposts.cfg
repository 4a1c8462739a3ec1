\* Two notifications, four updates, one restart; a queue of two pending events.
CONSTANTS
    s1 = s1
    s2 = s2
    Nothing = Nothing
    Sources <- TwoSources
    Events <- MCEvents
    PostTime <- TwoPostTimes
    Tasks = {1, 2, 3, 4}
    Recordings = {}
    MaxAge = 3
    MinAge = 2
    Debounce = 2
    MaxProcessed = 10
    MaxPending = 2
    MaxCompleted = 1
    SlowStore = TRUE
    MaxTime = 4
    MaxRestarts = 1
SPECIFICATION Spec
INVARIANT WokenOnce
INVARIANT WokenIsDurable
INVARIANT NothingInLimbo
INVARIANT RepostsCollapse
PROPERTY StaleSourceNeverWakes
CHECK_DEADLOCK FALSE
