\* Two updates of one notification in quick succession, the first one still being saved.
CONSTANTS
    s1 = s1
    s2 = s2
    Nothing = Nothing
    Sources <- TwoSources
    Events <- MCEvents
    PostTime <- TwoPostTimes
    Tasks = {1, 2, 3, 4}
    Recordings = {}
    MaxAge = 3
    MinAge = 2
    Debounce = 2
    MaxProcessed = 10
    MaxPending = 2
    MaxCompleted = 1
    SlowStore = FALSE
    MaxTime = 4
    MaxRestarts = 0
SPECIFICATION Spec
INVARIANT RapidRepostsCollapse
CHECK_DEADLOCK FALSE
