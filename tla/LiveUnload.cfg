\* The same tasks: unloading while a recording holds the camera.
CONSTANTS
    v = v
    a = a
    s1 = s1
    s2 = s2
    s3 = s3
    Consumers <- Consumers2
    Video <- TwoTracks
    Capacity = 2
    Sessions <- Sessions3
    Recorder = Recorder
    Others = {other}
SPECIFICATION Spec
INVARIANT UnloadStopsLiveView
CHECK_DEADLOCK FALSE
