\* The same tasks under fair scheduling: a consumer that reads too slowly.
CONSTANTS
    v = v
    a = a
    s1 = s1
    s2 = s2
    s3 = s3
    Consumers <- Consumers2
    Video <- TwoTracks
    Capacity = 2
    Sessions <- Sessions3
    Recorder = Recorder
    Others = {other}
SPECIFICATION FairSpec
PROPERTY SlowConsumerReconnects
CHECK_DEADLOCK FALSE
