\* A video and an audio consumer, the recorder, another camera operation, unloading.
CONSTANTS
    v = v
    a = a
    s1 = s1
    s2 = s2
    s3 = s3
    Consumers <- Consumers2
    Video <- TwoTracks
    Capacity = 2
    Sessions <- Sessions3
    Recorder = Recorder
    Others = {other}
SPECIFICATION FairSpec
INVARIANT TypeOK
INVARIANT OneProducer
INVARIANT RecordingUndisturbed
PROPERTY PreemptionKeepsConsumers
PROPERTY RecordingGetsCamera
PROPERTY LiveViewResumes
CHECK_DEADLOCK FALSE
