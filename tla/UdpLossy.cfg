\* Loss, repetition and reordering in both directions, one ACK in flight each way.
CONSTANTS
    Frames <- MCFrames
    Scripts <- FourFrames
    Window = 2
    MaxRetransmits = 1
    MaxAcks = 1
SPECIFICATION FairSpec
INVARIANT NothingForgotten
INVARIANT AckedCommandArrived
PROPERTY StreamImplemented
PROPERTY FileArrives
CHECK_DEADLOCK FALSE
