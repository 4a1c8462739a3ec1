------------------------------- MODULE SdCard -------------------------------
(* The recordings on the camera's SD card.                                  *)
EXTENDS Integers, Sequences, FiniteSets

CONSTANTS
    Recordings,
    Start, End,        \* the interval of a recording
    NameOf,            \* the file name of its download: its start, to the second
    Content            \* its MP4, a sequence of units

NoRecording == "none"
=============================================================================
