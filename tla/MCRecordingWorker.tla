------------------------- MODULE MCRecordingWorker -------------------------
(* Instances of RecordingWorker for TLC. *)
EXTENDS RecordingWorker, TLC

CONSTANTS e1, e2, e3, r1, r2

\* Two notifications one unit of time apart: the second one may preempt the
\* first, and both may map to the same recording.
TwoTimes == e1 :> 0 @@ e2 :> 1
TwoMatches == e1 :> {r1} @@ e2 :> {r1, r2}

\* The same with an event of the message center, which no recording matches.
ThreeTimes == TwoTimes @@ e3 :> 0
ThreeMatches == TwoMatches @@ e3 :> {}

\* Two notifications of the same moment.
SameTime == e1 :> 0 @@ e2 :> 0

MCTasks == Events \union {Worker, Recover, Clear, Unload}
=============================================================================
