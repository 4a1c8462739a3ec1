------------------------------ MODULE LiveHub ------------------------------
(***************************************************************************)
(* The Live View hub (live_http.py) with the tasks that meet in it: HTTP   *)
(* consumers that subscribe and disconnect, the one producer that streams  *)
(* from the camera, the recording worker that asks it to yield, and the    *)
(* unloading of the entry.  The producer, the recording session and every  *)
(* other camera operation share the runtime's local_operation_lock.        *)
(*                                                                         *)
(* No task is suspended inside the hub's _guard (there is no await in any  *)
(* of its blocks), so the guard is never waited for and each block is one  *)
(* step.  The local lock is first-come first-served: lock is the line in   *)
(* front of it, its head holds it.                                         *)
(***************************************************************************)
EXTENDS Integers, Sequences, FiniteSets

CONSTANTS
    Consumers,      \* HTTP requests for a track
    Video,          \* those for the H264 track; the others want the AAC track
    Capacity,       \* _MAX_VIDEO_QUEUE, _MAX_AUDIO_QUEUE
    Sessions,       \* producer tasks; a task that is done may be named again
    Recorder,       \* the recording worker
    Others          \* other camera operations: status refresh, manual download

ASSUME HubAssumption ==
    /\ Video \subseteq Consumers
    /\ Capacity \in Nat \ {0}
    /\ Cardinality(Sessions) >= 3
    /\ Recorder \notin Sessions \union Others /\ Sessions \intersect Others = {}

VARIABLES
    consumers,  \* who is in _video_queues and _audio_queues
    queue,      \* their queues
    producer,   \* _producer_task; a set of at most one session
    event,      \* _stop_event, named by its session; a set of at most one
    stage,      \* per session: "off", "created", "open" (in line for or in the camera)
    stop,       \* sessions whose stop event is set
    cancelled,  \* sessions whose task was cancelled
    lock,       \* local_operation_lock
    depth,      \* _recording_priority_depth
    rec,        \* where the worker's attempt is
    awaited,    \* the session the attempt waits for; a set of at most one
    unload,     \* how far the unloading is: "no", "stopping", "cancelling", past the hub
                \* ("done"), past the worker ("over"), or "aborted" in the hub
    stopping    \* the session async_stop waits for; a set of at most one

hubVars == <<consumers, queue, producer, event, stage, stop, cancelled>>
recVars == <<depth, rec, awaited>>
unloadVars == <<unload, stopping>>
vars == <<hubVars, lock, recVars, unloadVars>>

Unloaded == unload \in {"done", "over"}
Alive == {p \in Sessions : stage[p] # "off"}
Holds(x) == lock # << >> /\ Head(lock) = x

\* The line without x, which is in it at most once.
Leave(s, x) ==
    LET places == {i \in DOMAIN s : s[i] = x}
        at == CHOOSE i \in places : TRUE
    IN  IF places = {} THEN s ELSE SubSeq(s, 1, at - 1) \o SubSeq(s, at + 1, Len(s))

-----------------------------------------------------------------------------
(* The producer's start and end *)

\* The guard under which subscribe and resume start a producer.
NoProducer == producer \intersect Alive = {}

\* _stop_event = Event(); _producer_task = create_task(_run_source())
StartProducer ==
    LET p == CHOOSE s \in Sessions : s \notin Alive \union awaited \union stopping
    IN  /\ producer' = {p} /\ event' = {p}
        /\ stage' = [stage EXCEPT ![p] = "created"]
        /\ stop' = stop \ {p} /\ cancelled' = cancelled \ {p}

\* Mutant: consumers are told the end although only the producer yields.
FinishEndsConsumers(p) ==
    /\ stage' = [stage EXCEPT ![p] = "off"]
    /\ producer' = {} /\ event' = {}
    /\ queue' = [c \in Consumers |-> IF c \in consumers /\ Len(queue[c]) < Capacity
                                     THEN Append(queue[c], "end") ELSE queue[c]]

\* _finish_producer, the last step of the task.  A full queue gets no end mark.
Finish(p) ==
    /\ stage' = [stage EXCEPT ![p] = "off"]
    /\ producer' = {} /\ event' = {}
    /\ queue' = [c \in Consumers |->
                    IF depth = 0 /\ c \in consumers /\ Len(queue[c]) < Capacity
                    THEN Append(queue[c], "end") ELSE queue[c]]

-----------------------------------------------------------------------------
(* Consumers: the HTTP view *)

\* Mutant: the recording's priority is not respected.
SubscribeIgnoresPriority(c) ==
    /\ ~Unloaded /\ c \notin consumers
    /\ consumers' = consumers \union {c}
    /\ IF NoProducer THEN StartProducer
       ELSE UNCHANGED <<producer, event, stage, stop, cancelled>>
    /\ UNCHANGED <<queue, lock, recVars, unloadVars>>

\* Mutant: every subscription starts a producer.
SubscribeAlwaysStarts(c) ==
    /\ ~Unloaded /\ c \notin consumers
    /\ consumers' = consumers \union {c}
    /\ IF depth = 0 THEN StartProducer
       ELSE UNCHANGED <<producer, event, stage, stop, cancelled>>
    /\ UNCHANGED <<queue, lock, recVars, unloadVars>>

Subscribe(c) ==
    /\ ~Unloaded /\ c \notin consumers
    /\ consumers' = consumers \union {c}
    /\ IF depth = 0 /\ NoProducer THEN StartProducer
       ELSE UNCHANGED <<producer, event, stage, stop, cancelled>>
    /\ UNCHANGED <<queue, lock, recVars, unloadVars>>

\* The last consumer's leaving stops the producer.
Unsubscribe(c) ==
    /\ consumers' = consumers \ {c}
    /\ queue' = [queue EXCEPT ![c] = << >>]
    /\ stop' = IF consumers' = {} THEN stop \union event ELSE stop

\* The view takes a frame, or the end mark, which makes it leave.
Read(c) ==
    /\ c \in consumers /\ queue[c] # << >>
    /\ IF Head(queue[c]) = "end" THEN Unsubscribe(c)
       ELSE queue' = [queue EXCEPT ![c] = Tail(@)] /\ UNCHANGED <<consumers, stop>>
    /\ UNCHANGED <<producer, event, stage, cancelled, lock, recVars, unloadVars>>

\* The client's connection breaks.
Disconnect(c) ==
    /\ c \in consumers /\ Unsubscribe(c)
    /\ UNCHANGED <<producer, event, stage, cancelled, lock, recVars, unloadVars>>

-----------------------------------------------------------------------------
(* The producer: _run_source and async_stream_media *)

\* The task starts and gets in line for the camera.
Open(p) ==
    /\ stage[p] = "created"
    /\ stage' = [stage EXCEPT ![p] = "open"]
    /\ lock' = Append(lock, p)
    /\ UNCHANGED <<consumers, queue, producer, event, stop, cancelled, recVars, unloadVars>>

\* _fanout: a frame goes to the queues of its track, in any order, up to the
\* first full one, which stops the session.
Frame(p, track) ==
    /\ stage[p] = "open" /\ Holds(p)
    /\ LET full == {c \in track : Len(queue[c]) >= Capacity} IN
       \E served \in SUBSET (track \ full) :
            /\ full = {} => served = track
            /\ queue' = [c \in Consumers |-> IF c \in served THEN Append(queue[c], "frame")
                                             ELSE queue[c]]
            /\ stop' = IF full = {} THEN stop ELSE stop \union event
    /\ UNCHANGED <<consumers, producer, event, stage, cancelled, lock, recVars, unloadVars>>

\* The session is over: the stop event was seen, or the task was cancelled,
\* in the camera or in line ...
ProducerStops(p) ==
    /\ stage[p] = "open"
    /\ p \in cancelled \/ (p \in stop /\ Holds(p))
    /\ lock' = Leave(lock, p)
    /\ Finish(p)
    /\ UNCHANGED <<consumers, stop, cancelled, recVars, unloadVars>>

\* ... or the camera closed the connection or refused the session.
ProducerFails(p) ==
    /\ stage[p] = "open" /\ Holds(p)
    /\ lock' = Leave(lock, p)
    /\ Finish(p)
    /\ UNCHANGED <<consumers, stop, cancelled, recVars, unloadVars>>

-----------------------------------------------------------------------------
(* The recording worker's attempt: async_pause_for_recording, the session, *)
(* async_resume_after_recording.  That the attempt has a media directory   *)
(* to write to is assumed.                                                 *)

\* Mutant: the priority only blocks new producers.
PauseWithoutStop ==
    /\ rec = "idle" /\ ~Unloaded
    /\ depth' = depth + 1
    /\ rec' = "camera" /\ awaited' = {}
    /\ lock' = Append(lock, Recorder)
    /\ UNCHANGED <<hubVars, unloadVars>>

Pause ==
    /\ rec = "idle" /\ ~Unloaded
    /\ depth' = depth + 1
    /\ awaited' = producer \intersect Alive
    /\ stop' = IF awaited' = {} THEN stop ELSE stop \union event
    /\ IF awaited' = {} THEN rec' = "camera" /\ lock' = Append(lock, Recorder)
       ELSE rec' = "pausing" /\ UNCHANGED lock
    /\ UNCHANGED <<consumers, queue, producer, event, stage, cancelled, unloadVars>>

\* The producer did not stop in time.
PauseTimesOut ==
    /\ rec = "pausing" /\ awaited \subseteq Alive
    /\ rec' = "cancelling" /\ cancelled' = cancelled \union awaited
    /\ UNCHANGED <<consumers, queue, producer, event, stage, stop, lock, depth, awaited,
                   unloadVars>>

PauseReturns ==
    /\ rec \in {"pausing", "cancelling"} /\ awaited \intersect Alive = {}
    /\ rec' = "camera" /\ awaited' = {}
    /\ lock' = Append(lock, Recorder)
    /\ UNCHANGED <<hubVars, depth, unloadVars>>

\* The producer ended because the unloading cancelled it: unless its own cleanup raised another
\* error, its CancelledError ends the worker's task, and the hold stays.
PauseRaises ==
    /\ rec = "pausing" /\ awaited \intersect Alive = {} /\ awaited \subseteq cancelled
    /\ rec' = "dead" /\ awaited' = {}
    /\ UNCHANGED <<hubVars, lock, depth, unloadVars>>

\* The camera session ends; its result may still have to be saved.
RecordingEnds ==
    /\ rec = "camera" /\ Holds(Recorder)
    /\ lock' = Leave(lock, Recorder)
    /\ rec' = "saving"
    /\ UNCHANGED <<hubVars, depth, awaited, unloadVars>>

\* Mutant: the hold is not released.
ReleaseKeepsHold ==
    /\ UNCHANGED depth
    /\ IF consumers # {} /\ NoProducer THEN StartProducer
       ELSE UNCHANGED <<producer, event, stage, stop, cancelled>>

\* Mutant: the preserved consumers get no new producer.
ReleaseWithoutRestart ==
    /\ depth' = IF depth > 0 THEN depth - 1 ELSE 0
    /\ UNCHANGED <<producer, event, stage, stop, cancelled>>

\* async_resume_after_recording
Release ==
    /\ depth' = IF depth > 0 THEN depth - 1 ELSE 0
    /\ IF depth' = 0 /\ consumers # {} /\ NoProducer THEN StartProducer
       ELSE UNCHANGED <<producer, event, stage, stop, cancelled>>

Resume ==
    /\ rec = "saving" /\ rec' = "idle"
    /\ Release
    /\ UNCHANGED <<consumers, queue, lock, awaited, unloadVars>>

\* Unloading cancels the worker's task, once.  The attempt that waits for the producer it
\* cancelled swallows that and goes on; another one ends, and releases its hold if it is past
\* the pause.
RecorderCancelled ==
    /\ unload = "done" /\ rec \notin {"idle", "dead"} /\ unload' = "over"
    /\ IF rec = "cancelling" THEN UNCHANGED <<hubVars, lock, recVars>>
       ELSE /\ rec' = "dead" /\ awaited' = {}
            /\ lock' = Leave(lock, Recorder)
            /\ IF rec \in {"camera", "saving"} THEN Release
               ELSE UNCHANGED <<depth, producer, event, stage, stop, cancelled>>
            /\ UNCHANGED <<consumers, queue>>
    /\ UNCHANGED stopping

-----------------------------------------------------------------------------
(* Other camera operations, unloading *)

OtherStarts(o) ==
    /\ o \notin {lock[i] : i \in DOMAIN lock}
    /\ lock' = Append(lock, o)
    /\ UNCHANGED <<hubVars, recVars, unloadVars>>

OtherEnds(o) ==
    /\ Holds(o)
    /\ lock' = Tail(lock)
    /\ UNCHANGED <<hubVars, recVars, unloadVars>>

\* async_unload_entry reaches the hub's async_stop ...
Unload ==
    /\ unload = "no"
    /\ stop' = stop \union event
    /\ stopping' = producer \intersect Alive
    /\ unload' = "stopping"
    /\ UNCHANGED <<consumers, queue, producer, event, stage, cancelled, lock, recVars>>

UnloadTimesOut ==
    /\ unload = "stopping" /\ stopping # {} /\ stopping \subseteq Alive
    /\ unload' = "cancelling" /\ cancelled' = cancelled \union stopping
    /\ UNCHANGED <<consumers, queue, producer, event, stage, stop, lock, recVars, stopping>>

\* ... and goes on with the bridge, the worker and the coordinator, whose last
\* save is awaited too.
UnloadReturns ==
    /\ unload \in {"stopping", "cancelling"} /\ stopping \intersect Alive = {}
    /\ unload' = "done" /\ stopping' = {}
    /\ UNCHANGED <<hubVars, lock, recVars>>

\* The producer ended because the attempt that waits for it too cancelled it: the
\* CancelledError may abort the unloading here, and the hub lives on.
UnloadRaises ==
    /\ unload = "stopping" /\ stopping # {} /\ stopping \intersect Alive = {}
    /\ stopping \subseteq cancelled
    /\ unload' = "aborted" /\ stopping' = {}
    /\ UNCHANGED <<hubVars, lock, recVars>>

-----------------------------------------------------------------------------
Init ==
    /\ consumers = {} /\ queue = [c \in Consumers |-> << >>]
    /\ producer = {} /\ event = {} /\ stage = [p \in Sessions |-> "off"]
    /\ stop = {} /\ cancelled = {}
    /\ lock = << >> /\ depth = 0 /\ rec = "idle" /\ awaited = {}
    /\ unload = "no" /\ stopping = {}

ProducerStep(p) == Open(p) \/ ProducerStops(p)

RecorderStep ==
    \/ PauseTimesOut \/ PauseReturns \/ PauseRaises \/ RecordingEnds \/ Resume
    \/ RecorderCancelled

Next ==
    \/ \E c \in Consumers : Subscribe(c) \/ Read(c) \/ Disconnect(c)
    \/ \E p \in Sessions :
        \/ ProducerStep(p) \/ ProducerFails(p)
        \/ Frame(p, consumers \intersect Video) \/ Frame(p, consumers \ Video)
    \/ Pause \/ RecorderStep
    \/ \E o \in Others : OtherStarts(o) \/ OtherEnds(o)
    \/ Unload \/ UnloadTimesOut \/ UnloadReturns \/ UnloadRaises

Spec == Init /\ [][Next]_vars

\* Ready tasks run, timeouts fire, camera operations other than the live
\* stream are bounded, consumers keep reading.  Nobody has to subscribe,
\* disconnect or record, and the stream ends only when it is asked to.
Fairness ==
    /\ \A p \in Sessions : WF_vars(ProducerStep(p))
    /\ WF_vars(RecorderStep)
    /\ \A o \in Others : WF_vars(OtherEnds(o))
    /\ \A c \in Consumers : WF_vars(Read(c))
    /\ WF_vars(UnloadTimesOut \/ UnloadReturns \/ UnloadRaises)

FairSpec == Spec /\ Fairness

-----------------------------------------------------------------------------
(* What the hub promises *)

TypeOK ==
    /\ consumers \subseteq Consumers
    /\ \A c \in Consumers : queue[c] \in Seq({"frame", "end"}) /\ Len(queue[c]) <= Capacity
    /\ producer \subseteq Sessions /\ event \subseteq Sessions
    /\ stage \in [Sessions -> {"off", "created", "open"}]
    /\ stop \subseteq Sessions /\ cancelled \subseteq Sessions
    /\ lock \in Seq(Sessions \union Others \union {Recorder})
    /\ depth \in {0, 1}
    /\ rec \in {"idle", "pausing", "cancelling", "camera", "saving", "dead"}
    /\ awaited \subseteq Sessions /\ stopping \subseteq Sessions
    /\ unload \in {"no", "stopping", "cancelling", "done", "over", "aborted"}

\* One camera session feeds all consumers (class docstring): there are never
\* two producer tasks, and the hub never loses sight of one that runs.
OneProducer == Cardinality(Alive) <= 1 /\ Alive \subseteq producer

\* From the end of the pause to the resume no producer runs or waits in the
\* line for the camera (async_pause_for_recording: "no camera producer starts
\* until async_resume_after_recording releases the priority gate").
RecordingUndisturbed == rec \in {"camera", "saving"} => Alive = {}

\* A recording does not end the consumers' streams ("Existing HTTP/go2rtc
\* consumer queues are intentionally preserved").
ToldTheEnd == {c \in Consumers : \E i \in DOMAIN queue[c] : queue[c][i] = "end"}

PreemptionKeepsConsumers ==
    [][rec \notin {"idle", "dead"} => ToldTheEnd' \subseteq ToldTheEnd]_vars

\* A recording attempt gets the camera, however long the Live View consumers
\* stay (_process_once: "A Live View consumer can legitimately remain
\* connected for minutes").
RecordingGetsCamera ==
    rec \in {"pausing", "cancelling", "camera"} ~> Holds(Recorder) \/ Unloaded

\* A consumer that was there during the recording is served again.
LiveViewResumes ==
    \A c \in Consumers :
        c \in consumers /\ Holds(Recorder) ~> c \notin consumers \/ Alive # {}

-----------------------------------------------------------------------------
(* What the source promises and the code does not keep *)

\* "End the session and let go2rtc reconnect from a fresh keyframe"
\* (_fanout): once a consumer's queue is full, the consumer is ended or fed
\* by another session, while no recording interferes.
SlowConsumerReconnects ==
    \A c \in Consumers :
        c \in consumers /\ Len(queue[c]) = Capacity /\ Alive = {} /\ rec = "idle"
            ~> c \notin consumers \/ Alive # {} \/ rec # "idle" \/ unload # "no"

\* "Persist the queue, stop listeners, Live View and polling"
\* (async_unload_entry): after the unloading no producer opens the camera.
UnloadStopsLiveView == Unloaded => Alive = {}
=============================================================================
