--------------------------- MODULE LiveHubProofs ---------------------------
(***************************************************************************)
(* There is one producer, and none while the camera is reserved for a      *)
(* recording, for any number of consumers and camera operations.           *)
(***************************************************************************)
EXTENDS LiveHub, FiniteSetTheorems, TLAPS

AtMostOne(S) == \A x, y \in S : x = y

Types ==
    /\ producer \subseteq Sessions /\ AtMostOne(producer)
    /\ stage \in [Sessions -> {"off", "created", "open"}]
    /\ depth \in Nat
    /\ rec \in {"idle", "pausing", "cancelling", "camera", "saving", "dead"}
    /\ AtMostOne(awaited) /\ AtMostOne(stopping)

\* Every attempt has its hold on the hub, and waits for the session that runs.
Held ==
    /\ rec \notin {"idle", "dead"} => depth > 0
    /\ rec \in {"pausing", "cancelling"} => Alive \subseteq awaited

\* The inductive invariant.
IInv ==
    /\ Types
    /\ Alive \subseteq producer
    /\ Held
    /\ RecordingUndisturbed

-----------------------------------------------------------------------------
LEMMA PairIsSmall ==
    ASSUME NEW S, NEW a, NEW b, S \subseteq {a, b}
    PROVE  Cardinality(S) \in 0 .. 2
<1>1. IsFiniteSet({a}) /\ Cardinality({a}) = 1
  BY FS_Singleton
<1>2. IsFiniteSet({a} \cup {b}) /\ Cardinality({a} \cup {b}) \in 1 .. 2
  BY <1>1, FS_AddElement
<1>3. S \in SUBSET ({a} \cup {b})
  OBVIOUS
<1>4. IsFiniteSet(S) /\ Cardinality(S) <= Cardinality({a} \cup {b})
  BY <1>2, <1>3, FS_Subset
<1>5. Cardinality(S) \in Nat
  BY <1>4, FS_CardinalityType
<1> QED BY <1>2, <1>4, <1>5

\* Of three names, one is neither running nor waited for.
LEMMA FreeName ==
    ASSUME Types, Alive = {}
    PROVE  \E s \in Sessions : s \notin Alive \union awaited \union stopping
<1> SUFFICES ASSUME Sessions \subseteq awaited \union stopping PROVE FALSE
  OBVIOUS
<1>1. \E x : awaited \subseteq {x}
  BY DEF Types, AtMostOne
<1>2. \E y : stopping \subseteq {y}
  BY DEF Types, AtMostOne
<1>3. PICK x, y : Sessions \subseteq {x, y}
  BY <1>1, <1>2
<1>4. Cardinality(Sessions) \in 0 .. 2
  BY <1>3, PairIsSmall
<1> QED BY <1>4, HubAssumption

\* A new producer is the only one: the hub knew all that ran.
LEMMA Started ==
    ASSUME IInv, NoProducer, StartProducer
    PROVE  /\ producer' \subseteq Sessions /\ AtMostOne(producer')
           /\ stage' \in [Sessions -> {"off", "created", "open"}]
           /\ Alive' \subseteq producer'
<1>1. Alive = {}
  BY DEF IInv, NoProducer
<1> DEFINE p == CHOOSE s \in Sessions : s \notin Alive \union awaited \union stopping
<1>2. p \in Sessions
  BY <1>1, FreeName DEF IInv
<1>3. producer' = {p} /\ stage' = [stage EXCEPT ![p] = "created"]
  BY DEF StartProducer
<1> HIDE DEF p
<1> QED BY <1>1, <1>2, <1>3 DEF IInv, Types, AtMostOne, Alive

\* What may happen to the sessions while the recorder is where it is.
LEMMA FewerAlive ==
    ASSUME IInv, UNCHANGED <<depth, rec, awaited>>, stopping' = stopping,
           producer' = producer,
           stage' \in [Sessions -> {"off", "created", "open"}], Alive' \subseteq Alive
    PROVE  IInv'
BY DEF IInv, Types, AtMostOne, Held, RecordingUndisturbed

\* The hub forgets its producer when the task that ends is the one it knows.
LEMMA Finished ==
    ASSUME IInv, NEW p \in Sessions, stage[p] = "open", Finish(p),
           UNCHANGED <<depth, rec, awaited>>, stopping' = stopping
    PROVE  IInv'
<1>1. p \in Alive /\ Alive \subseteq {p}
  BY DEF IInv, Types, AtMostOne, Alive
<1>2. Alive' = {} /\ producer' = {}
  BY <1>1 DEF Finish, Alive, IInv, Types
<1>3. stage' \in [Sessions -> {"off", "created", "open"}]
  BY DEF Finish, IInv, Types
<1> QED BY <1>2, <1>3 DEF IInv, Types, AtMostOne, Held, RecordingUndisturbed

-----------------------------------------------------------------------------
LEMMA Initially == Init => IInv
BY DEF Init, IInv, Types, AtMostOne, Alive, Held, RecordingUndisturbed

LEMMA ConsumerStep ==
    ASSUME IInv, NEW c \in Consumers, Subscribe(c) \/ Read(c) \/ Disconnect(c)
    PROVE  IInv'
<1>1. CASE Subscribe(c) /\ depth = 0 /\ NoProducer
  <2>1. StartProducer /\ UNCHANGED <<depth, rec, awaited, unload, stopping>>
    BY <1>1 DEF Subscribe, recVars, unloadVars
  <2>2. rec \in {"idle", "dead"}
    BY <1>1 DEF IInv, Types, Held
  <2> QED BY <1>1, <2>1, <2>2, Started DEF IInv, Types, AtMostOne, Held, RecordingUndisturbed
<1>2. CASE \/ Subscribe(c) /\ ~(depth = 0 /\ NoProducer)
           \/ Read(c) \/ Disconnect(c)
  <2>1. UNCHANGED <<producer, stage, depth, rec, awaited, stopping>>
    BY <1>2 DEF Subscribe, Read, Disconnect, recVars, unloadVars
  <2> QED BY <2>1, FewerAlive DEF Alive, IInv, Types
<1> QED BY <1>1, <1>2

LEMMA SessionStep ==
    ASSUME IInv, NEW p \in Sessions,
           \/ ProducerStep(p) \/ ProducerFails(p)
           \/ Frame(p, consumers \intersect Video) \/ Frame(p, consumers \ Video)
    PROVE  IInv'
<1>1. CASE Open(p)
  <2>1. UNCHANGED <<producer, depth, rec, awaited, stopping>>
    BY <1>1 DEF Open, recVars, unloadVars
  <2>2. stage[p] = "created" /\ stage' = [stage EXCEPT ![p] = "open"]
    BY <1>1 DEF Open
  <2>3. stage' \in [Sessions -> {"off", "created", "open"}] /\ Alive' \subseteq Alive
    BY <2>2 DEF Alive, IInv, Types
  <2> QED BY <2>1, <2>3, FewerAlive
<1>2. CASE ProducerStops(p) \/ ProducerFails(p)
  <2>1. stage[p] = "open" /\ Finish(p) /\ UNCHANGED <<depth, rec, awaited, stopping>>
    BY <1>2 DEF ProducerStops, ProducerFails, recVars, unloadVars
  <2> QED BY <2>1, Finished
<1>3. CASE Frame(p, consumers \intersect Video) \/ Frame(p, consumers \ Video)
  <2>1. UNCHANGED <<producer, stage, depth, rec, awaited, stopping>>
    BY <1>3 DEF Frame, recVars, unloadVars
  <2> QED BY <2>1, FewerAlive DEF Alive, IInv, Types
<1> QED BY <1>1, <1>2, <1>3 DEF ProducerStep

LEMMA PauseStep ==
    ASSUME IInv, Pause \/ PauseTimesOut \/ PauseReturns \/ PauseRaises
    PROVE  IInv'
<1>1. UNCHANGED <<producer, stage, stopping>>
  BY DEF Pause, PauseTimesOut, PauseReturns, PauseRaises, hubVars, unloadVars
<1>2. CASE Pause
  <2>1. depth' > 0 /\ depth' \in Nat
    BY <1>2 DEF Pause, IInv, Types
  <2>2. awaited' = Alive
    BY <1>2 DEF Pause, IInv
  <2>3. rec' = IF Alive = {} THEN "camera" ELSE "pausing"
    BY <1>2, <2>2 DEF Pause
  <2> QED BY <1>1, <2>1, <2>2, <2>3
        DEF IInv, Types, AtMostOne, Alive, Held, RecordingUndisturbed
<1>3. CASE PauseTimesOut
  BY <1>1, <1>3 DEF PauseTimesOut, IInv, Types, AtMostOne, Alive, Held, RecordingUndisturbed
<1>4. CASE PauseReturns
  <2>1. Alive = {}
    BY <1>4 DEF PauseReturns, IInv, Held
  <2>2. rec' = "camera" /\ rec \notin {"idle", "dead"} /\ awaited' = {} /\ depth' = depth
    BY <1>4 DEF PauseReturns
  <2> QED BY <1>1, <2>1, <2>2 DEF IInv, Types, AtMostOne, Alive, Held, RecordingUndisturbed
<1>5. CASE PauseRaises
  BY <1>1, <1>5 DEF PauseRaises, IInv, Types, AtMostOne, Alive, Held, RecordingUndisturbed
<1> QED BY <1>2, <1>3, <1>4, <1>5

\* The attempt is over: its hold is released, and a producer may start.
LEMMA ReleaseStep ==
    ASSUME IInv, rec \in {"camera", "saving"}, Release, rec' \in {"idle", "dead"},
           AtMostOne(awaited'), stopping' = stopping
    PROVE  IInv'
<1>1. depth' \in Nat
  BY DEF Release, IInv, Types
<1>2. CASE NoProducer /\ StartProducer
  BY <1>1, <1>2, Started DEF IInv, Types, AtMostOne, Held, RecordingUndisturbed
<1>3. CASE UNCHANGED <<producer, stage>>
  BY <1>1, <1>3 DEF IInv, Types, AtMostOne, Alive, Held, RecordingUndisturbed
<1> QED BY <1>2, <1>3 DEF Release

LEMMA EndStep ==
    ASSUME IInv, RecordingEnds \/ Resume \/ RecorderCancelled
    PROVE  IInv'
<1>1. CASE RecordingEnds
  BY <1>1 DEF RecordingEnds, hubVars, unloadVars, IInv, Types, AtMostOne, Alive, Held,
      RecordingUndisturbed
<1>2. CASE Resume
  BY <1>2, ReleaseStep DEF Resume, unloadVars, IInv, Types
<1>3. CASE RecorderCancelled
  <2>1. stopping' = stopping
    BY <1>3 DEF RecorderCancelled
  <2>2. CASE rec \in {"camera", "saving"}
    <3>1. AtMostOne(awaited') /\ rec' = "dead" /\ Release
      BY <1>3, <2>2 DEF RecorderCancelled, AtMostOne
    <3> QED BY <2>1, <2>2, <3>1, ReleaseStep
  <2>3. CASE rec = "cancelling"
    <3>1. UNCHANGED <<producer, stage, depth, rec, awaited>>
      BY <1>3, <2>3 DEF RecorderCancelled, hubVars, recVars
    <3> QED BY <2>1, <3>1, FewerAlive DEF Alive, IInv, Types
  <2>4. CASE rec \notin {"camera", "saving", "cancelling"}
    BY <1>3, <2>1, <2>4 DEF RecorderCancelled, IInv, Types, AtMostOne, Alive, Held,
        RecordingUndisturbed
  <2> QED BY <2>2, <2>3, <2>4
<1> QED BY <1>1, <1>2, <1>3

LEMMA UnloadStep ==
    ASSUME IInv, Unload \/ UnloadTimesOut \/ UnloadReturns \/ UnloadRaises
    PROVE  IInv'
<1>1. UNCHANGED <<producer, stage, depth, rec, awaited>>
  BY DEF Unload, UnloadTimesOut, UnloadReturns, UnloadRaises, hubVars, recVars
<1>2. AtMostOne(stopping')
  BY DEF Unload, UnloadTimesOut, UnloadReturns, UnloadRaises, IInv, Types, AtMostOne
<1> QED BY <1>1, <1>2 DEF IInv, Types, AtMostOne, Alive, Held, RecordingUndisturbed

LEMMA OtherStep ==
    ASSUME IInv, NEW o \in Others, OtherStarts(o) \/ OtherEnds(o)
    PROVE  IInv'
BY FewerAlive DEF OtherStarts, OtherEnds, hubVars, recVars, unloadVars, Alive, IInv, Types

LEMMA Stutter == ASSUME IInv, UNCHANGED vars PROVE IInv'
BY FewerAlive DEF vars, hubVars, recVars, unloadVars, Alive, IInv, Types

LEMMA Inductive == IInv /\ [Next]_vars => IInv'
<1> SUFFICES ASSUME IInv, [Next]_vars PROVE IInv'
  OBVIOUS
<1>1. CASE Next
  BY <1>1, ConsumerStep, SessionStep, PauseStep, EndStep, OtherStep, UnloadStep
  DEF Next, RecorderStep
<1> QED BY <1>1, Stutter

THEOREM Invariant == Spec => []IInv
BY Initially, Inductive, PTL DEF Spec

-----------------------------------------------------------------------------
LEMMA OneOrNone == IInv => OneProducer
<1> SUFFICES ASSUME IInv PROVE OneProducer
  OBVIOUS
<1>1. \E x : Alive \subseteq {x}
  BY DEF IInv, Types, AtMostOne
<1>2. PICK x : Alive \in SUBSET {x}
  BY <1>1
<1>3. IsFiniteSet({x}) /\ Cardinality({x}) = 1
  BY FS_Singleton
<1>4. Cardinality(Alive) <= 1
  BY <1>2, <1>3, FS_Subset
<1> QED BY <1>4 DEF OneProducer, IInv

\* One camera session feeds all consumers: there are never two producer tasks, and the hub
\* knows the one that runs.
THEOREM ProducerIsUnique == Spec => []OneProducer
BY Invariant, OneOrNone, PTL

\* While a recording has the camera, no producer runs or waits for it (live_http,
\* async_pause_for_recording and async_resume_after_recording).
THEOREM RecordingHasCamera == Spec => []RecordingUndisturbed
<1>1. IInv => RecordingUndisturbed
  BY DEF IInv
<1> QED BY <1>1, Invariant, PTL

-----------------------------------------------------------------------------
(* Types of the queues and of the line, and the count of the holds *)

Queues == {q \in Seq({"frame", "end"}) : Len(q) <= Capacity}
Tasks == Sessions \union Others \union {Recorder}

\* The second half of the invariant.
Shape ==
    /\ consumers \subseteq Consumers /\ queue \in [Consumers -> Queues]
    /\ event \subseteq Sessions /\ stop \subseteq Sessions /\ cancelled \subseteq Sessions
    /\ awaited \subseteq Sessions /\ stopping \subseteq Sessions
    /\ lock \in Seq(Tasks)
    /\ unload \in {"no", "stopping", "cancelling", "done", "over", "aborted"}

\* A hold is left over only by an attempt that ended during its pause.
HoldCount ==
    /\ depth \in {0, 1}
    /\ rec = "idle" => depth = 0

LEMMA QueueSteps ==
    ASSUME NEW q \in Queues
    PROVE  /\ << >> \in Queues
           /\ Len(q) < Capacity => Append(q, "end") \in Queues /\ Append(q, "frame") \in Queues
           /\ q # << >> => Tail(q) \in Queues
<1>1. Capacity \in Nat
  BY HubAssumption
<1>2. q \in Seq({"frame", "end"}) /\ Len(q) <= Capacity
  BY DEF Queues
<1> QED BY <1>1, <1>2 DEF Queues

LEMMA LeaveIsInLine ==
    ASSUME NEW s \in Seq(Tasks), NEW x
    PROVE  Leave(s, x) \in Seq(Tasks)
<1> DEFINE places == {i \in DOMAIN s : s[i] = x}
           at == CHOOSE i \in places : TRUE
<1>1. CASE places = {}
  BY <1>1 DEF Leave
<1>2. CASE places # {}
  <2>1. at \in 1 .. Len(s)
    BY <1>2
  <2>2. Leave(s, x) = SubSeq(s, 1, at - 1) \o SubSeq(s, at + 1, Len(s))
    BY <1>2 DEF Leave
  <2> HIDE DEF at
  <2>3. SubSeq(s, 1, at - 1) \in Seq(Tasks) /\ SubSeq(s, at + 1, Len(s)) \in Seq(Tasks)
    BY <2>1
  <2> QED BY <2>2, <2>3
<1> QED BY <1>1, <1>2

\* The hub's queues after a task's end.
LEMMA FinishKeepsShape ==
    ASSUME IInv, Shape, NEW p \in Sessions, Finish(p)
    PROVE  queue' \in [Consumers -> Queues] /\ event' \subseteq Sessions
BY QueueSteps DEF Finish, Shape

LEMMA StartKeepsShape ==
    ASSUME IInv, Shape, NoProducer, StartProducer
    PROVE  /\ event' \subseteq Sessions /\ stop' \subseteq Sessions
           /\ cancelled' \subseteq Sessions
<1> DEFINE p == CHOOSE s \in Sessions : s \notin Alive \union awaited \union stopping
<1>1. Alive = {}
  BY DEF IInv, NoProducer
<1>2. p \in Sessions
  BY <1>1, FreeName DEF IInv
<1>3. event' = {p} /\ stop' = stop \ {p} /\ cancelled' = cancelled \ {p}
  BY DEF StartProducer
<1> HIDE DEF p
<1> QED BY <1>2, <1>3 DEF Shape

LEMMA ConsumerShape ==
    ASSUME IInv, Shape, NEW c \in Consumers, Subscribe(c) \/ Read(c) \/ Disconnect(c)
    PROVE  Shape'
<1>1. CASE Subscribe(c)
  <2>1. UNCHANGED <<queue, lock, awaited, unload, stopping>> /\ consumers' \subseteq Consumers
    BY <1>1 DEF Subscribe, Shape, recVars, unloadVars
  <2>2. event' \subseteq Sessions /\ stop' \subseteq Sessions /\ cancelled' \subseteq Sessions
    BY <1>1, StartKeepsShape DEF Subscribe, Shape
  <2> QED BY <2>1, <2>2 DEF Shape
<1>2. CASE Read(c) \/ Disconnect(c)
  <2>1. UNCHANGED <<event, cancelled, lock, awaited, unload, stopping>>
    BY <1>2 DEF Read, Disconnect, recVars, unloadVars
  <2>2. /\ consumers' \subseteq Consumers /\ stop' \subseteq Sessions
    BY <1>2 DEF Read, Disconnect, Unsubscribe, Shape
  <2>3. \/ queue' = [queue EXCEPT ![c] = << >>]
        \/ queue[c] # << >> /\ queue' = [queue EXCEPT ![c] = Tail(@)]
    BY <1>2 DEF Read, Disconnect, Unsubscribe
  <2>4. queue[c] \in Queues
    BY DEF Shape
  <2>5. << >> \in Queues /\ (queue[c] # << >> => Tail(queue[c]) \in Queues)
    BY <2>4, QueueSteps
  <2>6. queue' \in [Consumers -> Queues]
    BY <2>3, <2>5 DEF Shape
  <2> QED BY <2>1, <2>2, <2>6 DEF Shape
<1> QED BY <1>1, <1>2

LEMMA SessionShape ==
    ASSUME IInv, Shape, NEW p \in Sessions,
           \/ ProducerStep(p) \/ ProducerFails(p)
           \/ Frame(p, consumers \intersect Video) \/ Frame(p, consumers \ Video)
    PROVE  Shape'
<1>1. CASE Open(p)
  <2>1. lock' \in Seq(Tasks)
    BY <1>1 DEF Open, Shape, Tasks
  <2> QED BY <1>1, <2>1 DEF Open, Shape, recVars, unloadVars
<1>2. CASE ProducerStops(p) \/ ProducerFails(p)
  <2>1. /\ Finish(p) /\ lock' = Leave(lock, p)
        /\ UNCHANGED <<consumers, stop, cancelled, awaited, unload, stopping>>
    BY <1>2 DEF ProducerStops, ProducerFails, recVars, unloadVars
  <2>2. lock' \in Seq(Tasks)
    BY <2>1, LeaveIsInLine DEF Shape
  <2>3. queue' \in [Consumers -> Queues] /\ event' \subseteq Sessions
    BY <2>1, FinishKeepsShape
  <2> QED BY <2>1, <2>2, <2>3 DEF Shape
<1>3. ASSUME NEW track, track \subseteq Consumers, Frame(p, track)
      PROVE  Shape'
  <2>1. UNCHANGED <<consumers, event, cancelled, lock, awaited, unload, stopping>>
    BY <1>3 DEF Frame, recVars, unloadVars
  <2>2. stop' \subseteq Sessions
    BY <1>3 DEF Frame, Shape
  <2>3. PICK served \in SUBSET track :
            /\ \A c \in served : ~(Len(queue[c]) >= Capacity)
            /\ queue' = [c \in Consumers |-> IF c \in served THEN Append(queue[c], "frame")
                                             ELSE queue[c]]
    BY <1>3 DEF Frame
  <2>4. ASSUME NEW c \in Consumers PROVE queue'[c] \in Queues
    <3>1. queue[c] \in Queues /\ Len(queue[c]) \in Nat /\ Capacity \in Nat
      BY HubAssumption DEF Shape, Queues
    <3>2. CASE c \in served
      BY <2>3, <3>1, <3>2, QueueSteps
    <3>3. CASE c \notin served
      BY <2>3, <3>1, <3>3
    <3> QED BY <3>2, <3>3
  <2>5. queue' \in [Consumers -> Queues]
    BY <2>3, <2>4
  <2> QED BY <2>1, <2>2, <2>5 DEF Shape
<1> QED BY <1>1, <1>2, <1>3 DEF ProducerStep, Shape

LEMMA RecorderShape ==
    ASSUME IInv, Shape, Pause \/ RecorderStep
    PROVE  Shape'
<1>1. UNCHANGED <<consumers, queue, stopping>> /\ unload' \in {unload, "over"}
  BY DEF Pause, RecorderStep, PauseTimesOut, PauseReturns, PauseRaises, RecordingEnds, Resume,
      RecorderCancelled, hubVars, unloadVars
<1>2. lock' \in Seq(Tasks)
  <2>1. \/ lock' = lock \/ lock' = Append(lock, Recorder) \/ lock' = Leave(lock, Recorder)
    BY DEF Pause, RecorderStep, PauseTimesOut, PauseReturns, PauseRaises, RecordingEnds, Resume,
        RecorderCancelled
  <2>2. lock \in Seq(Tasks) /\ Recorder \in Tasks
    BY DEF Shape, Tasks
  <2>3. Append(lock, Recorder) \in Seq(Tasks)
    BY <2>2
  <2>4. Leave(lock, Recorder) \in Seq(Tasks)
    BY <2>2, LeaveIsInLine
  <2> QED BY <2>1, <2>2, <2>3, <2>4
<1>3. awaited' \subseteq Sessions
  BY DEF Pause, RecorderStep, PauseTimesOut, PauseReturns, PauseRaises, RecordingEnds, Resume,
      RecorderCancelled, Shape, Alive, recVars
<1>4. event' \subseteq Sessions /\ stop' \subseteq Sessions /\ cancelled' \subseteq Sessions
  <2>1. CASE Release
    BY <2>1, StartKeepsShape DEF Release, Shape
  <2>2. CASE ~Release
    BY <2>2 DEF Pause, RecorderStep, PauseTimesOut, PauseReturns, PauseRaises, RecordingEnds,
        Resume, RecorderCancelled, Shape, hubVars
  <2> QED BY <2>1, <2>2
<1> QED BY <1>1, <1>2, <1>3, <1>4 DEF Shape

LEMMA OtherShape ==
    ASSUME IInv, Shape,
           \/ \E o \in Others : OtherStarts(o) \/ OtherEnds(o)
           \/ Unload \/ UnloadTimesOut \/ UnloadReturns \/ UnloadRaises
    PROVE  Shape'
<1>1. CASE \E o \in Others : OtherStarts(o) \/ OtherEnds(o)
  <2>1. lock' \in Seq(Tasks)
    BY <1>1 DEF OtherStarts, OtherEnds, Holds, Shape, Tasks
  <2> QED BY <1>1, <2>1 DEF OtherStarts, OtherEnds, Shape, hubVars, recVars, unloadVars
<1>2. CASE Unload \/ UnloadTimesOut \/ UnloadReturns \/ UnloadRaises
  BY <1>2 DEF Unload, UnloadTimesOut, UnloadReturns, UnloadRaises, Shape, Alive, hubVars, recVars
<1> QED BY <1>1, <1>2

LEMMA ShapeInductive == IInv /\ Shape /\ [Next]_vars => Shape'
<1> SUFFICES ASSUME IInv, Shape, [Next]_vars PROVE Shape'
  OBVIOUS
<1>1. CASE Next
  BY <1>1, ConsumerShape, SessionShape, RecorderShape, OtherShape DEF Next
<1>2. CASE UNCHANGED vars
  BY <1>2 DEF vars, hubVars, recVars, unloadVars, Shape
<1> QED BY <1>1, <1>2

LEMMA HoldsInductive == IInv /\ HoldCount /\ [Next]_vars => HoldCount'
<1> SUFFICES ASSUME IInv, HoldCount, [Next]_vars PROVE HoldCount'
  OBVIOUS
<1>1. CASE UNCHANGED <<depth, rec, unload>>
  BY <1>1 DEF HoldCount
<1>2. CASE Pause
  BY <1>2 DEF Pause, HoldCount, unloadVars
<1>3. CASE PauseTimesOut \/ PauseReturns \/ PauseRaises \/ RecordingEnds
  BY <1>3 DEF PauseTimesOut, PauseReturns, PauseRaises, RecordingEnds, HoldCount, unloadVars
<1>4. CASE Resume \/ RecorderCancelled
  BY <1>4 DEF Resume, RecorderCancelled, Release, HoldCount, recVars
<1>5. CASE Unload \/ UnloadTimesOut \/ UnloadReturns \/ UnloadRaises
  BY <1>5 DEF Unload, UnloadTimesOut, UnloadReturns, UnloadRaises, HoldCount, recVars
<1>6. CASE \E c \in Consumers : Subscribe(c) \/ Read(c) \/ Disconnect(c)
  BY <1>6, <1>1 DEF Subscribe, Read, Disconnect, recVars, unloadVars
<1>7. CASE \E p \in Sessions :
              \/ ProducerStep(p) \/ ProducerFails(p)
              \/ Frame(p, consumers \intersect Video) \/ Frame(p, consumers \ Video)
  BY <1>7, <1>1 DEF ProducerStep, Open, ProducerStops, ProducerFails, Frame, recVars, unloadVars
<1>8. CASE \E o \in Others : OtherStarts(o) \/ OtherEnds(o)
  BY <1>8, <1>1 DEF OtherStarts, OtherEnds, recVars, unloadVars
<1> QED BY <1>1, <1>2, <1>3, <1>4, <1>5, <1>6, <1>7, <1>8
        DEF Next, RecorderStep, vars, recVars, unloadVars

\* Every variable keeps its type; the hub's hold count never passes one, and no queue its
\* capacity.
THEOREM Typing == Spec => []TypeOK
<1>1. Init => Shape /\ HoldCount
  <2>1. << >> \in Queues
    BY HubAssumption DEF Queues
  <2> QED BY <2>1 DEF Init, Shape, HoldCount
<1>2. IInv /\ Shape /\ HoldCount => TypeOK
  BY DEF IInv, Types, Shape, HoldCount, Queues, Tasks, TypeOK
<1> QED BY <1>1, <1>2, Invariant, ShapeInductive, HoldsInductive, PTL DEF Spec

-----------------------------------------------------------------------------
(* A recording does not end the consumers' streams *)

HasEnd(q) == \E i \in DOMAIN q : q[i] = "end"

LEMMA OnlyEndAddsEnd ==
    ASSUME NEW q \in Queues
    PROVE  /\ ~HasEnd(<< >>)
           /\ HasEnd(Append(q, "frame")) => HasEnd(q)
           /\ q # << >> /\ HasEnd(Tail(q)) => HasEnd(q)
<1>1. q \in Seq({"frame", "end"})
  BY DEF Queues
<1>2. ~HasEnd(<< >>)
  BY DEF HasEnd
<1>3. HasEnd(Append(q, "frame")) => HasEnd(q)
  BY <1>1 DEF HasEnd
<1>4. ASSUME q # << >>, HasEnd(Tail(q)) PROVE HasEnd(q)
  <2>1. PICK i \in DOMAIN Tail(q) : Tail(q)[i] = "end"
    BY <1>4 DEF HasEnd
  <2>2. i + 1 \in DOMAIN q /\ q[i + 1] = "end"
    BY <1>1, <1>4, <2>1
  <2> QED BY <2>2 DEF HasEnd
<1> QED BY <1>2, <1>3, <1>4

\* While an attempt is under way (its pause included) a step gives no consumer an end mark.
LEMMA NoNewEnds ==
    ASSUME IInv, Shape, rec \notin {"idle", "dead"}, [Next]_vars
    PROVE  ToldTheEnd' \subseteq ToldTheEnd
<1>1. depth # 0
  BY DEF IInv, Held, Types
<1>2. ASSUME NEW c \in Consumers PROVE HasEnd(queue'[c]) => HasEnd(queue[c])
  <2>0. queue[c] \in Queues
    BY DEF Shape
  <2>1. \/ queue'[c] = queue[c] \/ queue'[c] = << >>
        \/ queue'[c] = Append(queue[c], "frame")
        \/ queue[c] # << >> /\ queue'[c] = Tail(queue[c])
    <3>1. CASE UNCHANGED queue
      BY <3>1
    <3>2. CASE \E d \in Consumers : Read(d) \/ Disconnect(d)
      BY <3>2 DEF Read, Disconnect, Unsubscribe, Shape
    <3>3. CASE \E p \in Sessions : ProducerStops(p) \/ ProducerFails(p)
      BY <3>3, <1>1 DEF ProducerStops, ProducerFails, Finish
    <3>4. CASE \E p \in Sessions : \/ Frame(p, consumers \intersect Video)
                                   \/ Frame(p, consumers \ Video)
      BY <3>4 DEF Frame
    <3>5. CASE \/ \E d \in Consumers : Subscribe(d)
               \/ \E p \in Sessions : Open(p)
               \/ Pause \/ RecorderStep
               \/ \E o \in Others : OtherStarts(o) \/ OtherEnds(o)
               \/ Unload \/ UnloadTimesOut \/ UnloadReturns \/ UnloadRaises
      BY <3>5, <3>1 DEF Subscribe, Open, Pause, RecorderStep, PauseTimesOut, PauseReturns,
          PauseRaises, RecordingEnds, Resume, RecorderCancelled, OtherStarts, OtherEnds, Unload,
          UnloadTimesOut, UnloadReturns, UnloadRaises, hubVars
    <3> QED BY <3>1, <3>2, <3>3, <3>4, <3>5 DEF Next, ProducerStep, vars, hubVars
  <2> QED BY <2>0, <2>1, OnlyEndAddsEnd
<1> QED BY <1>2 DEF ToldTheEnd, HasEnd

\* A recording takes the camera from the live stream and gives it back without telling any
\* consumer that its stream is over (async_pause_for_recording).
THEOREM RecordingKeepsConsumers == Spec => PreemptionKeepsConsumers
<1>1. Init => Shape
  BY HubAssumption DEF Init, Shape, Queues
<1>2. IInv /\ Shape /\ [Next]_vars
      => [rec \notin {"idle", "dead"} => ToldTheEnd' \subseteq ToldTheEnd]_vars
  BY NoNewEnds
<1> QED BY <1>1, <1>2, Invariant, ShapeInductive, PTL DEF Spec, PreemptionKeepsConsumers

-----------------------------------------------------------------------------
(* The line in front of the camera *)

\* Each task has at most one place in the line, and only while it is under way.
Line ==
    /\ \A i, j \in DOMAIN lock : lock[i] = lock[j] => i = j
    /\ \A i \in DOMAIN lock :
        /\ lock[i] \in Sessions => stage[lock[i]] = "open"
        /\ lock[i] = Recorder => rec = "camera"

\* Who leaves is gone; the others stay, each at most once.
LEMMA LeaveRemoves ==
    ASSUME NEW s \in Seq(Tasks), NEW x, \A i, j \in DOMAIN s : s[i] = s[j] => i = j
    PROVE  LET t == Leave(s, x)
           IN  /\ \A i, j \in DOMAIN t : t[i] = t[j] => i = j
               /\ \A i \in DOMAIN t : t[i] # x /\ \E k \in DOMAIN s : s[k] = t[i]
<1> DEFINE places == {i \in DOMAIN s : s[i] = x}
           at == CHOOSE i \in places : TRUE
           t == Leave(s, x)
<1>1. CASE places = {}
  BY <1>1 DEF Leave
<1>2. CASE places # {}
  <2>1. at \in 1 .. Len(s) /\ s[at] = x
    BY <1>2
  <2>2. t = SubSeq(s, 1, at - 1) \o SubSeq(s, at + 1, Len(s))
    BY <1>2 DEF Leave
  <2> DEFINE l == SubSeq(s, 1, at - 1)
             r == SubSeq(s, at + 1, Len(s))
  <2> HIDE DEF at, t
  <2>a. l \in Seq(Tasks) /\ Len(l) = at - 1 /\ \A i \in 1 .. at - 1 : l[i] = s[i]
    BY <2>1
  <2>b. /\ r \in Seq(Tasks) /\ Len(r) = Len(s) - at
        /\ \A i \in 1 .. Len(s) - at : r[i] = s[at + i]
    BY <2>1
  <2>c. t = l \o r
    BY <2>2
  <2> HIDE DEF l, r
  <2>3. Len(t) = Len(s) - 1 /\ Len(t) \in Nat
    <3>1. Len(t) = Len(l) + Len(r)
      BY <2>a, <2>b, <2>c
    <3>2. Len(s) \in Nat /\ at \in Nat
      BY <2>1
    <3> QED BY <2>1, <2>a, <2>b, <3>1, <3>2
  <2>4. ASSUME NEW i \in 1 .. Len(t) PROVE t[i] = s[IF i < at THEN i ELSE i + 1]
    <3>1. CASE i < at
      <4>1. i \in 1 .. at - 1 /\ i \in 1 .. Len(l)
        BY <2>1, <2>3, <2>a, <3>1
      <4>2. t[i] = l[i]
        BY <2>a, <2>b, <2>c, <4>1
      <4> QED BY <2>a, <3>1, <4>1, <4>2
    <3>2. CASE ~(i < at)
      <4>1. i - Len(l) \in 1 .. Len(r) /\ i - Len(l) = i - at + 1
        BY <2>1, <2>3, <2>a, <2>b, <3>2
      <4>2. t[i] = r[i - Len(l)]
        BY <2>1, <2>3, <2>a, <2>b, <2>c, <3>2, <4>1
      <4>3. at + (i - at + 1) = i + 1
        BY <2>1
      <4> QED BY <2>b, <3>2, <4>1, <4>2, <4>3
    <3> QED BY <3>1, <3>2
  <2>5. DOMAIN t = 1 .. Len(t) /\ DOMAIN s = 1 .. Len(s) /\ Len(s) \in Nat
    BY <2>a, <2>b, <2>c
  <2>6. ASSUME NEW i \in 1 .. Len(t)
        PROVE  /\ (IF i < at THEN i ELSE i + 1) \in 1 .. Len(s)
               /\ (IF i < at THEN i ELSE i + 1) # at
    BY <2>1, <2>3, <2>5
  <2>7. ASSUME NEW i \in 1 .. Len(t)
        PROVE  t[i] # x /\ \E k \in 1 .. Len(s) : s[k] = t[i]
    BY <2>1, <2>4, <2>5, <2>6
  <2>8. ASSUME NEW i \in 1 .. Len(t), NEW j \in 1 .. Len(t), t[i] = t[j] PROVE i = j
    <3>1. (IF i < at THEN i ELSE i + 1) = (IF j < at THEN j ELSE j + 1)
      BY <2>4, <2>5, <2>6, <2>8
    <3> QED BY <2>1, <2>3, <2>5, <3>1
  <2> QED BY <2>5, <2>7, <2>8 DEF t
<1> QED BY <1>1, <1>2

\* The lines after the three things that happen to it.
LEMMA JoinLine ==
    ASSUME Shape, Line, NEW x \in Tasks, lock' = Append(lock, x),
           \A i \in DOMAIN lock : lock[i] # x,
           \A p \in Sessions : stage[p] = "open" => stage'[p] = "open",
           x \in Sessions => stage'[x] = "open",
           x = Recorder => rec' = "camera", rec = "camera" => rec' = "camera"
    PROVE  Line'
<1>1. lock \in Seq(Tasks) /\ Len(lock) \in Nat /\ DOMAIN lock = 1 .. Len(lock)
  BY DEF Shape
<1>2. DOMAIN lock' = 1 .. Len(lock) + 1
  BY <1>1
<1>3. \A i \in 1 .. Len(lock) : lock'[i] = lock[i]
  BY <1>1
<1>4. lock'[Len(lock) + 1] = x
  BY <1>1
<1>5. \A i \in 1 .. Len(lock) + 1 : i \in 1 .. Len(lock) \/ i = Len(lock) + 1
  BY <1>1
<1> QED BY <1>1, <1>2, <1>3, <1>4, <1>5 DEF Line

LEMMA LeaveLine ==
    ASSUME Shape, Line, NEW x, lock' = Leave(lock, x),
           \A p \in Sessions : p # x /\ stage[p] = "open" => stage'[p] = "open",
           x # Recorder /\ rec = "camera" => rec' = "camera"
    PROVE  Line'
<1>1. lock \in Seq(Tasks) /\ \A i, j \in DOMAIN lock : lock[i] = lock[j] => i = j
  BY DEF Shape, Line
<1>2. /\ \A i, j \in DOMAIN lock' : lock'[i] = lock'[j] => i = j
      /\ \A i \in DOMAIN lock' : lock'[i] # x /\ \E k \in DOMAIN lock : lock[k] = lock'[i]
  BY <1>1, LeaveRemoves
<1>3. \A i \in DOMAIN lock' :
        /\ lock'[i] \in Sessions => stage'[lock'[i]] = "open"
        /\ lock'[i] = Recorder => rec' = "camera"
  BY <1>2 DEF Line
<1> QED BY <1>2, <1>3 DEF Line

LEMMA SameLine ==
    ASSUME Line, lock' = lock,
           \A p \in Sessions : stage[p] = "open" => stage'[p] = "open",
           rec = "camera" => rec' = "camera"
    PROVE  Line'
BY DEF Line

LEMMA TailLine ==
    ASSUME Shape, Line, lock # << >>, lock' = Tail(lock), UNCHANGED <<stage, rec>>
    PROVE  Line'
<1>1. lock \in Seq(Tasks) /\ Len(lock) \in Nat /\ DOMAIN lock = 1 .. Len(lock)
  BY DEF Shape
<1>2. DOMAIN lock' = 1 .. Len(lock) - 1
  BY <1>1
<1>3. \A i \in 1 .. Len(lock) - 1 : lock'[i] = lock[i + 1] /\ i + 1 \in 1 .. Len(lock)
  BY <1>1
<1>4. ASSUME NEW i \in DOMAIN lock', NEW j \in DOMAIN lock', lock'[i] = lock'[j]
      PROVE  i = j
  <2>1. i + 1 = j + 1
    BY <1>1, <1>2, <1>3, <1>4 DEF Line
  <2> QED BY <1>1, <1>2, <2>1
<1>5. ASSUME NEW i \in DOMAIN lock'
      PROVE  /\ lock'[i] \in Sessions => stage'[lock'[i]] = "open"
             /\ lock'[i] = Recorder => rec' = "camera"
  BY <1>1, <1>2, <1>3 DEF Line
<1> QED BY <1>4, <1>5 DEF Line

\* A producer starts under a name that is not in the line.
LEMMA StartLine ==
    ASSUME IInv, NoProducer, StartProducer
    PROVE  \A p \in Sessions : stage[p] = "open" => stage'[p] = "open"
BY DEF IInv, NoProducer, Alive

LEMMA LineInductive ==
    ASSUME IInv, Shape, Line, [Next]_vars
    PROVE  Line'
<1>1. CASE UNCHANGED <<lock, stage, rec>>
  BY <1>1, SameLine
<1>2. ASSUME NEW c \in Consumers, Subscribe(c) PROVE Line'
  <2>1. lock' = lock /\ rec' = rec
    BY <1>2 DEF Subscribe, recVars
  <2>2. \A p \in Sessions : stage[p] = "open" => stage'[p] = "open"
    BY <1>2, StartLine DEF Subscribe
  <2> QED BY <2>1, <2>2, SameLine
<1>3. ASSUME NEW p \in Sessions, Open(p) PROVE Line'
  <2>1. /\ stage[p] = "created" /\ stage' = [stage EXCEPT ![p] = "open"]
        /\ lock' = Append(lock, p) /\ rec' = rec
    BY <1>3 DEF Open, recVars
  <2>2. p \in Tasks /\ p # Recorder /\ stage'[p] = "open"
    BY <2>1, HubAssumption DEF Tasks, IInv, Types
  <2>3. \A i \in DOMAIN lock : lock[i] # p
    BY <2>1 DEF Line
  <2>4. \A x \in Sessions : stage[x] = "open" => stage'[x] = "open"
    BY <2>1 DEF IInv, Types
  <2> QED BY <2>1, <2>2, <2>3, <2>4, JoinLine
<1>4. ASSUME NEW p \in Sessions, ProducerStops(p) \/ ProducerFails(p) PROVE Line'
  <2>1. lock' = Leave(lock, p) /\ rec' = rec /\ stage' = [stage EXCEPT ![p] = "off"]
    BY <1>4 DEF ProducerStops, ProducerFails, Finish, recVars
  <2>2. \A x \in Sessions : x # p /\ stage[x] = "open" => stage'[x] = "open"
    BY <2>1 DEF IInv, Types
  <2> QED BY <2>1, <2>2, LeaveLine
<1>5. CASE Pause \/ PauseReturns \/ PauseRaises
  <2>1. rec # "camera" /\ stage' = stage
    BY <1>5 DEF Pause, PauseReturns, PauseRaises, hubVars
  <2>2. \/ rec' = "camera" /\ lock' = Append(lock, Recorder)
        \/ lock' = lock
    BY <1>5 DEF Pause, PauseReturns, PauseRaises
  <2>3. \A i \in DOMAIN lock : lock[i] # Recorder
    BY <2>1 DEF Line
  <2>4. Recorder \in Tasks /\ Recorder \notin Sessions
    BY HubAssumption DEF Tasks
  <2> QED BY <2>1, <2>2, <2>3, <2>4, JoinLine, SameLine
<1>6. CASE PauseTimesOut
  BY <1>6, SameLine DEF PauseTimesOut
<1>7. CASE RecordingEnds
  BY <1>7, LeaveLine DEF RecordingEnds, hubVars
<1>8. CASE Resume
  <2>1. lock' = lock /\ rec # "camera"
    BY <1>8 DEF Resume
  <2>2. \A p \in Sessions : stage[p] = "open" => stage'[p] = "open"
    BY <1>8, StartLine DEF Resume, Release
  <2> QED BY <2>1, <2>2, SameLine
<1>9. CASE RecorderCancelled
  <2>1. CASE rec = "cancelling"
    BY <1>9, <2>1, SameLine DEF RecorderCancelled, hubVars, recVars
  <2>2. CASE rec # "cancelling"
    <3>1. lock' = Leave(lock, Recorder)
      BY <1>9, <2>2 DEF RecorderCancelled
    <3>2. \A p \in Sessions : stage[p] = "open" => stage'[p] = "open"
      BY <1>9, <2>2, StartLine DEF RecorderCancelled, Release
    <3> QED BY <3>1, <3>2, LeaveLine
  <2> QED BY <2>1, <2>2
<1>10. ASSUME NEW o \in Others, OtherStarts(o) PROVE Line'
  <2>1. lock' = Append(lock, o) /\ UNCHANGED <<stage, rec>>
    BY <1>10 DEF OtherStarts, hubVars, recVars
  <2>2. \A i \in DOMAIN lock : lock[i] # o
    BY <1>10 DEF OtherStarts
  <2>3. o \in Tasks /\ o # Recorder /\ o \notin Sessions
    BY HubAssumption DEF Tasks
  <2> QED BY <2>1, <2>2, <2>3, JoinLine
<1>11. ASSUME NEW o \in Others, OtherEnds(o) PROVE Line'
  BY <1>11, TailLine DEF OtherEnds, Holds, hubVars, recVars
<1>12. CASE \/ \E c \in Consumers : Read(c) \/ Disconnect(c)
            \/ \E p \in Sessions : \/ Frame(p, consumers \intersect Video)
                                   \/ Frame(p, consumers \ Video)
            \/ Unload \/ UnloadTimesOut \/ UnloadReturns \/ UnloadRaises
  BY <1>12, <1>1 DEF Read, Disconnect, Frame, Unload, UnloadTimesOut, UnloadReturns,
      UnloadRaises, hubVars, recVars
<1> QED BY <1>1, <1>2, <1>3, <1>4, <1>5, <1>6, <1>7, <1>8, <1>9, <1>10, <1>11, <1>12
        DEF Next, ProducerStep, RecorderStep, vars, hubVars, recVars

\* Who holds the lock is a session, an attempt or another operation still under way.
HolderIsActive ==
    lock # << >> =>
        LET holder == Head(lock)
        IN  holder \in Alive \union Others \/ (holder = Recorder /\ rec = "camera")

\* The camera is never left reserved for nobody: the lock's holder is a session or an attempt
\* still under way, whoever was cancelled in the line (local_operation_lock).
THEOREM HolderRuns == Spec => []HolderIsActive
<1>1. Init => Shape /\ Line
  <2>1. << >> \in Queues
    BY HubAssumption DEF Queues
  <2> QED BY <2>1 DEF Init, Shape, Line
<1>2. IInv /\ Shape /\ Line => HolderIsActive
  <2> SUFFICES ASSUME IInv, Shape, Line, lock # << >>
               PROVE  Head(lock) \in Alive \union Others
                      \/ (Head(lock) = Recorder /\ rec = "camera")
    BY DEF HolderIsActive
  <2>1. 1 \in DOMAIN lock /\ Head(lock) = lock[1] /\ lock[1] \in Tasks
    BY DEF Shape
  <2> QED BY <2>1 DEF Line, Tasks, Alive
<1>3. IInv /\ Shape /\ Line /\ [Next]_vars => Line'
  BY LineInductive
<1> QED BY <1>1, <1>2, <1>3, Invariant, ShapeInductive, PTL DEF Spec
=============================================================================
