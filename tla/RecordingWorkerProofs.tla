----------------------- MODULE RecordingWorkerProofs -----------------------
(***************************************************************************)
(* The recording worker uses the coordinator as CoordSpec allows, so the   *)
(* coordinator's theorems hold of it, and its variables keep their types.  *)
(***************************************************************************)
EXTENDS RecordingWorker, CoordinatorProofs

\* A task waits for one save at a time, and the tasks that make calls without
\* a check of their own are not waiting then: the worker, which waits in the
\* five places where it saves, and the unloading.
SavingPlaces == {"bootStale", "bootSkip", "sweepSave", "deferSave", "completeSave"}

TasksOK ==
    /\ Distinct(savers)
    /\ Saving(Worker) => at \in SavingPlaces
    /\ Saving(Unload) => stopped

WInv == IInv /\ WorkerTypeOK /\ TasksOK

-----------------------------------------------------------------------------
(* The helpers that walk a list or choose from it *)

\* A nonempty set of naturals has a least element: the code's loops take the
\* first entry that passes a test.
LEMMA LeastNat ==
    ASSUME NEW S \in SUBSET Nat, S # {}
    PROVE  \E n \in S : \A m \in S : n <= m
<1> SUFFICES ASSUME \A n \in S : \E m \in S : ~(n <= m) PROVE FALSE
  OBVIOUS
<1> DEFINE T == {n \in Nat : \A m \in S : n < m}
<1>1. 0 \in T
  <2>1. 0 \notin S
    OBVIOUS
  <2> QED BY <2>1
<1>2. ASSUME NEW n \in Nat, n \in T PROVE n + 1 \in T
  <2>1. \A m \in S : n + 1 <= m
    BY <1>2
  <2>2. n + 1 \notin S
    BY <2>1
  <2> QED BY <2>1, <2>2
<1>3. Nat \subseteq T
  <2> HIDE DEF T
  <2> QED BY <1>1, <1>2, SetInduction
<1>4. PICK m \in S : TRUE
  OBVIOUS
<1>5. m \in T
  BY <1>3
<1> QED BY <1>5

\* First and After: the next listed event that passes the test, and the rest.
LEMMA FirstAfter ==
    ASSUME NEW S, NEW s \in Seq(S), NEW ids, IdsOf(s) \intersect ids # {}
    PROVE  First(s, ids) \in IdsOf(s) \intersect ids /\ After(s, ids) \in Seq(S)
<1>1. First(s, ids) \in IdsOf(s) \intersect ids
  <2> DEFINE w == Without(s, IdsOf(s) \ ids)
  <2>1. w \in Seq(S) /\ IdsOf(w) = IdsOf(s) \ (IdsOf(s) \ ids)
    BY WithoutProperties
  <2>2. w # << >>
    <3> HIDE DEF w
    <3> QED BY <2>1 DEF IdsOf
  <2>3. Head(w) \in IdsOf(w)
    <3> HIDE DEF w
    <3> QED BY <2>1, <2>2, TailDistinct
  <2> HIDE DEF w
  <2> QED BY <2>1, <2>3 DEF First, w
<1>2. After(s, ids) \in Seq(S)
  <2> DEFINE I == {i \in 1 .. Len(s) : s[i] \in ids}
             Is(i) == s[i] \in ids /\ \A j \in 1 .. i - 1 : s[j] \notin ids
             k == CHOOSE i \in DOMAIN s : Is(i)
  <2>1. I # {} /\ I \subseteq Nat
    BY IdsOfSeq
  <2>2. PICK i \in I : \A j \in I : i <= j
    <3> HIDE DEF I
    <3> QED BY <2>1, LeastNat
  <2>3. i \in DOMAIN s /\ Is(i)
    <3>1. ASSUME NEW j \in 1 .. i - 1, s[j] \in ids PROVE FALSE
      BY <2>2, <3>1
    <3> QED BY <3>1
  <2>4. k \in DOMAIN s
    <3> HIDE DEF Is
    <3> QED BY <2>3
  <2>5. After(s, ids) = SubSeq(s, k + 1, Len(s))
    BY DEF After
  <2> HIDE DEF k
  <2> QED BY <2>4, <2>5
<1> QED BY <1>1, <1>2

\* max: the newest of the events that may be selected is one of them.
LEMMA SelectFromChooses ==
    ASSUME queue.pending \in Seq(Events), NEW ids, ids \subseteq Pending
    PROVE  SelectFrom(ids) \subseteq ids
<1> SUFFICES ASSUME ids # {} PROVE Newest(ids) \in ids
  BY DEF SelectFrom
<1> DEFINE S == {i \in DOMAIN queue.pending : queue.pending[i] \in ids}
           T(i) == EventTime[queue.pending[i]]
           Best(i, j) == T(i) > T(j) \/ (T(i) = T(j) /\ i <= j)
           U(n) == S \intersect 1 .. n
           P(n) == U(n) # {} => \E i \in U(n) : \A j \in U(n) : Best(i, j)
           K == {n \in Nat : P(n)}
<1>0. \A i \in S : T(i) \in Nat
  BY WorkerAssumption
<1>1. /\ \A i \in S : i \in Nat
      /\ \A n \in Nat : \A j \in U(n + 1) : j \in U(n) \/ j = n + 1
      /\ \A n \in Nat : U(n) \subseteq U(n + 1) /\ (n + 1 \in S => n + 1 \in U(n + 1))
      /\ U(0) = {} /\ U(Len(queue.pending)) = S
  BY WorkerAssumption
<1> HIDE DEF S, T, U
<1>2. 0 \in K
  BY <1>1
<1>3. ASSUME NEW n \in Nat, n \in K PROVE n + 1 \in K
  <2> SUFFICES ASSUME U(n + 1) # {}
               PROVE  \E i \in U(n + 1) : \A j \in U(n + 1) : Best(i, j)
    OBVIOUS
  <2>0. U(n + 1) \subseteq S
    BY DEF U
  <2>1. CASE n + 1 \notin S
    <3>1. U(n + 1) \subseteq U(n) /\ U(n) \subseteq U(n + 1)
      BY <1>1, <2>0, <2>1
    <3> HIDE DEF Best
    <3> QED BY <3>1, <1>3
  <2>2. CASE n + 1 \in S /\ U(n) = {}
    <3>1. \A j \in U(n + 1) : j = n + 1
      BY <1>1, <2>2
    <3>2. Best(n + 1, n + 1)
      BY <1>0, <1>1, <2>2
    <3> HIDE DEF Best
    <3> QED BY <3>1, <3>2
  <2>3. CASE n + 1 \in S /\ U(n) # {}
    <3>1. PICK i \in U(n) : \A j \in U(n) : Best(i, j)
      BY <1>3, <2>3
    <3>2. i \in S /\ i \in U(n + 1) /\ n + 1 \in U(n + 1)
      BY <1>1, <2>0, <2>3
    <3>3. ASSUME NEW j \in U(n) PROVE Best(i, j) /\ j \in S /\ i < n + 1 /\ j < n + 1
      BY <3>1 DEF U
    <3>4. CASE T(n + 1) > T(i)
      <4>1. ASSUME NEW j \in U(n) PROVE Best(n + 1, j)
        <5>1. T(i) \in Nat /\ T(j) \in Nat /\ T(n + 1) \in Nat
          BY <1>0, <2>3, <3>2, <3>3
        <5>2. T(i) >= T(j)
          BY <3>3, <5>1
        <5> QED BY <5>1, <5>2, <3>4
      <4>2. Best(n + 1, n + 1)
        BY <1>0, <1>1, <2>3
      <4>3. \A j \in U(n + 1) : Best(n + 1, j)
        <5> HIDE DEF Best
        <5> QED BY <1>1, <4>1, <4>2
      <4> QED BY <4>3, <3>2
    <3>5. CASE ~(T(n + 1) > T(i))
      <4>1. \A j \in U(n) : Best(i, j)
        BY <3>3
      <4>2. Best(i, n + 1)
        BY <1>0, <1>1, <2>3, <3>1, <3>2, <3>3, <3>5
      <4>3. \A j \in U(n + 1) : Best(i, j)
        <5> HIDE DEF Best
        <5> QED BY <1>1, <4>1, <4>2
      <4> QED BY <4>3, <3>2
    <3> QED BY <3>4, <3>5
  <2> QED BY <2>1, <2>2, <2>3
<1>4. P(Len(queue.pending))
  <2>1. Nat \subseteq K
    <3> HIDE DEF K
    <3> QED BY <1>2, <1>3, SetInduction
  <2>2. Len(queue.pending) \in K
    <3> HIDE DEF K
    <3> QED BY <2>1
  <2> QED BY <2>2
<1>5. S # {}
  BY IdsOfSeq DEF Pending, S
<1>6. \E i \in S : \A j \in S : Best(i, j)
  <2> HIDE DEF Best
  <2> QED BY <1>1, <1>4, <1>5
<1> DEFINE k == CHOOSE i \in S : \A j \in S : Best(i, j)
<1>7. k \in S
  <2> HIDE DEF Best
  <2> QED BY <1>6
<1>8. Newest(ids) = queue.pending[k]
  BY DEF Newest, S, T
<1> QED BY <1>7, <1>8 DEF S

-----------------------------------------------------------------------------
(* Who waits for the Store *)

\* Every call is one commit of the queue.
LEMMA CallCommits ==
    ASSUME NEW t \in Tasks, Call(t)
    PROVE  \E q, changed : Commit(t, q, changed)
BY DEF Call, IngestEvents, CompleteEvent, DeferEvent, RearmEvent, ClearDeferred, Shutdown

\* A call adds at most its own task to the line, and no task twice.
LEMMA CallTasks ==
    ASSUME IInv, Distinct(savers), NEW t \in Tasks, Call(t)
    PROVE  Distinct(savers') /\ \A u : Saving(u)' => Saving(u) \/ u = t
<1>1. PICK q, changed : Commit(t, q, changed)
  BY CallCommits
<1>2. savers \in Seq(Tasks) /\ t \notin IdsOf(savers)
  BY DEF IInv, CoordTypeOK, Call, Saving
<1>3. savers' = savers \/ savers' = Append(savers, t)
  BY <1>1 DEF Commit, Save, storeVars
<1>4. /\ IdsOf(Append(savers, t)) = IdsOf(savers) \union {t}
      /\ Distinct(Append(savers, t))
  BY <1>2, AppendDistinct
<1> QED BY <1>3, <1>4 DEF Saving

\* A save that returns takes its task out of the line.
LEMMA ReturnTasks ==
    ASSUME IInv, Distinct(savers), NEW t \in Tasks, Return(t)
    PROVE  Distinct(savers') /\ \A u : Saving(u)' => Saving(u) /\ u # t
<1>1. savers \in Seq(Tasks) /\ savers # << >> /\ savers' = Tail(savers) /\ t = Head(savers)
  BY DEF IInv, CoordTypeOK, Return
<1> QED BY <1>1, TailDistinct DEF Saving

\* A deferral or a silent completion of an event that left the queue changes
\* nothing and does not wait.
LEMMA GoneChangesNothing ==
    ASSUME IInv, NEW t, NEW e, e \notin Pending,
           DeferEvent(t, e) \/ CompleteEvent(t, e, {})
    PROVE  UNCHANGED coordVars
<1>1. queue \in QueueType /\ QueueOK(queue)
  BY DEF IInv, CoordTypeOK, QueueConsistent
<1>2. CASE DeferEvent(t, e)
  BY <1>2 DEF DeferEvent, Commit, Defer, Pending, storeVars, coordVars
<1>3. CASE CompleteEvent(t, e, {})
  <2>1. Remove(queue, e) = queue
    BY <1>1, RemoveOK DEF Pending
  <2> QED BY <1>3, <2>1 DEF CompleteEvent, Commit, Pending, storeVars, coordVars
<1> QED BY <1>2, <1>3

-----------------------------------------------------------------------------
(* Every step of the worker's module keeps its types and is, for the       *)
(* coordinator, one of its steps or none                                   *)

\* The coordinator's steps as the pipeline takes them: only StartUp loads the queue.
PipelineNext ==
    \/ \E t \in Tasks : Call(t) \/ Return(t)
    \/ StoreBegin \/ StoreWrite \/ StartUp

StepOK == [PipelineNext]_coordVars /\ WorkerTypeOK' /\ TasksOK'

\* They are steps of the coordinator's specification.
LEMMA PipelineIsCoordinator == [PipelineNext]_coordVars => [CoordNext]_coordVars
<1> SUFFICES ASSUME PipelineNext PROVE CoordNext
  OBVIOUS
<1>1. StartUp => Restart
  BY DEF StartUp
<1> QED BY <1>1 DEF PipelineNext, CoordNext

\* A step that leaves the coordinator alone.
LEMMA QuietStep ==
    ASSUME WInv, UNCHANGED coordVars, stopped => stopped', at' = at \/ ~Saving(Worker)
    PROVE  [PipelineNext]_coordVars /\ TasksOK' /\ IInv'
<1>1. TasksOK'
  BY DEF WInv, TasksOK, coordVars, Saving
<1>2. IInv'
  BY NextInv DEF WInv
<1> QED BY <1>1, <1>2

\* A step in which task t calls the coordinator.
LEMMA CallStep ==
    ASSUME WInv, NEW t \in Tasks, Call(t), stopped \/ t = Unload => stopped',
           at' = at \/ ~Saving(Worker), t = Worker => at' \in SavingPlaces
    PROVE  [PipelineNext]_coordVars /\ TasksOK' /\ IInv'
<1>1. PipelineNext
  BY DEF PipelineNext
<1>2. IInv'
  BY NextInv DEF CoordNext, WInv
<1>3. Distinct(savers') /\ \A u : Saving(u)' => Saving(u) \/ u = t
  BY CallTasks DEF WInv, TasksOK
<1>4. TasksOK'
  BY <1>3 DEF WInv, TasksOK
<1> QED BY <1>1, <1>2, <1>4

\* A step in which a save returns to task t.
LEMMA ReturnStep ==
    ASSUME WInv, NEW t \in Tasks, Return(t), stopped => stopped', at' = at \/ t = Worker
    PROVE  [PipelineNext]_coordVars /\ TasksOK' /\ IInv'
<1>1. PipelineNext
  BY DEF PipelineNext
<1>2. IInv'
  BY NextInv DEF CoordNext, WInv
<1>3. Distinct(savers') /\ \A u : Saving(u)' => Saving(u) /\ u # t
  BY ReturnTasks DEF WInv, TasksOK
<1>4. TasksOK'
  BY <1>3 DEF WInv, TasksOK
<1> QED BY <1>1, <1>2, <1>4

\* What the types say of the queue.
LEMMA QueueTypes ==
    ASSUME IInv
    PROVE  /\ queue.pending \in Seq(Events) /\ Pending \subseteq Events
           /\ queue.deferred \subseteq Events
BY IdsOfSeq DEF IInv, CoordTypeOK, QueueType, Pending

\* The tasks that ingest events.
LEMMA IngestOK ==
    ASSUME WInv, NEW e \in Events,
           (\E wake \in BOOLEAN : Arrive(e, wake)) \/ IngestStep(e)
    PROVE  StepOK
<1> USE DEF envVars, setVars, workVars, buttonVars, histVars
<1>0. e \in Tasks /\ e # Worker /\ e # Unload
  BY WorkerAssumption
<1>1. ASSUME NEW wake \in BOOLEAN, Arrive(e, wake) PROVE StepOK
  <2>1. <<e>> \in Seq(Events)
    OBVIOUS
  <2>2. Call(e)
    BY <1>1, <2>1 DEF Arrive, Call
  <2>3. [PipelineNext]_coordVars /\ TasksOK'
    BY <1>0, <1>1, <2>2, CallStep DEF Arrive
  <2>4. WorkerTypeOK'
    BY <1>1 DEF Arrive, WInv, WorkerTypeOK
  <2> QED BY <2>3, <2>4 DEF StepOK
<1>2. ASSUME ArriveNotifies(e) PROVE StepOK
  <2>1. [PipelineNext]_coordVars /\ TasksOK'
    BY <1>0, <1>2, ReturnStep DEF ArriveNotifies
  <2>2. WorkerTypeOK'
    BY <1>2 DEF ArriveNotifies, Notify, WInv, WorkerTypeOK
  <2> QED BY <2>1, <2>2 DEF StepOK
<1>3. ASSUME ArriveDefers(e) PROVE StepOK
  <2>1. Call(e)
    BY <1>3 DEF ArriveDefers, Call
  <2>2. [PipelineNext]_coordVars /\ TasksOK'
    BY <1>0, <1>3, <2>1, CallStep DEF ArriveDefers
  <2>3. WorkerTypeOK'
    BY <1>3 DEF ArriveDefers, WInv, WorkerTypeOK
  <2> QED BY <2>2, <2>3 DEF StepOK
<1>4. ASSUME IngestReturns(e) PROVE StepOK
  <2>1. [PipelineNext]_coordVars /\ TasksOK'
    BY <1>0, <1>4, ReturnStep DEF IngestReturns
  <2>2. WorkerTypeOK'
    BY <1>4 DEF IngestReturns, WInv, WorkerTypeOK
  <2> QED BY <2>1, <2>2 DEF StepOK
<1> QED BY <1>1, <1>2, <1>3, <1>4 DEF IngestStep

\* Startup recovery.
LEMMA BootOK ==
    ASSUME WInv, Boot \/ BootStale \/ BootSkip \/ BootDone \/ BootReturns
    PROVE  StepOK
<1> USE DEF envVars, setVars, workVars, buttonVars, histVars
<1>0. /\ queue.pending \in Seq(Events) /\ Pending \subseteq Events
      /\ queue.deferred \subseteq Events /\ Worker \in Tasks /\ Worker # Unload
  BY QueueTypes, WorkerAssumption DEF WInv
<1>1. ASSUME Boot PROVE StepOK
  <2>1. Without(queue.pending, {e \in Events : e \notin Android \/ Fresh(e)}) \in Seq(Events)
    BY <1>0, WithoutProperties
  <2>2. [PipelineNext]_coordVars /\ TasksOK'
    BY <1>1, QuietStep DEF Boot, WInv, TasksOK, SavingPlaces
  <2>3. WorkerTypeOK'
    BY <1>1, <2>1 DEF Boot, WInv, WorkerTypeOK
  <2> QED BY <2>2, <2>3 DEF StepOK
<1>2. ASSUME BootStale PROVE StepOK
  <2> DEFINE left == IdsOf(todo) \ queue.deferred
             eligible == {e \in (Android \intersect Pending) \ queue.deferred : FreshAt(e, asOf)}
  <2>1. CASE left # {}
    <3>1. todo \in Seq(Events) /\ IdsOf(todo) \intersect left # {} /\ IdsOf(todo) \subseteq Events
      BY <2>1, IdsOfSeq DEF WInv, WorkerTypeOK
    <3>2. First(todo, left) \in Events /\ After(todo, left) \in Seq(Events)
      <4> HIDE DEF left
      <4> QED BY <3>1, FirstAfter
    <3>3. /\ DeferEvent(Worker, First(todo, left)) /\ ~Saving(Worker)
          /\ todo' = After(todo, left) /\ at' = "bootStale" /\ at = "bootStale" /\ cur' = cur
      BY <1>2, <2>1 DEF BootStale
    <3>4. Call(Worker)
      BY <3>2, <3>3 DEF Call
    <3>5. [PipelineNext]_coordVars /\ TasksOK'
      BY <1>0, <1>2, <3>3, <3>4, CallStep DEF BootStale, SavingPlaces
    <3> HIDE DEF left
    <3>6. WorkerTypeOK'
      BY <1>2, <3>2, <3>3 DEF BootStale, WInv, WorkerTypeOK
    <3> QED BY <3>5, <3>6 DEF StepOK
  <2>2. CASE left = {}
    <3>1. /\ cur' = SelectFrom(eligible) /\ UNCHANGED coordVars /\ at' = "bootSkip"
          /\ todo' = Without(queue.pending, (Events \ eligible) \union cur') /\ ~Saving(Worker)
      BY <1>2, <2>2 DEF BootStale
    <3>2. eligible \subseteq Pending
      OBVIOUS
    <3>3. cur' \subseteq Events
      <4> HIDE DEF eligible
      <4> QED BY <1>0, <3>1, <3>2, SelectFromChooses
    <3>4. todo' \in Seq(Events)
      BY <1>0, <3>1, WithoutProperties
    <3>5. [PipelineNext]_coordVars /\ TasksOK'
      BY <1>2, <3>1, QuietStep DEF BootStale
    <3>6. WorkerTypeOK'
      BY <1>2, <3>1, <3>3, <3>4 DEF BootStale, WInv, WorkerTypeOK
    <3> QED BY <3>5, <3>6 DEF StepOK
  <2> QED BY <2>1, <2>2
<1>3. ASSUME BootSkip PROVE StepOK
  <2>1. todo \in Seq(Events) /\ todo # << >> /\ Head(todo) \in Events /\ Tail(todo) \in Seq(Events)
    BY <1>3 DEF BootSkip, WInv, WorkerTypeOK
  <2>2. Call(Worker)
    BY <1>3, <2>1 DEF BootSkip, Call
  <2>3. [PipelineNext]_coordVars /\ TasksOK'
    BY <1>0, <1>3, <2>2, CallStep DEF BootSkip, SavingPlaces
  <2>4. WorkerTypeOK'
    BY <1>3, <2>1 DEF BootSkip, WInv, WorkerTypeOK
  <2> QED BY <2>3, <2>4 DEF StepOK
<1>4. ASSUME BootDone PROVE StepOK
  <2>1. [PipelineNext]_coordVars /\ TasksOK'
    BY <1>4, QuietStep DEF BootDone
  <2>2. WorkerTypeOK'
    BY <1>4 DEF BootDone, Notify, WInv, WorkerTypeOK
  <2> QED BY <2>1, <2>2 DEF StepOK
<1>5. ASSUME BootReturns PROVE StepOK
  <2>1. [PipelineNext]_coordVars /\ TasksOK'
    BY <1>0, <1>5, ReturnStep DEF BootReturns
  <2>2. WorkerTypeOK'
    BY <1>5 DEF BootReturns, WInv, WorkerTypeOK
  <2> QED BY <2>1, <2>2 DEF StepOK
<1> QED BY <1>1, <1>2, <1>3, <1>4, <1>5

\* The list a sweep starts on is the queue's, and the worker does not wait.
LEMMA SweepTypes ==
    ASSUME WInv, IInv', StartSweep
    PROVE  /\ todo' \in Seq(Events) /\ asOf' \in Nat /\ cur' = {} /\ attempt' = 0
           /\ at' = "sweep"
<1>1. queue'.pending \in Seq(Events)
  BY DEF IInv, CoordTypeOK, QueueType
<1> QED BY <1>1 DEF StartSweep, WInv, WorkerTypeOK

\* The main loop up to the camera session.
LEMMA SelectOK ==
    ASSUME WInv, WakeUp \/ Sweep \/ SweepSaved \/ PickNext \/ Settle
    PROVE  StepOK
<1> USE DEF envVars, setVars, workVars, buttonVars, histVars
<1>0. /\ queue.pending \in Seq(Events) /\ Pending \subseteq Events
      /\ queue.deferred \subseteq Events /\ Worker \in Tasks /\ Worker # Unload
  BY QueueTypes, WorkerAssumption DEF WInv
<1>1. ASSUME WakeUp PROVE StepOK
  <2>1. [PipelineNext]_coordVars /\ TasksOK' /\ IInv'
    BY <1>1, QuietStep DEF WakeUp, WInv, TasksOK, SavingPlaces
  <2>2. /\ todo' \in Seq(Events) /\ asOf' \in Nat /\ cur' \subseteq Events /\ attempt' \in Nat
        /\ at' \in {"done", "sweep"}
    BY <1>1, <2>1, SweepTypes DEF WakeUp, WInv, WorkerTypeOK
  <2>3. WorkerTypeOK'
    BY <1>1, <2>2 DEF WakeUp, WInv, WorkerTypeOK
  <2> QED BY <2>1, <2>3 DEF StepOK
<1>2. ASSUME Sweep PROVE StepOK
  <2> DEFINE e == First(todo, Overdue)
  <2>1. todo \in Seq(Events) /\ IdsOf(todo) \intersect Overdue # {} /\ IdsOf(todo) \subseteq Events
    BY <1>2, IdsOfSeq DEF Sweep, Overdue, WInv, WorkerTypeOK
  <2>2. e \in Events /\ After(todo, Overdue) \in Seq(Events)
    BY <2>1, FirstAfter
  <2>3. ~Saving(Worker) /\ DeferEvent(Worker, e)
    BY <1>2 DEF Sweep, Defers, WInv, TasksOK, SavingPlaces
  <2>4. [PipelineNext]_coordVars /\ TasksOK'
    <3>1. CASE e \in Pending
      <4>1. at' = "sweepSave" /\ stopped' = stopped
        BY <1>2, <3>1 DEF Sweep, Defers
      <4>2. Call(Worker)
        BY <2>2, <2>3 DEF Call
      <4> QED BY <1>0, <2>3, <4>1, <4>2, CallStep DEF SavingPlaces
    <3>2. CASE e \notin Pending
      <4>1. UNCHANGED coordVars
        BY <2>3, <3>2, GoneChangesNothing DEF WInv
      <4> QED BY <1>2, <2>3, <4>1, QuietStep DEF Sweep
    <3> QED BY <3>1, <3>2
  <2>5. WorkerTypeOK'
    <3> HIDE DEF e
    <3>1. /\ at' \in {"sweep", "sweepSave"} /\ cur' \in {{e}, {}} /\ trigger' = trigger
          /\ activated' \subseteq activated /\ manual' \subseteq manual /\ credit' \subseteq credit
          /\ todo' = After(todo, Overdue)
      BY <1>2 DEF Sweep, Defers, Forget, e
    <3> QED BY <1>2, <2>2, <3>1 DEF Sweep, WInv, WorkerTypeOK
  <2> QED BY <2>4, <2>5 DEF StepOK
<1>3. ASSUME SweepSaved PROVE StepOK
  <2>1. [PipelineNext]_coordVars /\ TasksOK'
    BY <1>0, <1>3, ReturnStep DEF SweepSaved
  <2>2. WorkerTypeOK'
    BY <1>3 DEF SweepSaved, Forget, WInv, WorkerTypeOK
  <2> QED BY <2>1, <2>2 DEF StepOK
<1>4. ASSUME PickNext PROVE StepOK
  <2>1. [PipelineNext]_coordVars /\ TasksOK'
    BY <1>4, QuietStep DEF PickNext, WInv, TasksOK, SavingPlaces
  <2>2. Candidates \subseteq Pending
    BY DEF Candidates
  <2>3. cur' \subseteq Events
    BY <1>0, <1>4, <2>2, SelectFromChooses DEF PickNext
  <2>4. WorkerTypeOK'
    BY <1>4, <2>3 DEF PickNext, WInv, WorkerTypeOK
  <2> QED BY <2>1, <2>4 DEF StepOK
<1>5. ASSUME Settle PROVE StepOK
  <2>1. [PipelineNext]_coordVars /\ TasksOK'
    BY <1>5, QuietStep DEF Settle, WInv, TasksOK, SavingPlaces
  <2>2. WorkerTypeOK'
    BY <1>5 DEF Settle, WInv, WorkerTypeOK
  <2> QED BY <2>1, <2>2 DEF StepOK
<1> QED BY <1>1, <1>2, <1>3, <1>4, <1>5

\* The camera session that fails, and the wait for the next attempt.
LEMMA FailOK ==
    ASSUME WInv, (\E match \in BOOLEAN : SessionFails(match))
                 \/ DeferSaved \/ RetryElapses \/ RetryWoken
    PROVE  StepOK
<1> USE DEF envVars, setVars, workVars, buttonVars, histVars
<1>0. Worker \in Tasks /\ Worker # Unload /\ MaxAttempts \in Nat
  BY WorkerAssumption
<1>1. ASSUME NEW match \in BOOLEAN, SessionFails(match)
      PROVE  StepOK
  <2>1. PICK e \in cur :
          \/ /\ DeferEvent(Worker, e)
             /\ IF e \in Pending
                THEN /\ at' = "deferSave" /\ attempt' = 0
                     /\ UNCHANGED <<activated, manual, credit, todo, asOf, cur>>
                ELSE Forget({e}) /\ StartSweep
          \/ /\ UNCHANGED <<coordVars, activated, manual, credit>>
             /\ IF stopped THEN at' = "done" /\ UNCHANGED <<todo, asOf, cur, attempt>>
                ELSE IF NewerWaits THEN StartSweep
                ELSE at' = "retryWait" /\ attempt' = attempt + 1 /\ UNCHANGED <<todo, asOf, cur>>
    BY <1>1, Zenon DEF SessionFails
  <2>2. ~Saving(Worker) /\ e \in Events /\ stopped' = stopped /\ at \in {"session", "ending"}
    BY <1>1 DEF SessionFails, WInv, TasksOK, SavingPlaces, WorkerTypeOK
  <2>3. /\ now' = now /\ published' = published /\ restarts' = restarts /\ presses' = presses
        /\ trigger' = trigger /\ got' = {} /\ ingest' = ingest
        /\ UNCHANGED <<recovering, recoverTodo, recoverIds, cleared>>
        /\ UNCHANGED <<backlog, woken, asked, freshOnce>>
        /\ files' = files
    BY <1>1 DEF SessionFails, WInv, WorkerTypeOK
  <2>4. CASE DeferEvent(Worker, e) /\ e \in Pending /\ at' = "deferSave" /\ attempt' = 0
             /\ UNCHANGED <<activated, manual, credit, todo, asOf, cur>>
    <3>1. Call(Worker)
      BY <2>2, <2>4 DEF Call
    <3>2. [PipelineNext]_coordVars /\ TasksOK'
      BY <1>0, <2>2, <2>4, <3>1, CallStep DEF SavingPlaces
    <3>3. WorkerTypeOK'
      BY <2>2, <2>3, <2>4 DEF WInv, WorkerTypeOK
    <3> QED BY <3>2, <3>3 DEF StepOK
  <2>5. CASE DeferEvent(Worker, e) /\ e \notin Pending /\ Forget({e}) /\ StartSweep
    <3>1. UNCHANGED coordVars
      BY <2>5, GoneChangesNothing DEF WInv
    <3>2. [PipelineNext]_coordVars /\ TasksOK' /\ IInv'
      BY <2>2, <3>1, QuietStep
    <3>3. WorkerTypeOK'
      BY <2>2, <2>3, <2>5, <3>2, SweepTypes DEF WInv, WorkerTypeOK, Forget
    <3> QED BY <3>2, <3>3 DEF StepOK
  <2>6. CASE /\ UNCHANGED <<coordVars, activated, manual, credit>>
             /\ IF stopped THEN at' = "done" /\ UNCHANGED <<todo, asOf, cur, attempt>>
                ELSE IF NewerWaits THEN StartSweep
                ELSE at' = "retryWait" /\ attempt' = attempt + 1 /\ UNCHANGED <<todo, asOf, cur>>
    <3>1. [PipelineNext]_coordVars /\ TasksOK' /\ IInv'
      BY <2>2, <2>6, QuietStep
    <3>2. WorkerTypeOK'
      BY <2>2, <2>3, <2>6, <3>1, SweepTypes DEF WInv, WorkerTypeOK
    <3> QED BY <3>1, <3>2 DEF StepOK
  <2> QED BY <2>1, <2>4, <2>5, <2>6
<1>2. ASSUME DeferSaved PROVE StepOK
  <2>1. [PipelineNext]_coordVars /\ TasksOK' /\ IInv'
    BY <1>0, <1>2, ReturnStep DEF DeferSaved
  <2>2. WorkerTypeOK'
    BY <1>2, <2>1, SweepTypes DEF DeferSaved, Forget, WInv, WorkerTypeOK
  <2> QED BY <2>1, <2>2 DEF StepOK
<1>3. ASSUME RetryElapses PROVE StepOK
  <2>1. [PipelineNext]_coordVars /\ TasksOK'
    BY <1>3, QuietStep DEF RetryElapses, WInv, TasksOK, SavingPlaces
  <2>2. WorkerTypeOK'
    BY <1>3 DEF RetryElapses, WInv, WorkerTypeOK
  <2> QED BY <2>1, <2>2 DEF StepOK
<1>4. ASSUME RetryWoken PROVE StepOK
  <2>1. [PipelineNext]_coordVars /\ TasksOK' /\ IInv'
    BY <1>4, QuietStep DEF RetryWoken, WInv, TasksOK, SavingPlaces
  <2>2. /\ todo' \in Seq(Events) /\ asOf' \in Nat /\ cur' \subseteq Events /\ attempt' \in Nat
        /\ at' \in {"done", "sweep", "retryWait"} /\ trigger' \in BOOLEAN
    <3>1. \/ at' = "done" /\ UNCHANGED <<trigger, todo, asOf, cur, attempt>>
          \/ trigger' = FALSE /\ StartSweep
          \/ trigger' = FALSE /\ UNCHANGED <<at, todo, asOf, cur, attempt>>
      BY <1>4 DEF RetryWoken
    <3>2. CASE StartSweep /\ trigger' = FALSE
      <4>1. /\ todo' \in Seq(Events) /\ asOf' \in Nat /\ cur' = {} /\ attempt' = 0
            /\ at' = "sweep"
        BY <2>1, <3>2, SweepTypes
      <4> QED BY <3>2, <4>1
    <3>3. CASE at' = "done" /\ UNCHANGED <<trigger, todo, asOf, cur, attempt>>
      BY <3>3 DEF WInv, WorkerTypeOK
    <3>4. CASE trigger' = FALSE /\ UNCHANGED <<at, todo, asOf, cur, attempt>>
      BY <1>4, <3>4 DEF RetryWoken, WInv, WorkerTypeOK
    <3> QED BY <3>1, <3>2, <3>3, <3>4
  <2>3. WorkerTypeOK'
    BY <1>4, <2>2 DEF RetryWoken, WInv, WorkerTypeOK
  <2> QED BY <2>1, <2>3 DEF StepOK
<1> QED BY <1>1, <1>2, <1>3, <1>4

\* The camera session that finds the recording, and the ready event.
LEMMA SaveOK ==
    ASSUME WInv,
           \/ Publish
           \/ \E r \in Recordings : SessionFindsDuplicate(r) \/ SessionFinalizes(r) \/ SessionSaves(r)
    PROVE  StepOK
<1> USE DEF envVars, setVars, workVars, buttonVars, histVars
<1>0. Worker \in Tasks /\ Worker # Unload
  BY WorkerAssumption
<1>1. ASSUME NEW r \in Recordings, SessionFindsDuplicate(r) PROVE StepOK
  <2>1. PICK e \in cur :
          /\ CompleteEvent(Worker, e, {})
          /\ IF e \in Pending
             THEN /\ at' = "completeSave" /\ attempt' = 0
                  /\ UNCHANGED <<activated, manual, credit, todo, asOf, cur>>
             ELSE Forget({e}) /\ StartSweep
    BY <1>1 DEF SessionFindsDuplicate
  <2>2. /\ ~Saving(Worker) /\ e \in Events
        /\ UNCHANGED <<envVars, trigger, stopped, got, ingest, buttonVars, histVars>>
    BY <1>1 DEF SessionFindsDuplicate, WInv, TasksOK, SavingPlaces, WorkerTypeOK
  <2>3. CASE e \in Pending
    <3>1. Call(Worker)
      BY <2>1, <2>2 DEF Call
    <3>2. [PipelineNext]_coordVars /\ TasksOK'
      BY <1>0, <2>1, <2>2, <2>3, <3>1, CallStep DEF SavingPlaces
    <3>3. WorkerTypeOK'
      BY <2>1, <2>2, <2>3 DEF WInv, WorkerTypeOK
    <3> QED BY <3>2, <3>3 DEF StepOK
  <2>4. CASE e \notin Pending
    <3>1. UNCHANGED coordVars
      BY <2>1, <2>4, GoneChangesNothing DEF WInv
    <3>2. [PipelineNext]_coordVars /\ TasksOK' /\ IInv'
      BY <2>2, <3>1, QuietStep
    <3>3. WorkerTypeOK'
      BY <2>1, <2>2, <2>4, <3>2, SweepTypes DEF WInv, WorkerTypeOK, Forget
    <3> QED BY <3>2, <3>3 DEF StepOK
  <2> QED BY <2>3, <2>4
<1>2. ASSUME NEW r \in Recordings, SessionSaves(r) PROVE StepOK
  <2>1. PICK e \in cur : CompleteEvent(Worker, e, {r})
    BY <1>2 DEF SessionSaves
  <2>2. ~Saving(Worker) /\ e \in Events /\ r \in Recordings
    BY <1>2 DEF SessionSaves, WInv, TasksOK, SavingPlaces, WorkerTypeOK
  <2>3. Call(Worker)
    BY <2>1, <2>2 DEF Call
  <2>4. [PipelineNext]_coordVars /\ TasksOK'
    BY <1>0, <1>2, <2>2, <2>3, CallStep DEF SessionSaves, SavingPlaces
  <2>5. WorkerTypeOK'
    BY <1>2 DEF SessionSaves, WInv, WorkerTypeOK
  <2> QED BY <2>4, <2>5 DEF StepOK
<1>3. ASSUME Publish PROVE StepOK
  <2>1. [PipelineNext]_coordVars /\ TasksOK' /\ IInv'
    BY <1>0, <1>3, ReturnStep, QuietStep DEF Publish
  <2>2. published' \in [Recordings -> Nat]
    BY <1>3 DEF Publish, WInv, WorkerTypeOK
  <2>3. WorkerTypeOK'
    BY <1>3, <2>1, <2>2, SweepTypes DEF Publish, Forget, WInv, WorkerTypeOK
  <2> QED BY <2>1, <2>3 DEF StepOK
<1>4. ASSUME NEW r \in Recordings, SessionFinalizes(r) PROVE StepOK
  <2>1. [PipelineNext]_coordVars /\ TasksOK'
    BY <1>4, QuietStep DEF SessionFinalizes, WInv, TasksOK, SavingPlaces
  <2>2. WorkerTypeOK'
    BY <1>4 DEF SessionFinalizes, WInv, WorkerTypeOK
  <2> QED BY <2>1, <2>2 DEF StepOK
<1> QED BY <1>1, <1>2, <1>3, <1>4

\* The buttons.
LEMMA ButtonsOK ==
    ASSUME WInv, PressRecover \/ PressClear \/ ButtonStep
    PROVE  StepOK
<1> USE DEF envVars, setVars, workVars, buttonVars, histVars
<1>0. /\ queue.pending \in Seq(Events) /\ Pending \subseteq Events
      /\ queue.deferred \subseteq Events /\ Android \in SUBSET Events
      /\ Recover \in Tasks /\ Clear \in Tasks
      /\ Worker \notin {Recover, Clear} /\ Unload \notin {Recover, Clear}
  BY QueueTypes, WorkerAssumption DEF WInv
<1>1. ASSUME NEW list \in Seq(Events), NEW ids \in SUBSET Events, Rearms(list, ids),
             ~Saving(Recover), UNCHANGED <<stopped, at>>
      PROVE  /\ [PipelineNext]_coordVars /\ TasksOK'
             /\ manual' \subseteq Events /\ activated' \subseteq Events
             /\ credit' \subseteq Events /\ trigger' \in BOOLEAN /\ recovering' \in BOOLEAN
             /\ recoverTodo' \in Seq(Events) /\ recoverIds' \subseteq Events
  <2> DEFINE left == IdsOf(list) \intersect queue.deferred
  <2>1. CASE left # {}
    <3>1. IdsOf(list) \intersect left # {}
      BY <2>1
    <3>2. First(list, left) \in Events /\ After(list, left) \in Seq(Events)
      <4>1. IdsOf(list) \subseteq Events
        BY <1>1, IdsOfSeq
      <4> HIDE DEF left
      <4> QED BY <1>1, <3>1, <4>1, FirstAfter
    <3>3. /\ RearmEvent(Recover, First(list, left))
          /\ recovering' = TRUE /\ recoverTodo' = After(list, left) /\ recoverIds' = ids
          /\ UNCHANGED setVars
      BY <1>1, <2>1 DEF Rearms
    <3>4. Call(Recover)
      BY <1>1, <3>2, <3>3 DEF Call
    <3>5. [PipelineNext]_coordVars /\ TasksOK'
      BY <1>0, <1>1, <3>4, CallStep
    <3> HIDE DEF left
    <3> QED BY <1>1, <3>2, <3>3, <3>5 DEF WInv, WorkerTypeOK
  <2>2. CASE left = {}
    <3>1. UNCHANGED coordVars /\ MakesManual(ids)
      BY <1>1, <2>2 DEF Rearms
    <3>2. [PipelineNext]_coordVars /\ TasksOK'
      BY <1>1, <3>1, QuietStep
    <3>3. << >> \in Seq(Events)
      OBVIOUS
    <3> QED BY <1>1, <3>1, <3>2, <3>3 DEF MakesManual, WInv, WorkerTypeOK
  <2> QED BY <2>1, <2>2
<1>2. ASSUME PressRecover \/ RecoverStep PROVE StepOK
  <2>1. Without(queue.pending, Events \ Android) \in Seq(Events)
    BY <1>0, WithoutProperties
  <2>2. \E list \in Seq(Events), ids \in SUBSET Events : Rearms(list, ids)
    BY <1>0, <1>2, <2>1 DEF PressRecover, RecoverStep, WInv, WorkerTypeOK
  <2>3. ~Saving(Recover) /\ UNCHANGED <<stopped, at>>
    BY <1>2 DEF PressRecover, RecoverStep
  <2>4. /\ [PipelineNext]_coordVars /\ TasksOK'
        /\ manual' \subseteq Events /\ activated' \subseteq Events
        /\ credit' \subseteq Events /\ trigger' \in BOOLEAN /\ recovering' \in BOOLEAN
        /\ recoverTodo' \in Seq(Events) /\ recoverIds' \subseteq Events
    BY <1>1, <2>2, <2>3
  <2>5. WorkerTypeOK'
    BY <1>0, <1>2, <2>4 DEF PressRecover, RecoverStep, WInv, WorkerTypeOK
  <2> QED BY <2>4, <2>5 DEF StepOK
<1>3. ASSUME RecoverReturns PROVE StepOK
  <2>1. [PipelineNext]_coordVars /\ TasksOK'
    BY <1>0, <1>3, ReturnStep DEF RecoverReturns
  <2>2. << >> \in Seq(Events)
    OBVIOUS
  <2>3. WorkerTypeOK'
    BY <1>3, <2>2 DEF RecoverReturns, MakesManual, WInv, WorkerTypeOK
  <2> QED BY <2>1, <2>3 DEF StepOK
<1>4. ASSUME PressClear PROVE StepOK
  <2>1. Call(Clear)
    BY <1>0, <1>4 DEF PressClear, Call
  <2>2. [PipelineNext]_coordVars /\ TasksOK'
    BY <1>0, <1>4, <2>1, CallStep DEF PressClear
  <2>3. WorkerTypeOK'
    BY <1>0, <1>4 DEF PressClear, WInv, WorkerTypeOK
  <2> QED BY <2>2, <2>3 DEF StepOK
<1>5. ASSUME ClearSaved PROVE StepOK
  <2>1. [PipelineNext]_coordVars /\ TasksOK'
    BY <1>0, <1>5, ReturnStep DEF ClearSaved
  <2>2. WorkerTypeOK'
    BY <1>5 DEF ClearSaved, Forget, WInv, WorkerTypeOK
  <2> QED BY <2>1, <2>2 DEF StepOK
<1> QED BY <1>1, <1>2, <1>3, <1>4, <1>5 DEF ButtonStep

\* Time, unloading, restarts and the Store.
LEMMA SystemOK ==
    ASSUME WInv,
           Tick \/ (\E r \in Recordings : FileRemoved(r)) \/ UnloadEntry \/ UnloadReturns \/ StartUp \/ Store
    PROVE  StepOK
<1> USE DEF envVars, setVars, workVars, buttonVars, histVars
<1>0. Unload \in Tasks /\ Unload # Worker
  BY WorkerAssumption
<1>1. ASSUME Tick PROVE StepOK
  <2>1. [PipelineNext]_coordVars /\ TasksOK'
    BY <1>1, QuietStep DEF Tick
  <2>2. WorkerTypeOK'
    BY <1>1 DEF Tick, WInv, WorkerTypeOK
  <2> QED BY <2>1, <2>2 DEF StepOK
<1>2. ASSUME UnloadEntry PROVE StepOK
  <2>1. Call(Unload)
    BY <1>2 DEF UnloadEntry, Call, WInv, TasksOK
  <2>2. [PipelineNext]_coordVars /\ TasksOK'
    BY <1>0, <1>2, <2>1, CallStep DEF UnloadEntry
  <2>3. WorkerTypeOK'
    BY <1>2 DEF UnloadEntry, WInv, WorkerTypeOK
  <2> QED BY <2>2, <2>3 DEF StepOK
<1>3. ASSUME UnloadReturns PROVE StepOK
  <2>1. [PipelineNext]_coordVars /\ TasksOK'
    BY <1>0, <1>3, ReturnStep DEF UnloadReturns
  <2>2. WorkerTypeOK'
    BY <1>3 DEF UnloadReturns, WInv, WorkerTypeOK
  <2> QED BY <2>1, <2>2 DEF StepOK
<1>4. ASSUME StartUp PROVE StepOK
  <2>1. PipelineNext
    BY <1>4 DEF PipelineNext
  <2>2. IInv'
    BY <1>4, NextInv DEF StartUp, CoordNext, WInv
  <2>3. TasksOK'
    BY <1>4 DEF StartUp, Restart, TasksOK, Saving, IdsOf, Distinct
  <2>4. << >> \in Seq(Events) /\ IdsOf(queue'.pending) \subseteq Events
    BY <2>2, IdsOfSeq DEF IInv, CoordTypeOK, QueueType
  <2>5. ingest' \in [Events -> {"none", "notify", "defer"}]
    BY <1>4 DEF StartUp
  <2>6. restarts' \in Nat /\ backlog' \subseteq Events
    BY <1>4, <2>4 DEF StartUp, WInv, WorkerTypeOK
  <2>7. WorkerTypeOK'
    BY <1>4, <2>4, <2>5, <2>6 DEF StartUp, WInv, WorkerTypeOK
  <2> QED BY <2>1, <2>3, <2>7 DEF StepOK
<1>5. ASSUME NEW r \in Recordings, FileRemoved(r) PROVE StepOK
  <2>1. [PipelineNext]_coordVars /\ TasksOK'
    BY <1>5, QuietStep DEF FileRemoved
  <2>2. WorkerTypeOK'
    BY <1>5 DEF FileRemoved, WInv, WorkerTypeOK
  <2> QED BY <2>1, <2>2 DEF StepOK
<1>6. ASSUME Store PROVE StepOK
  <2>1. PipelineNext /\ savers' = savers
    BY <1>6 DEF Store, PipelineNext, StoreBegin, StoreWrite
  <2>2. TasksOK'
    BY <1>6, <2>1 DEF Store, TasksOK, Saving, WInv
  <2>3. WorkerTypeOK'
    BY <1>6 DEF Store, WInv, WorkerTypeOK
  <2> QED BY <2>1, <2>2, <2>3 DEF StepOK
<1> QED BY <1>1, <1>2, <1>3, <1>4, <1>5, <1>6

-----------------------------------------------------------------------------
\* The initial states are the coordinator's and satisfy the invariant.
LEMMA InitOK == Init => CoordInit /\ WInv
<1> SUFFICES ASSUME Init PROVE CoordInit /\ WInv
  OBVIOUS
<1>1. IInv
  BY InitInv DEF Init
<1>2. << >> \in Seq(Events) /\ \A e : e \notin IdsOf(<< >>)
  BY DEF IdsOf
<1>3. TasksOK
  BY <1>2 DEF Init, CoordInit, TasksOK, Saving, Distinct
<1>4. WorkerTypeOK
  BY <1>2 DEF Init, WorkerTypeOK
<1> QED BY <1>1, <1>3, <1>4 DEF Init, WInv

\* Every step keeps the invariant and is, for the coordinator, one of its own.
LEMMA StepWInv ==
    ASSUME WInv, [Next]_vars
    PROVE  StepOK /\ [CoordNext]_coordVars /\ WInv'
<1>1. StepOK
  <2>1. CASE Environment
    BY <2>1, IngestOK, ButtonsOK, SystemOK DEF Environment
  <2>2. CASE WorkerStep
    <3>1. CASE SessionEnds
      <4>1. ASSUME NEW match \in BOOLEAN, SessionFails(match) PROVE StepOK
        BY <4>1, FailOK
      <4> QED BY <3>1, <4>1, SaveOK DEF SessionEnds
    <3> QED BY <2>2, <3>1, BootOK, SelectOK, FailOK, SaveOK DEF WorkerStep
  <2>3. CASE ButtonStep \/ UnloadReturns \/ Store
    BY <2>3, ButtonsOK, SystemOK
  <2>4. ASSUME NEW e \in Events, IngestStep(e) PROVE StepOK
    BY <2>4, IngestOK
  <2>5. CASE UNCHANGED vars
    <3>1. [PipelineNext]_coordVars /\ TasksOK'
      BY <2>5, QuietStep DEF vars, workVars
    <3>2. WorkerTypeOK'
      BY <2>5 DEF vars, envVars, setVars, workVars, buttonVars, histVars, WInv, WorkerTypeOK
    <3> QED BY <3>1, <3>2 DEF StepOK
  <2> QED BY <2>1, <2>2, <2>3, <2>4, <2>5 DEF Next
<1>2. [CoordNext]_coordVars
  BY <1>1, PipelineIsCoordinator DEF StepOK
<1>3. IInv'
  BY <1>2, NextInv DEF WInv
<1> QED BY <1>1, <1>2, <1>3 DEF StepOK, WInv

\* In every reachable state the types are right and a task waits for one save
\* at a time.
THEOREM WorkerInductive == Spec => []WInv
<1>1. Init => WInv
  BY InitOK
<1>2. WInv /\ [Next]_vars => WInv'
  BY StepWInv
<1> QED BY <1>1, <1>2, PTL DEF Spec

\* The worker, the ingesting tasks and the buttons use the coordinator only as
\* its specification allows: what is proved of the coordinator (nothing is
\* left unsaved, a restart loses nothing) holds of the whole pipeline.
THEOREM WorkerUsesCoordinator == Spec => CoordSpec
<1>1. Init => CoordInit
  BY InitOK
<1>2. WInv /\ [Next]_vars => [CoordNext]_coordVars
  BY StepWInv
<1> QED BY <1>1, <1>2, WorkerInductive, PTL DEF Spec, CoordSpec

\* Every variable of the pipeline keeps its type.
THEOREM WorkerTypeCorrect == Spec => []TypeOK
<1>1. WInv => TypeOK
  BY DEF WInv, IInv, TypeOK
<1> QED BY <1>1, WorkerInductive, PTL

=============================================================================
