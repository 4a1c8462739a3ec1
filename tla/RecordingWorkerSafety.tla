----------------------- MODULE RecordingWorkerSafety -----------------------
(***************************************************************************)
(* What the recording worker never does: wake the camera for stale backlog *)
(* nobody asked for, announce a recording that a restart would forget or   *)
(* one that was announced, drop an event, defer one before its credit is   *)
(* used, or sleep while there is work.                                     *)
(***************************************************************************)
EXTENDS RecordingWorkerProofs

-----------------------------------------------------------------------------
(* Stale events do not wake the camera *)

\* The permissions the worker keeps are earned: manual work was asked for, a
\* credit was granted to a fresh event, and an event that was activated without
\* being either was stale already when it was activated, hence for ever, so
\* that the selection, which wants it fresh, does not choose it.
WakesOK ==
    /\ manual \subseteq asked /\ recoverIds \subseteq asked
    /\ credit \subseteq freshOnce
    /\ \A e \in activated : e \in asked \union freshOnce \/ ~Fresh(e)
    /\ at = "settle" => cur \subseteq asked \union freshOnce
    /\ StaleNeverWakes

\* A step that grants nothing and chooses nothing.
LEMMA GrantsNothing ==
    ASSUME WakesOK, UNCHANGED <<now, asked, freshOnce, woken, recoverIds>>,
           activated' \subseteq activated, manual' \subseteq manual, credit' \subseteq credit,
           at' = "settle" => at = "settle" /\ cur' = cur
    PROVE  WakesOK'
BY DEF WakesOK, StaleNeverWakes, Fresh, FreshAt

\* Every step keeps the permissions earned and the choice within them.
LEMMA WakesStep ==
    ASSUME WInv, WakesOK, [Next]_vars
    PROVE  WakesOK'
<1> USE DEF envVars, setVars, workVars, buttonVars, histVars
<1>1. CASE Environment
  <2>1. ASSUME NEW e \in Events, NEW wake \in BOOLEAN, Arrive(e, wake) PROVE WakesOK'
    BY <2>1, GrantsNothing DEF Arrive
  <2>2. CASE PressRecover
    BY <2>2 DEF PressRecover, Rearms, MakesManual, WakesOK, StaleNeverWakes, Fresh, FreshAt
  <2>3. CASE PressClear
    BY <2>3, GrantsNothing DEF PressClear
  <2>4. CASE Tick
    <3>1. now \in Nat /\ now' = now + 1 /\ activated \subseteq Events
      BY <2>4 DEF Tick, WInv, WorkerTypeOK
    <3>2. \A e \in activated : ~Fresh(e) => ~Fresh(e)'
      <4> SUFFICES ASSUME NEW e \in activated, Fresh(e)' PROVE Fresh(e)
        OBVIOUS
      <4>1. EventTime[e] \in Nat /\ MaxAge \in Nat
        BY <3>1, WorkerAssumption
      <4> QED BY <3>1, <4>1 DEF Fresh, FreshAt
    <3> QED BY <2>4, <3>2 DEF Tick, WakesOK, StaleNeverWakes
  <2>5. CASE UnloadEntry \/ \E r \in Recordings : FileRemoved(r)
    BY <2>5, GrantsNothing DEF UnloadEntry, FileRemoved
  <2>6. CASE StartUp
    BY <2>6 DEF StartUp, WakesOK, StaleNeverWakes
  <2> QED BY <1>1, <2>1, <2>2, <2>3, <2>4, <2>5, <2>6 DEF Environment
<1>2. CASE WorkerStep
  <2>1. CASE Boot \/ BootStale \/ BootSkip \/ BootReturns
    BY <2>1, GrantsNothing DEF Boot, BootStale, BootSkip, BootReturns
  <2>2. CASE BootDone
    BY <2>2 DEF BootDone, Notify, WakesOK, StaleNeverWakes, Fresh, FreshAt
  <2>3. CASE WakeUp \/ RetryElapses \/ RetryWoken
    BY <2>3, GrantsNothing DEF WakeUp, RetryElapses, RetryWoken, StartSweep
  <2>4. CASE Sweep \/ SweepSaved
    BY <2>4, GrantsNothing DEF Sweep, Defers, SweepSaved, Forget
  <2>5. CASE PickNext
    <3>1. Candidates \subseteq asked \union freshOnce
      BY DEF Candidates, WakesOK
    <3>2. SelectFrom(Candidates) \subseteq Candidates
      BY QueueTypes, SelectFromChooses DEF Candidates, WInv
    <3> QED BY <2>5, <3>1, <3>2 DEF PickNext, WakesOK, StaleNeverWakes, Fresh, FreshAt
  <2>6. CASE Settle
    BY <2>6 DEF Settle, WakesOK, StaleNeverWakes, Fresh, FreshAt
  <2>7. CASE SessionEnds
    <3>1. ASSUME NEW match, SessionFails(match) PROVE WakesOK'
      <4>1. /\ UNCHANGED <<now, asked, freshOnce, woken, recoverIds>>
            /\ activated' \subseteq activated /\ manual' \subseteq manual
            /\ credit' \subseteq credit /\ at' # "settle"
        BY <3>1 DEF SessionFails, Forget, StartSweep
      <4> QED BY <4>1, GrantsNothing
    <3>2. ASSUME NEW r, SessionFindsDuplicate(r) \/ SessionFinalizes(r) \/ SessionSaves(r)
          PROVE  WakesOK'
      BY <3>2, GrantsNothing
      DEF SessionFindsDuplicate, SessionFinalizes, SessionSaves, Forget, StartSweep
    <3> QED BY <2>7, <3>1, <3>2 DEF SessionEnds
  <2>8. CASE DeferSaved \/ Publish
    BY <2>8, GrantsNothing DEF DeferSaved, Publish, Forget, StartSweep
  <2> QED BY <1>2, <2>1, <2>2, <2>3, <2>4, <2>5, <2>6, <2>7, <2>8 DEF WorkerStep
<1>3. CASE ButtonStep
  <2>1. CASE RecoverStep \/ RecoverReturns
    <3>1. \/ UNCHANGED <<setVars, recoverIds>>
          \/ /\ manual' = manual \union recoverIds /\ activated' = activated \union recoverIds
             /\ recoverIds' = {} /\ credit' = credit
      BY <2>1 DEF RecoverStep, RecoverReturns, Rearms, MakesManual
    <3> QED BY <2>1, <3>1 DEF RecoverStep, RecoverReturns, WakesOK, StaleNeverWakes, Fresh, FreshAt
  <2>3. CASE ClearSaved
    BY <2>3, GrantsNothing DEF ClearSaved, Forget
  <2> QED BY <1>3, <2>1, <2>3 DEF ButtonStep
<1>4. CASE UnloadReturns \/ Store
  BY <1>4, GrantsNothing DEF UnloadReturns, Store
<1>5. ASSUME NEW e \in Events, IngestStep(e) PROVE WakesOK'
  <2>1. CASE ArriveNotifies(e)
    BY <2>1 DEF ArriveNotifies, Notify, WakesOK, StaleNeverWakes, Fresh, FreshAt
  <2>2. CASE ArriveDefers(e) \/ IngestReturns(e)
    BY <2>2, GrantsNothing DEF ArriveDefers, IngestReturns
  <2> QED BY <1>5, <2>1, <2>2 DEF IngestStep
<1>6. CASE UNCHANGED vars
  BY <1>6, GrantsNothing DEF vars
<1> QED BY <1>1, <1>2, <1>3, <1>4, <1>5, <1>6 DEF Next

\* Whatever happens in which order, the camera is woken only for events that
\* were fresh when they were notified or that the user asked to recover.
THEOREM StaleBacklogSleeps == Spec => []StaleNeverWakes
<1>1. Init => WakesOK
  BY DEF Init, WakesOK, StaleNeverWakes
<1>2. WInv /\ WakesOK /\ [Next]_vars => WakesOK'
  BY WakesStep
<1>3. WakesOK => StaleNeverWakes
  BY DEF WakesOK
<1> QED BY <1>1, <1>2, <1>3, WorkerInductive, PTL DEF Spec

-----------------------------------------------------------------------------
(* The fingerprints and the ready events *)

\* No reload forgets r: the queue, the file and what is becoming the file all
\* remember it.
Known(r) ==
    /\ Remembered(queue.completed, r)
    /\ Remembered(disk.completed, r)
    /\ phase = "writing" => Remembered(writing.completed, r)

\* r is known once the worker's save returns: the worker waits for one, the queue
\* remembers r, and the write that the worker makes itself contains it.
Coming(r) ==
    /\ Saving(Worker)
    /\ Remembered(queue.completed, r)
    /\ savers # << >> /\ Head(savers) = Worker =>
         /\ phase = "writing" => Remembered(writing.completed, r)
         /\ phase = "written" => Remembered(disk.completed, r)

\* An announced recording is known, one whose completion is being saved is coming, and one
\* whose file was just finalized is the only one and not remembered yet.
PublishedOK ==
    /\ \A r \in Recordings : published[r] > 0 => Known(r)
    /\ at = "completeSave" => \A r \in got : Coming(r)
    /\ at = "ending" => \A r \in got : got = {r} /\ r \notin IdsOf(queue.completed)
    /\ at \notin {"ending", "completeSave"} => got = {}

\* The calls that remember nothing keep the fingerprints.
LEMMA KeptByCalls ==
    ASSUME queue \in QueueType, QueueOK(queue), NEW t, NEW e, NEW ids,
           \/ CompleteEvent(t, e, {}) \/ DeferEvent(t, e) \/ RearmEvent(t, e)
           \/ ClearDeferred(t, ids)
    PROVE  queue'.completed = queue.completed
<1>1. CASE CompleteEvent(t, e, {})
  BY <1>1, KeepsCompleted DEF CompleteEvent, Commit
<1>2. CASE DeferEvent(t, e) \/ RearmEvent(t, e)
  BY <1>2, KeepsCompleted DEF DeferEvent, RearmEvent, Commit
<1>3. CASE ClearDeferred(t, ids)
  BY <1>3, KeepsCompleted DEF ClearDeferred, Commit
<1> QED BY <1>1, <1>2, <1>3

\* A call may add a fingerprint and loses one only from a full list.
LEMMA CallFingerprints ==
    ASSUME IInv, NEW t \in Tasks, Call(t)
    PROVE  /\ \A r : Remembered(queue.completed, r) => Remembered(queue'.completed, r)
           /\ disk' = disk
           /\ UNCHANGED storeVars \/ Save(t)
<1>0. queue \in QueueType /\ QueueOK(queue)
  BY DEF IInv, CoordTypeOK, QueueConsistent
<1>1. PICK q, changed : Commit(t, q, changed)
  BY CallCommits DEF Call
<1>2. disk' = disk /\ (UNCHANGED storeVars \/ Save(t))
  BY <1>1 DEF Commit
<1>3. CASE queue'.completed = queue.completed
  BY <1>2, <1>3
<1>4. ASSUME NEW e \in Events, NEW r \in Recordings, CompleteEvent(t, e, {r})
      PROVE  \A x : Remembered(queue.completed, x) => Remembered(queue'.completed, x)
  <2> DEFINE q0 == Remove(queue, e)
  <2>1. queue' = q0 \/ queue' = Remember(q0, r)
    BY <1>4 DEF CompleteEvent, Commit
  <2>2. q0 \in QueueType /\ QueueOK(q0)
    BY <1>0, RemoveOK
  <2>3. q0.completed = queue.completed
    BY <1>0, KeepsCompleted
  <2> HIDE DEF q0
  <2>4. \A x : Remembered(q0.completed, x) => Remembered(Remember(q0, r).completed, x)
    BY <2>2, RememberKeeps
  <2> QED BY <2>1, <2>3, <2>4
<1>5. \/ queue'.completed = queue.completed
      \/ \E e \in Events, r \in Recordings : CompleteEvent(t, e, {r})
  <2>1. ASSUME NEW batch \in Seq(Events), IngestEvents(t, batch)
        PROVE  queue'.completed = queue.completed
    BY <1>0, <2>1, EnqueueAllOK DEF IngestEvents, Commit
  <2>2. ASSUME NEW e \in Events, CompleteEvent(t, e, {}) \/ DeferEvent(t, e) \/ RearmEvent(t, e)
        PROVE  queue'.completed = queue.completed
    BY <1>0, <2>2, KeptByCalls
  <2>3. ASSUME NEW ofSource \in SUBSET Events, ClearDeferred(t, ofSource)
        PROVE  queue'.completed = queue.completed
    BY <1>0, <2>3, KeptByCalls
  <2>4. CASE Shutdown(t)
    BY <2>4 DEF Shutdown, Commit
  <2> QED BY <2>1, <2>2, <2>3, <2>4 DEF Call
<1> QED BY <1>2, <1>3, <1>4, <1>5

\* What is known stays known, also through a restart.
LEMMA KnownStays ==
    ASSUME IInv, IInv', [PipelineNext]_coordVars, NEW r, Known(r)
    PROVE  Known(r)'
<1>0. /\ queue \in QueueType /\ QueueOK(queue) /\ disk \in StorageType /\ StorageOK(disk)
      /\ queue' \in QueueType /\ QueueOK(queue')
  BY DEF IInv, CoordTypeOK, QueueConsistent
<1>1. /\ AsStorage(queue).completed = queue.completed
      /\ AsStorage(queue').completed = queue'.completed
      /\ Load(disk).completed = disk.completed
  BY <1>0, KeepsCompleted, LoadKeepsCompleted
<1>2. ASSUME NEW t \in Tasks, Call(t) PROVE Known(r)'
  <2>1. /\ Remembered(queue'.completed, r)
        /\ disk' = disk /\ (UNCHANGED storeVars \/ Save(t))
    BY <1>2, CallFingerprints DEF Known
  <2>2. \/ writing' = writing /\ phase' = phase
        \/ writing' = AsStorage(queue')
    BY <2>1 DEF Save, storeVars
  <2> QED BY <1>1, <2>1, <2>2 DEF Known
<1>3. CASE StoreBegin \/ StoreWrite \/ (\E t \in Tasks : Return(t)) \/ UNCHANGED coordVars
  BY <1>1, <1>3 DEF StoreBegin, StoreWrite, Return, coordVars, Known
<1>4. CASE StartUp
  BY <1>1, <1>4 DEF StartUp, Restart, Known
<1> QED BY <1>2, <1>3, <1>4 DEF PipelineNext

\* What is coming stays so until the save returns, or a restart drops the work.
LEMMA ComingStays ==
    ASSUME IInv, IInv', [PipelineNext]_coordVars, ~StartUp, ~Return(Worker), NEW r, Coming(r)
    PROVE  Coming(r)'
<1>0. /\ queue \in QueueType /\ QueueOK(queue) /\ savers \in Seq(Tasks)
      /\ queue' \in QueueType /\ QueueOK(queue')
  BY DEF IInv, CoordTypeOK, QueueConsistent
<1>1. /\ AsStorage(queue).completed = queue.completed
      /\ AsStorage(queue').completed = queue'.completed
  BY <1>0, KeepsCompleted
<1>2. ASSUME NEW t \in Tasks, Call(t) PROVE Coming(r)'
  <2>0. /\ Remembered(queue'.completed, r)
        /\ disk' = disk /\ (UNCHANGED storeVars \/ Save(t))
    BY <1>2, CallFingerprints DEF Coming
  <2>1. Remembered(queue'.completed, r) /\ disk' = disk /\ Saving(Worker)'
    <3>1. IdsOf(Append(savers, t)) = IdsOf(savers) \union {t}
      BY <1>0, AppendDistinct
    <3>2. IdsOf(savers) \subseteq IdsOf(savers')
      BY <2>0, <3>1 DEF Save, storeVars
    <3> QED BY <2>0, <3>2 DEF Coming, Saving
  <2>2. CASE UNCHANGED storeVars
    BY <2>1, <2>2 DEF Coming, storeVars
  <2>3. CASE Save(t) /\ savers = << >>
    BY <1>1, <2>1, <2>3 DEF Save, Coming
  <2>4. CASE Save(t) /\ savers # << >>
    <3>1. Head(savers') = Head(savers) /\ phase' = phase /\ writing' = writing
      BY <1>0, <2>4 DEF Save
    <3> QED BY <2>1, <2>4, <3>1 DEF Coming
  <2> QED BY <2>0, <2>2, <2>3, <2>4
<1>3. CASE StoreBegin \/ StoreWrite \/ UNCHANGED coordVars
  BY <1>1, <1>3 DEF StoreBegin, StoreWrite, coordVars, Coming, Saving
<1>4. ASSUME NEW t \in Tasks, Return(t) PROVE Coming(r)'
  <2>1. savers # << >> /\ savers' = Tail(savers) /\ t = Head(savers) /\ t # Worker
    BY <1>4 DEF Return
  <2>2. Saving(Worker)'
    BY <1>0, <2>1, TailDistinct DEF Coming, Saving
  <2> QED BY <1>4, <2>2 DEF Return, Coming
<1> QED BY <1>2, <1>3, <1>4 DEF PipelineNext

\* Only a completion with a recording and a restart touch the fingerprints.
LEMMA CompletedStays ==
    ASSUME WInv, [Next]_vars, ~StartUp, ~(\E r \in Recordings : SessionSaves(r))
    PROVE  queue'.completed = queue.completed
<1>0. queue \in QueueType /\ QueueOK(queue)
  BY DEF WInv, IInv, CoordTypeOK, QueueConsistent
<1>1. CASE Environment
  <2>1. ASSUME NEW e \in Events, NEW wake \in BOOLEAN, Arrive(e, wake)
        PROVE  queue'.completed = queue.completed
    <3>1. queue' = EnqueueAll(queue, << e >>) /\ << e >> \in Seq(Events)
      BY <2>1 DEF Arrive, IngestEvents, Commit
    <3> QED BY <1>0, <3>1, EnqueueAllOK
  <2>2. CASE PressClear
    BY <1>0, <2>2, KeptByCalls DEF PressClear
  <2>3. CASE UnloadEntry
    BY <2>3 DEF UnloadEntry, Shutdown, Commit
  <2>4. CASE Tick \/ \E r \in Recordings : FileRemoved(r)
    BY <2>4 DEF Tick, FileRemoved, coordVars
  <2>5. CASE PressRecover
    <3>1. (\E e : RearmEvent(Recover, e)) \/ queue' = queue
      BY <2>5 DEF PressRecover, Rearms, coordVars
    <3> QED BY <1>0, <3>1, KeptByCalls
  <2> QED BY <1>1, <2>1, <2>2, <2>3, <2>4, <2>5 DEF Environment
<1>2. CASE WorkerStep
  <2>1. CASE Boot \/ BootStale \/ BootSkip \/ BootDone \/ BootReturns
    <3>1. (\E e : DeferEvent(Worker, e)) \/ queue' = queue
      BY <2>1 DEF Boot, BootStale, BootSkip, BootDone, BootReturns, Return, coordVars
    <3> QED BY <1>0, <3>1, KeptByCalls
  <2>2. CASE WakeUp \/ Sweep \/ SweepSaved \/ PickNext \/ Settle
    <3>1. (\E e : DeferEvent(Worker, e)) \/ queue' = queue
      BY <2>2 DEF WakeUp, Sweep, Defers, SweepSaved, PickNext, Settle, Return, coordVars
    <3> QED BY <1>0, <3>1, KeptByCalls
  <2>3. CASE DeferSaved \/ RetryElapses \/ RetryWoken \/ Publish
    BY <2>3 DEF DeferSaved, RetryElapses, RetryWoken, Publish, Return, coordVars
  <2>4. CASE SessionEnds
    <3>1. (\E e : DeferEvent(Worker, e) \/ CompleteEvent(Worker, e, {})) \/ queue' = queue
      BY <2>4 DEF SessionEnds, SessionFails, SessionFindsDuplicate, SessionFinalizes, coordVars
    <3> QED BY <1>0, <3>1, KeptByCalls
  <2> QED BY <1>2, <2>1, <2>2, <2>3, <2>4 DEF WorkerStep
<1>3. CASE ButtonStep
  <2>1. (\E e : RearmEvent(Recover, e)) \/ queue' = queue
    BY <1>3 DEF ButtonStep, RecoverStep, Rearms, RecoverReturns, ClearSaved, Return, coordVars
  <2> QED BY <1>0, <2>1, KeptByCalls
<1>4. CASE UnloadReturns \/ Store \/ UNCHANGED vars
  BY <1>4 DEF UnloadReturns, Store, StoreBegin, StoreWrite, Return, vars, coordVars
<1>5. ASSUME NEW x \in Events, IngestStep(x) PROVE queue'.completed = queue.completed
  <2>1. DeferEvent(x, x) \/ queue' = queue
    BY <1>5 DEF IngestStep, ArriveNotifies, ArriveDefers, IngestReturns, Return
  <2> QED BY <1>0, <2>1, KeptByCalls
<1> QED BY <1>1, <1>2, <1>3, <1>4, <1>5 DEF Next

\* A step that publishes nothing and finalizes or completes nothing: what the worker holds
\* goes, or the worker stays where it is.
Quiet ==
    /\ published' = published
    /\ \/ got' = {}
       \/ got' = got /\ at' = at /\ restarts' = restarts /\ ~Return(Worker)
       \/ got' = got /\ at \notin {"ending", "completeSave"} /\ at' \notin {"ending", "completeSave"}

\* It announces nothing, and what was announced stays known.
LEMMA QuietAnnouncesNothing ==
    ASSUME WInv, WInv', StepOK, PublishedOK, Quiet, [Next]_vars,
           ~(\E r \in Recordings : SessionSaves(r))
    PROVE  PublishedOK'
<1>1. ASSUME NEW r \in Recordings, published'[r] > 0 PROVE Known(r)'
  BY <1>1, KnownStays DEF PublishedOK, WInv, StepOK, Quiet
<1>2. CASE got' = {}
  BY <1>1, <1>2 DEF PublishedOK
<1>3. CASE got' = got /\ at' = at /\ restarts' = restarts /\ ~Return(Worker)
  <2>1. ~StartUp
    <3>1. restarts \in Nat
      BY DEF WInv, WorkerTypeOK
    <3> QED BY <1>3, <3>1 DEF StartUp
  <2>2. at' = "completeSave" => \A r \in got' : Coming(r)'
    BY <1>3, <2>1, ComingStays DEF PublishedOK, WInv, StepOK
  <2>3. queue'.completed = queue.completed
    BY <2>1, CompletedStays
  <2> QED BY <1>1, <1>3, <2>2, <2>3 DEF PublishedOK
<1>4. CASE got' = got /\ at \notin {"ending", "completeSave"} /\ at' \notin {"ending", "completeSave"}
  BY <1>1, <1>4 DEF PublishedOK
<1> QED BY <1>2, <1>3, <1>4 DEF Quiet

\* A call, or a step that leaves the line alone, is not the return of the worker's save.
LEMMA NoReturn ==
    ASSUME savers \in Seq(Tasks), \/ \E t, q, changed : Commit(t, q, changed)
                                 \/ savers' = savers
    PROVE  ~Return(Worker)
<1>1. savers' = savers \/ \E t : savers' = Append(savers, t)
  BY DEF Commit, Save, storeVars
<1>2. savers # << >> => Len(savers') # Len(Tail(savers))
  BY <1>1
<1> QED BY <1>2 DEF Return

\* Three kinds of steps are not quiet.  A session that finds a duplicate also goes to the save
\* of the completion, but holds nothing then.
LEMMA StepsAreQuiet ==
    ASSUME WInv, PublishedOK, [Next]_vars
    PROVE  \/ Quiet
           \/ \E r \in Recordings : SessionFinalizes(r) \/ SessionSaves(r)
           \/ Publish
<1> USE DEF envVars, setVars, workVars, buttonVars, histVars, Quiet
<1>0. /\ savers \in Seq(Tasks)
      /\ \A t \in Events \union {Recover, Clear, Unload} : Return(t) => ~Return(Worker)
  BY WorkerAssumption DEF WInv, IInv, CoordTypeOK, Return
<1>1. CASE Environment
  <2>1. ASSUME NEW e \in Events, NEW wake \in BOOLEAN, Arrive(e, wake) PROVE Quiet
    <3>1. ~Return(Worker)
      BY <1>0, <2>1, NoReturn DEF Arrive, IngestEvents
    <3> QED BY <2>1, <3>1 DEF Arrive
  <2>2. CASE PressRecover
    <3>1. ~Return(Worker)
      BY <1>0, <2>2, NoReturn DEF PressRecover, Rearms, RearmEvent, coordVars, storeVars
    <3> QED BY <2>2, <3>1 DEF PressRecover
  <2>3. CASE PressClear
    <3>1. ~Return(Worker)
      BY <1>0, <2>3, NoReturn DEF PressClear, ClearDeferred
    <3> QED BY <2>3, <3>1 DEF PressClear
  <2>4. CASE UnloadEntry
    <3>1. ~Return(Worker)
      BY <1>0, <2>4, NoReturn DEF UnloadEntry, Shutdown
    <3> QED BY <2>4, <3>1 DEF UnloadEntry
  <2>5. CASE Tick \/ \E r \in Recordings : FileRemoved(r)
    <3>1. ~Return(Worker)
      BY <1>0, <2>5, NoReturn DEF Tick, FileRemoved, coordVars, storeVars
    <3> QED BY <2>5, <3>1 DEF Tick, FileRemoved
  <2>6. CASE StartUp
    BY <2>6 DEF StartUp
  <2> QED BY <1>1, <2>1, <2>2, <2>3, <2>4, <2>5, <2>6 DEF Environment
<1>2. CASE Boot \/ BootStale \/ BootSkip \/ BootDone \/ BootReturns
  BY <1>2 DEF Boot, BootStale, BootSkip, BootDone, BootReturns
<1>3. CASE WakeUp \/ Sweep \/ SweepSaved \/ PickNext \/ Settle
  <2>1. /\ at \notin {"ending", "completeSave"} /\ at' \notin {"ending", "completeSave"}
        /\ got' = got /\ published' = published
    BY <1>3 DEF WakeUp, StartSweep, Sweep, Defers, SweepSaved, PickNext, Settle
  <2> QED BY <2>1
<1>4. CASE DeferSaved \/ RetryElapses \/ RetryWoken
  <2>1. /\ at \notin {"ending", "completeSave"} /\ at' \notin {"ending", "completeSave"}
        /\ got' = got /\ published' = published
    BY <1>4 DEF DeferSaved, StartSweep, RetryElapses, RetryWoken
  <2> QED BY <2>1
<1>5. ASSUME NEW match, SessionFails(match) PROVE Quiet
  BY <1>5 DEF SessionFails
<1>6. ASSUME NEW r, SessionFindsDuplicate(r) PROVE Quiet
  BY <1>6 DEF SessionFindsDuplicate, PublishedOK
<1>7. CASE ButtonStep \/ UnloadReturns \/ Store
  <2>1. ~Return(Worker)
    <3>1. RecoverStep \/ Store => ~Return(Worker)
      BY <1>0, NoReturn DEF RecoverStep, Rearms, RearmEvent, coordVars, storeVars,
                            Store, StoreBegin, StoreWrite
    <3> QED BY <1>0, <1>7, <3>1 DEF ButtonStep, RecoverReturns, ClearSaved, UnloadReturns
  <2> QED BY <1>7, <2>1 DEF ButtonStep, RecoverStep, RecoverReturns, ClearSaved,
                           UnloadReturns, Store
<1>8. ASSUME NEW e \in Events, IngestStep(e) PROVE Quiet
  <2>1. ~Return(Worker)
    BY <1>0, <1>8, NoReturn DEF IngestStep, ArriveNotifies, ArriveDefers, IngestReturns, DeferEvent
  <2> QED BY <1>8, <2>1 DEF IngestStep, ArriveNotifies, ArriveDefers, IngestReturns
<1>9. CASE UNCHANGED vars
  <2>1. ~Return(Worker)
    BY <1>0, <1>9, NoReturn DEF vars, coordVars, storeVars
  <2> QED BY <1>9, <2>1 DEF vars
<1> QED BY <1>1, <1>2, <1>3, <1>4, <1>5, <1>6, <1>7, <1>8, <1>9 DEF Next, WorkerStep, SessionEnds

\* A file is finalized for a recording that the queue does not remember.
LEMMA FinalizeAnnouncesNothing ==
    ASSUME WInv, WInv', StepOK, PublishedOK, NEW r \in Recordings, SessionFinalizes(r)
    PROVE  PublishedOK'
<1>1. /\ published' = published /\ got' = {r} /\ at' = "ending"
      /\ r \notin IdsOf(queue.completed) /\ queue' = queue
  BY DEF SessionFinalizes, coordVars
<1>2. ASSUME NEW x \in Recordings, published'[x] > 0 PROVE Known(x)'
  BY <1>1, <1>2, KnownStays DEF PublishedOK, WInv, StepOK
<1> QED BY <1>1, <1>2 DEF PublishedOK

\* A completion with a recording: the queue remembers it, and the worker's save
\* either starts at once with it or comes after the saves in line.
LEMMA SaveAnnounces ==
    ASSUME WInv, WInv', StepOK, PublishedOK, NEW r \in Recordings, SessionSaves(r)
    PROVE  PublishedOK'
<1>0. /\ queue \in QueueType /\ QueueOK(queue) /\ savers \in Seq(Tasks)
      /\ queue' \in QueueType /\ QueueOK(queue')
  BY DEF WInv, IInv, CoordTypeOK, QueueConsistent
<1>1. PICK e \in cur : CompleteEvent(Worker, e, {r})
  BY DEF SessionSaves
<1>2. published' = published /\ got' = got /\ at' = "completeSave" /\ got = {r}
  BY DEF SessionSaves, PublishedOK, envVars
<1>3. ASSUME NEW x \in Recordings, published'[x] > 0 PROVE Known(x)'
  BY <1>2, <1>3, KnownStays DEF PublishedOK, WInv, StepOK
<1>4. queue' = Remember(Remove(queue, e), r) /\ Save(Worker)
  <2>1. r \notin IdsOf(queue.completed)
    BY DEF SessionSaves, PublishedOK
  <2>2. {r} \ IdsOf(queue.completed) # {} /\ (CHOOSE x \in {r} : TRUE) = r /\ {r} # {}
    BY <2>1
  <2> QED BY <1>1, <2>2 DEF CompleteEvent, Commit
<1>5. Remembered(queue'.completed, r) /\ Saving(Worker)'
  <2>1. Saving(Worker)'
    BY <1>0, <1>4, WorkerAssumption, AppendDistinct DEF Save, Saving
  <2> QED BY <1>0, <1>4, <2>1, RemoveOK, RememberKeeps DEF Remembered
<1>6. Coming(r)'
  <2>1. CASE savers = << >>
    <3>1. AsStorage(queue').completed = queue'.completed
      BY <1>0, KeepsCompleted
    <3> QED BY <1>4, <1>5, <2>1, <3>1 DEF Save, Coming
  <2>2. CASE savers # << >>
    <3>1. ~Saving(Worker)
      BY DEF SessionSaves, WInv, TasksOK, SavingPlaces
    <3>2. Head(savers) # Worker
      BY <1>0, <2>2, <3>1, TailDistinct DEF Saving
    <3>3. Head(savers') = Head(savers)
      BY <1>0, <1>4, <2>2 DEF Save
    <3> QED BY <1>5, <3>2, <3>3 DEF Coming
  <2> QED BY <2>1, <2>2
<1> QED BY <1>2, <1>3, <1>6 DEF PublishedOK

\* The ready event: the worker's save has returned, so the file holds what the
\* worker wrote itself, or a later writer took the contents.
LEMMA PublishAnnounces ==
    ASSUME WInv, WInv', StepOK, PublishedOK, Publish
    PROVE  PublishedOK'
<1>0. queue \in QueueType /\ QueueOK(queue)
  BY DEF WInv, IInv, CoordTypeOK, QueueConsistent
<1>1. /\ got' = {} /\ at = "completeSave" /\ at' = "sweep"
      /\ published' = [r \in Recordings |-> IF r \in got THEN published[r] + 1 ELSE published[r]]
  BY DEF Publish, StartSweep
<1>2. Saving(Worker) =>
        /\ savers # << >> /\ Head(savers) = Worker
        /\ phase = "written" \/ (phase = "woken" /\ ~unwritten)
        /\ UNCHANGED <<queue, disk, writing>> /\ phase' # "writing"
  BY DEF Publish, Return
<1>3. ASSUME NEW r \in got PROVE Known(r)'
  <2>1. Coming(r) /\ Remembered(queue.completed, r) /\ Saving(Worker)
    <3>1. got \subseteq Recordings
      BY DEF WInv, WorkerTypeOK
    <3> QED BY <1>1, <1>3, <3>1 DEF PublishedOK, Coming
  <2>2. Remembered(disk.completed, r)
    <3>1. CASE phase = "written"
      BY <1>2, <2>1, <3>1 DEF Coming
    <3>2. CASE phase = "woken" /\ ~unwritten
      <4>1. disk = AsStorage(queue)
        BY <3>2 DEF WInv, IInv, SavesInOrder
      <4>2. AsStorage(queue).completed = queue.completed
        BY <1>0, KeepsCompleted
      <4> QED BY <2>1, <4>1, <4>2
    <3> QED BY <1>2, <2>1, <3>1, <3>2
  <2> QED BY <1>2, <2>1, <2>2 DEF Known
<1>4. ASSUME NEW r \in Recordings, published'[r] > 0 PROVE Known(r)'
  <2>1. CASE r \in got
    BY <1>3, <2>1
  <2>2. CASE r \notin got
    BY <1>1, <1>4, <2>2, KnownStays DEF PublishedOK, WInv, StepOK
  <2> QED BY <2>1, <2>2
<1> QED BY <1>1, <1>4 DEF PublishedOK

\* The inductive invariant of the fingerprints.
FingerprintInv == WInv /\ PublishedOK

\* An empty store knows no fingerprint and nothing was announced.
LEMMA FingerprintInit == Init => FingerprintInv
<1> SUFFICES ASSUME Init PROVE PublishedOK
  BY InitOK DEF FingerprintInv
<1> QED BY DEF Init, PublishedOK

\* Every step keeps it.
LEMMA FingerprintStep ==
    ASSUME FingerprintInv, [Next]_vars
    PROVE  FingerprintInv'
<1>1. WInv /\ WInv' /\ StepOK
  BY StepWInv DEF FingerprintInv
<1>2. PublishedOK'
  <2>1. CASE \E r \in Recordings : SessionSaves(r)
    BY <1>1, <2>1, SaveAnnounces DEF FingerprintInv
  <2>2. CASE ~(\E r \in Recordings : SessionSaves(r))
    BY <1>1, <2>2, StepsAreQuiet, QuietAnnouncesNothing, FinalizeAnnouncesNothing,
       PublishAnnounces DEF FingerprintInv
  <2> QED BY <2>1, <2>2
<1> QED BY <1>1, <1>2 DEF FingerprintInv

\* In every reachable state fingerprints and ready events agree.
THEOREM FingerprintInductive == Spec => []FingerprintInv
<1>1. FingerprintInv /\ [Next]_vars => FingerprintInv'
  BY FingerprintStep
<1> QED BY <1>1, FingerprintInit, PTL DEF Spec

\* A ready event is fired only for a recording whose fingerprint no crash makes the
\* integration forget: not before the save that the worker awaits, whoever writes the file.
THEOREM AnnouncedIsDurable == Spec => []PublishedIsDurable
<1>1. FingerprintInv => PublishedIsDurable
  BY DEF FingerprintInv, PublishedOK, Known, Remembered, PublishedIsDurable
<1> QED BY <1>1, FingerprintInductive, PTL

-----------------------------------------------------------------------------
(* A recording is announced once *)

\* What the worker is about to announce was not announced before.
Once ==
    /\ \A r \in Recordings : published[r] <= 1
    /\ at = "completeSave" => \A r \in got : published[r] = 0

\* A full list of fingerprints that has room for all recordings holds all.
LEMMA FullListHoldsAll ==
    ASSUME IsFiniteSet(Recordings), Cardinality(Recordings) <= MaxCompleted,
           NEW c \in Seq(Recordings), Distinct(c), Len(c) = MaxCompleted
    PROVE  IdsOf(c) = Recordings
<1>1. /\ Cardinality(Recordings) <= MaxCompleted => Len(c) = Cardinality(Recordings)
      /\ Len(c) = Cardinality(Recordings) => IdsOf(c) = Recordings
  <2>1. /\ Len(c) <= Cardinality(Recordings)
        /\ Len(c) = Cardinality(Recordings) => IdsOf(c) = Recordings
    BY DistinctIsShort
  <2>2. Cardinality(Recordings) \in Nat /\ MaxCompleted \in Nat
    BY FS_CardinalityType, BoundsAssumption
  <2> QED BY <2>1, <2>2
<1> QED BY <1>1

\* A new completion is of a recording the queue does not remember, hence, while
\* the list has room, of one that was never announced.
LEMMA OnceStep ==
    ASSUME IsFiniteSet(Recordings), Cardinality(Recordings) <= MaxCompleted,
           FingerprintInv, Once, [Next]_vars
    PROVE  Once'
<1>0. published \in [Recordings -> Nat] /\ got \subseteq Recordings
  BY DEF FingerprintInv, WInv, WorkerTypeOK
<1>1. CASE Quiet
  BY <1>1 DEF Quiet, Once
<1>2. ASSUME NEW r \in Recordings, SessionSaves(r) PROVE Once'
  <2>1. r \notin IdsOf(queue.completed) /\ got' = {r} /\ published' = published
    BY <1>2 DEF SessionSaves, FingerprintInv, PublishedOK, envVars
  <2>2. queue.completed \in Seq(Recordings) /\ Distinct(queue.completed)
    BY DEF FingerprintInv, WInv, IInv, CoordTypeOK, QueueConsistent, QueueType, QueueOK
  <2>3. ~Remembered(queue.completed, r)
    BY <2>1, <2>2, FullListHoldsAll DEF Remembered
  <2>4. ~(published[r] > 0)
    BY <2>3 DEF FingerprintInv, PublishedOK, Known
  <2>5. published[r] = 0
    BY <1>0, <2>4
  <2> QED BY <2>1, <2>5 DEF Once
<1>3. CASE Publish
  <2>1. /\ got' = {} /\ at = "completeSave"
        /\ published' = [r \in Recordings |->
                           IF r \in got THEN published[r] + 1 ELSE published[r]]
    BY <1>3 DEF Publish
  <2>2. \A r \in Recordings : published'[r] <= 1
    BY <1>0, <2>1 DEF Once
  <2> QED BY <2>1, <2>2 DEF Once
<1>4. ASSUME NEW r \in Recordings, SessionFinalizes(r) PROVE Once'
  BY <1>4 DEF SessionFinalizes, Once
<1> QED BY <1>1, <1>2, <1>3, <1>4, StepsAreQuiet DEF FingerprintInv

\* While the list of fingerprints has room for all recordings, each is
\* announced at most once, whatever crashes and notifies again.
THEOREM AnnouncedOnce ==
    ASSUME IsFiniteSet(Recordings)
    PROVE  Spec => []PublishedOnce
<1>1. CASE Cardinality(Recordings) <= MaxCompleted
  <2>1. Init => Once
    BY DEF Init, Once
  <2>2. FingerprintInv /\ Once /\ [Next]_vars => Once'
    BY <1>1, OnceStep
  <2>3. Once => PublishedOnce
    BY DEF Once, PublishedOnce
  <2> QED BY <2>1, <2>2, <2>3, FingerprintInductive, PTL DEF Spec
<1>2. CASE ~(Cardinality(Recordings) <= MaxCompleted)
  <2>1. PublishedOnce
    BY <1>2 DEF PublishedOnce
  <2> QED BY <2>1, PTL
<1> QED BY <1>1, <1>2

-----------------------------------------------------------------------------
(* What the calls do to the pending and the deferred events *)

\* A new event pushes out the oldest one of a full queue.
LEMMA IngestQueue ==
    ASSUME IInv, NEW t, NEW e \in Events, Accepts(queue, e), IngestEvents(t, << e >>)
    PROVE  /\ queue'.deferred \subseteq queue.deferred
           /\ IdsOf(queue'.pending) \subseteq Pending \union {e}
           /\ \A x \in Pending \ IdsOf(queue'.pending) :
                Len(queue.pending) = MaxPending /\ x = Head(queue.pending)
<1>0. queue \in QueueType /\ QueueOK(queue)
  BY DEF IInv, CoordTypeOK, QueueConsistent
<1>1. queue' = Enqueue(queue, e)
  BY IngestOne DEF IngestEvents, Commit
<1>2. queue.pending \in Seq(Events) /\ Len(queue.pending) <= MaxPending
  BY <1>0 DEF QueueType, QueueOK
<1> DEFINE c == Append(queue.pending, e)
<1>3. /\ c \in Seq(Events) /\ IdsOf(c) = Pending \union {e} /\ c # << >>
      /\ Len(c) = Len(queue.pending) + 1
      /\ queue.pending # << >> => Head(c) = Head(queue.pending)
  BY <1>2, AppendDistinct DEF Pending
<1>4. \/ /\ Len(c) > MaxPending /\ queue'.pending = Tail(c)
         /\ queue'.deferred \subseteq queue.deferred
      \/ queue'.pending = c /\ queue'.deferred = queue.deferred
  BY <1>0, <1>1 DEF Enqueue, QueueType, Accepts
<1> HIDE DEF c
<1>5. IdsOf(c) = IdsOf(Tail(c)) \union {Head(c)}
  BY <1>3, TailDistinct
<1>6. CASE /\ Len(c) > MaxPending /\ queue'.pending = Tail(c)
           /\ queue'.deferred \subseteq queue.deferred
  <2>1. Len(queue.pending) = MaxPending /\ queue.pending # << >>
    BY <1>2, <1>3, <1>6, BoundsAssumption
  <2>2. IdsOf(queue'.pending) = IdsOf(Tail(c))
    BY <1>6
  <2>3. \A x \in Pending \ IdsOf(queue'.pending) : x = Head(c)
    BY <1>3, <1>5, <2>2
  <2>4. IdsOf(queue'.pending) \subseteq Pending \union {e}
    BY <1>3, <1>5, <2>2
  <2> QED BY <1>3, <1>6, <2>1, <2>3, <2>4
<1>7. CASE queue'.pending = c /\ queue'.deferred = queue.deferred
  BY <1>3, <1>7
<1> QED BY <1>4, <1>6, <1>7

\* A completed event leaves the queue, and no other one does.
LEMMA CompleteQueue ==
    ASSUME IInv, NEW t, NEW e, NEW recs, CompleteEvent(t, e, recs)
    PROVE  /\ queue'.deferred \subseteq queue.deferred
           /\ IdsOf(queue'.pending) = Pending \ {e} /\ queue'.seen = queue.seen
<1>0. queue \in QueueType
  BY DEF IInv, CoordTypeOK
<1> DEFINE q == Remove(queue, e)
<1>1. queue' = q \/ \E r : queue' = Remember(q, r)
  BY DEF CompleteEvent, Commit
<1>2. /\ q.pending = Without(queue.pending, {e}) /\ q.deferred = queue.deferred \ {e}
      /\ q.seen = queue.seen
  BY <1>0 DEF Remove, QueueType
<1>3. q \in [processed : Seq(Events), seen : SUBSET Events, pending : {q.pending},
              completed : Seq(Recordings), deferred : SUBSET Events]
  BY <1>0 DEF Remove, QueueType
<1> HIDE DEF q
<1>4. \A r : /\ Remember(q, r).pending = q.pending /\ Remember(q, r).deferred = q.deferred
             /\ Remember(q, r).seen = q.seen
  BY <1>3 DEF Remember
<1>5. queue'.pending = q.pending /\ queue'.deferred = q.deferred /\ queue'.seen = q.seen
  BY <1>1, <1>4
<1>6. IdsOf(Without(queue.pending, {e})) = Pending \ {e}
  BY <1>0, WithoutProperties DEF QueueType, Pending
<1> QED BY <1>2, <1>5, <1>6

\* A deferral and a rearming leave the pending events alone.
LEMMA DeferQueue ==
    ASSUME IInv, NEW t, NEW e
    PROVE  /\ DeferEvent(t, e) =>
                /\ queue'.pending = queue.pending /\ queue'.seen = queue.seen
                /\ queue'.deferred = queue.deferred \union (Pending \intersect {e})
           /\ RearmEvent(t, e) =>
                /\ queue'.pending = queue.pending /\ queue'.seen = queue.seen
                /\ queue'.deferred = queue.deferred \ {e}
<1>0. queue \in QueueType
  BY DEF IInv, CoordTypeOK
<1> QED BY <1>0 DEF DeferEvent, RearmEvent, Commit, Defer, Rearm, QueueType, Pending

\* The clearing button drops deferred events only.
LEMMA ClearQueue ==
    ASSUME IInv, NEW t, NEW ofSource, ClearDeferred(t, ofSource)
    PROVE  LET removed == queue.deferred \intersect ofSource \intersect Pending
           IN  /\ IdsOf(queue'.pending) = Pending \ removed
               /\ queue'.deferred = queue.deferred \ removed /\ queue'.seen = queue.seen
<1>0. queue \in QueueType
  BY DEF IInv, CoordTypeOK
<1> DEFINE removed == queue.deferred \intersect ofSource \intersect Pending
           asked0 == queue.deferred \intersect ofSource
           given == asked0 \intersect queue.deferred \intersect IdsOf(queue.pending)
<1>1. queue' = DiscardDeferred(queue, asked0)
  BY DEF ClearDeferred, Commit
<1>2. given = removed
  BY DEF Pending
<1> HIDE DEF removed, asked0
<1>3. /\ queue'.pending = Without(queue.pending, given)
      /\ queue'.deferred = queue.deferred \ given /\ queue'.seen = queue.seen
  BY <1>0, <1>1 DEF DiscardDeferred, QueueType
<1> HIDE DEF given
<1>4. IdsOf(Without(queue.pending, given)) = Pending \ given
  BY <1>0, WithoutProperties DEF QueueType, Pending
<1> QED BY <1>2, <1>3, <1>4 DEF removed

-----------------------------------------------------------------------------
(* Why events leave the queue *)

Justified(e) ==
    \/ e \in cur /\ Matches[e] \intersect Completing # {}
    \/ e \in cleared' /\ e \in queue.deferred
    \/ Len(queue.pending) = MaxPending /\ e = Head(queue.pending)
    \/ restarts' # restarts /\ e \notin IdsOf(disk.pending)

LEMMA RemovalStep ==
    ASSUME WInv, [Next]_vars, NEW e \in Pending \ IdsOf(queue'.pending)
    PROVE  Justified(e)
<1>0. IInv /\ restarts \in Nat /\ disk \in StorageType /\ StorageOK(disk)
  BY DEF WInv, IInv, CoordTypeOK, WorkerTypeOK, QueueConsistent
<1>00. queue'.pending # queue.pending
  BY DEF Pending
<1>1. CASE Environment
  <2>1. ASSUME NEW x \in Events, NEW wake \in BOOLEAN, Arrive(x, wake) PROVE Justified(e)
    BY <1>0, <2>1, IngestQueue DEF Arrive, Justified
  <2>2. CASE PressClear
    <3>1. ClearDeferred(Clear, Android)
          /\ cleared' = queue.deferred \intersect Android \intersect Pending
      BY <2>2 DEF PressClear
    <3> QED BY <1>0, <3>1, ClearQueue DEF Justified
  <2>3. CASE UnloadEntry
    BY <1>00, <2>3 DEF UnloadEntry, Shutdown, Commit
  <2>4. CASE StartUp
    <3>1. queue'.pending = disk.pending
      <4>1. /\ disk.pending \in Seq(Events) /\ Len(disk.pending) <= MaxPending
        BY <1>0 DEF StorageType, StorageOK
      <4>2. LastOf(disk.pending, MaxPending) = disk.pending
        BY <4>1, LastOfProperties, BoundsAssumption
      <4> QED BY <2>4, <4>2 DEF StartUp, Restart, Load
    <3>2. restarts' # restarts
      BY <1>0, <2>4 DEF StartUp
    <3> QED BY <3>1, <3>2 DEF Justified
  <2>5. CASE Tick \/ \E r \in Recordings : FileRemoved(r)
    BY <1>00, <2>5 DEF Tick, FileRemoved, coordVars
  <2>6. CASE PressRecover
    <3>1. (\E x : RearmEvent(Recover, x)) \/ queue' = queue
      BY <2>6 DEF PressRecover, Rearms, coordVars
    <3> QED BY <1>0, <1>00, <3>1, DeferQueue
  <2> QED BY <1>1, <2>1, <2>2, <2>3, <2>4, <2>5, <2>6 DEF Environment
<1>2. CASE WorkerStep
  <2>1. CASE Boot \/ BootDone \/ BootReturns \/ WakeUp \/ SweepSaved \/ PickNext \/ Settle
             \/ DeferSaved \/ RetryElapses \/ RetryWoken \/ Publish
    BY <1>00, <2>1 DEF Boot, BootDone, BootReturns, WakeUp, SweepSaved, PickNext, Settle,
                       DeferSaved, RetryElapses, RetryWoken, Publish, Return, coordVars
  <2>2. CASE BootStale \/ BootSkip \/ Sweep
    <3>1. (\E x : DeferEvent(Worker, x)) \/ UNCHANGED coordVars
      BY <2>2 DEF BootStale, BootSkip, Sweep, Defers
    <3> QED BY <1>0, <1>00, <3>1, DeferQueue DEF coordVars
  <2>3. CASE SessionEnds
    <3>1. ASSUME NEW match, SessionFails(match) PROVE FALSE
      <4>1. (\E x : DeferEvent(Worker, x)) \/ UNCHANGED coordVars
        BY <3>1 DEF SessionFails
      <4> QED BY <1>0, <1>00, <4>1, DeferQueue DEF coordVars
    <3>2. ASSUME NEW r \in Recordings, SessionFindsDuplicate(r) PROVE Justified(e)
      <4>1. PICK x \in cur : r \in Matches[x] /\ CompleteEvent(Worker, x, {})
        BY <3>2 DEF SessionFindsDuplicate
      <4>2. e = x
        BY <1>0, <4>1, CompleteQueue
      <4>3. r \in Completing
        BY <3>2 DEF SessionFindsDuplicate, Completing
      <4> QED BY <4>1, <4>2, <4>3 DEF Justified
    <3>3. ASSUME NEW r \in Recordings, SessionSaves(r) PROVE Justified(e)
      <4>1. PICK x \in cur : r \in Matches[x] /\ CompleteEvent(Worker, x, {r})
        BY <3>3 DEF SessionSaves
      <4>2. e = x
        BY <1>0, <4>1, CompleteQueue
      <4>3. r \in Completing
        BY <3>3 DEF SessionSaves, Completing
      <4> QED BY <4>1, <4>2, <4>3 DEF Justified
    <3>4. ASSUME NEW r, SessionFinalizes(r) PROVE FALSE
      BY <1>00, <3>4 DEF SessionFinalizes, coordVars
    <3> QED BY <2>3, <3>1, <3>2, <3>3, <3>4 DEF SessionEnds
  <2> QED BY <1>2, <2>1, <2>2, <2>3 DEF WorkerStep
<1>3. CASE ButtonStep
  <2>1. (\E x : RearmEvent(Recover, x)) \/ queue' = queue
    BY <1>3 DEF ButtonStep, RecoverStep, Rearms, RecoverReturns, ClearSaved, Return, coordVars
  <2> QED BY <1>0, <1>00, <2>1, DeferQueue
<1>4. CASE UnloadReturns \/ Store \/ UNCHANGED vars
  BY <1>00, <1>4 DEF UnloadReturns, Store, StoreBegin, StoreWrite, Return, vars, coordVars
<1>5. ASSUME NEW x \in Events, IngestStep(x) PROVE FALSE
  <2>1. DeferEvent(x, x) \/ queue' = queue
    BY <1>5 DEF IngestStep, ArriveNotifies, ArriveDefers, IngestReturns, Return
  <2> QED BY <1>0, <1>00, <2>1, DeferQueue
<1> QED BY <1>1, <1>2, <1>3, <1>4, <1>5 DEF Next

\* An event leaves the queue because the recording just finalized for it is in place or one of
\* its recordings was remembered before, because the user cleared it while it was deferred,
\* because a full queue lost its oldest one, or because a crash lost it.
THEOREM NothingIsDropped == Spec => RemovalJustified
<1>1. FingerprintInv /\ [Next]_vars =>
        [\A e \in Pending \ IdsOf(queue'.pending) :
         \/ e \in cur /\ Matches[e] \intersect Completing # {}
         \/ e \in cleared' /\ e \in queue.deferred
         \/ Len(queue.pending) = MaxPending /\ e = Head(queue.pending)
         \/ restarts' # restarts /\ e \notin IdsOf(disk.pending)]_vars
  BY RemovalStep DEF FingerprintInv, Justified
<1> QED BY <1>1, FingerprintInductive, PTL DEF Spec, RemovalJustified

-----------------------------------------------------------------------------
(* A credit is used before its event is deferred *)

\* The camera was woken for the event that the worker has in a session or will retry.
Awake == at \in {"session", "ending", "retryWait"} => cur \subseteq woken

LEMMA AwakeStep ==
    ASSUME Awake, [Next]_vars
    PROVE  Awake'
<1> USE DEF envVars, setVars, workVars, buttonVars, histVars, Awake
<1>1. CASE Environment
  BY <1>1 DEF Environment, Arrive, PressRecover, PressClear, Tick, FileRemoved, UnloadEntry,
              StartUp
<1>2. CASE Boot \/ BootStale \/ BootSkip \/ BootDone \/ BootReturns
  BY <1>2 DEF Boot, BootStale, BootSkip, BootDone, BootReturns
<1>3. CASE WakeUp \/ Sweep \/ SweepSaved \/ PickNext \/ Settle
  BY <1>3 DEF WakeUp, StartSweep, Sweep, Defers, SweepSaved, PickNext, Settle
<1>4. CASE DeferSaved \/ RetryElapses \/ RetryWoken \/ Publish
  BY <1>4 DEF DeferSaved, StartSweep, RetryElapses, RetryWoken, Publish
<1>5. CASE SessionEnds
  <2>1. ASSUME NEW match, SessionFails(match) PROVE Awake'
    BY <2>1 DEF SessionFails, StartSweep
  <2>2. ASSUME NEW r, SessionFindsDuplicate(r) \/ SessionFinalizes(r) \/ SessionSaves(r)
        PROVE  Awake'
    BY <2>2 DEF SessionFindsDuplicate, SessionFinalizes, SessionSaves, StartSweep
  <2> QED BY <1>5, <2>1, <2>2 DEF SessionEnds
<1>6. CASE ButtonStep \/ UnloadReturns \/ Store
  BY <1>6 DEF ButtonStep, RecoverStep, RecoverReturns, ClearSaved, UnloadReturns, Store
<1>7. ASSUME NEW e \in Events, IngestStep(e) PROVE Awake'
  BY <1>7 DEF IngestStep, ArriveNotifies, ArriveDefers, IngestReturns
<1>8. CASE UNCHANGED vars
  BY <1>8 DEF vars
<1> QED BY <1>1, <1>2, <1>3, <1>4, <1>5, <1>6, <1>7, <1>8 DEF Next, WorkerStep

BootPlaces == {"boot", "bootStale", "bootSkip"}

\* Which steps defer an event: the set-up, the ingesting task without wake permission, the sweep
\* of overdue events, and a session that gives up.
LEMMA DeferredStep ==
    ASSUME WInv, [Next]_vars, restarts' = restarts, NEW e \in queue'.deferred \ queue.deferred
    PROVE  \/ at \in BootPlaces
           \/ ingest[e] = "defer" /\ ArriveDefers(e)
           \/ e \in Overdue
           \/ at \in {"session", "ending"} /\ e \in cur
<1>0. IInv /\ restarts \in Nat /\ todo \in Seq(Events)
  BY DEF WInv, WorkerTypeOK
<1>1. CASE Environment
  <2>1. ASSUME NEW x \in Events, NEW wake \in BOOLEAN, Arrive(x, wake) PROVE FALSE
    BY <1>0, <2>1, IngestQueue DEF Arrive
  <2>2. CASE PressClear
    BY <1>0, <2>2, ClearQueue DEF PressClear
  <2>3. CASE StartUp
    BY <1>0, <2>3 DEF StartUp
  <2>4. CASE UnloadEntry \/ Tick \/ \E r \in Recordings : FileRemoved(r)
    BY <2>4 DEF UnloadEntry, Shutdown, Commit, Tick, FileRemoved, coordVars
  <2>5. CASE PressRecover
    <3>1. (\E x : RearmEvent(Recover, x)) \/ queue' = queue
      BY <2>5 DEF PressRecover, Rearms, coordVars
    <3> QED BY <1>0, <3>1, DeferQueue
  <2> QED BY <1>1, <2>1, <2>2, <2>3, <2>4, <2>5 DEF Environment
<1>2. CASE WorkerStep
  <2>1. CASE Boot \/ BootStale \/ BootSkip \/ BootDone \/ BootReturns
    BY <2>1 DEF Boot, BootStale, BootSkip, BootDone, BootReturns, BootPlaces
  <2>2. CASE WakeUp \/ SweepSaved \/ PickNext \/ Settle \/ DeferSaved \/ RetryElapses
             \/ RetryWoken \/ Publish
    BY <2>2 DEF WakeUp, SweepSaved, PickNext, Settle, DeferSaved, RetryElapses, RetryWoken,
                Publish, Return, coordVars
  <2>3. CASE Sweep
    <3>1. DeferEvent(Worker, First(todo, Overdue)) /\ Overdue # {}
      BY <2>3 DEF Sweep, Defers
    <3>2. IdsOf(todo) \intersect Overdue # {}
      BY <3>1 DEF Overdue
    <3>3. First(todo, Overdue) \in Overdue
      BY <1>0, <3>2, FirstAfter
    <3> QED BY <1>0, <3>1, <3>3, DeferQueue
  <2>4. CASE SessionEnds
    <3>1. ASSUME NEW match, SessionFails(match)
          PROVE  at \in {"session", "ending"} /\ e \in cur
      <4>1. /\ at \in {"session", "ending"}
            /\ (\E x \in cur : DeferEvent(Worker, x)) \/ UNCHANGED coordVars
        BY <3>1 DEF SessionFails
      <4> QED BY <1>0, <4>1, DeferQueue DEF coordVars
    <3>2. ASSUME NEW r, SessionFindsDuplicate(r) \/ SessionFinalizes(r) \/ SessionSaves(r)
          PROVE  FALSE
      <4>1. (\E x, recs : CompleteEvent(Worker, x, recs)) \/ queue' = queue
        BY <3>2 DEF SessionFindsDuplicate, SessionFinalizes, SessionSaves, coordVars
      <4> QED BY <1>0, <4>1, CompleteQueue
    <3> QED BY <2>4, <3>1, <3>2 DEF SessionEnds
  <2> QED BY <1>2, <2>1, <2>2, <2>3, <2>4 DEF WorkerStep
<1>3. CASE ButtonStep
  <2>1. (\E x : RearmEvent(Recover, x)) \/ queue' = queue
    BY <1>3 DEF ButtonStep, RecoverStep, Rearms, RecoverReturns, ClearSaved, Return, coordVars
  <2> QED BY <1>0, <2>1, DeferQueue
<1>4. CASE UnloadReturns \/ Store \/ UNCHANGED vars
  BY <1>4 DEF UnloadReturns, Store, StoreBegin, StoreWrite, Return, vars, coordVars
<1>5. ASSUME NEW x \in Events, IngestStep(x) PROVE ingest[e] = "defer" /\ ArriveDefers(e)
  <2>1. (ArriveDefers(x) /\ ingest[x] = "defer" /\ DeferEvent(x, x)) \/ queue' = queue
    BY <1>5 DEF IngestStep, ArriveNotifies, ArriveDefers, IngestReturns, Return
  <2> QED BY <1>0, <2>1, DeferQueue
<1> QED BY <1>1, <1>2, <1>3, <1>4, <1>5 DEF Next

\* The running worker defers an event that holds a first-attempt credit only after it woke the
\* camera for it.
THEOREM CreditIsKept == Spec => CreditKept
<1>1. Init => Awake
  BY DEF Init, Awake
<1>2. Awake /\ [Next]_vars => Awake'
  BY AwakeStep
<1>3. WInv /\ Awake /\ [Next]_vars =>
        [at \notin {"boot", "bootStale", "bootSkip"} =>
           DeferredByWorker \intersect credit \subseteq woken]_vars
  <2> SUFFICES ASSUME WInv, Awake, [Next]_vars, at \notin BootPlaces,
                      NEW e \in DeferredByWorker, e \in credit
               PROVE  e \in woken
    BY DEF BootPlaces
  <2>1. restarts' = restarts /\ e \in queue'.deferred \ queue.deferred /\ ingest[e] # "defer"
    BY DEF DeferredByWorker
  <2>2. e \notin Overdue
    BY DEF Overdue
  <2>3. at \in {"session", "ending"} /\ e \in cur
    BY <2>1, <2>2, DeferredStep
  <2> QED BY <2>3 DEF Awake
<1> QED BY <1>1, <1>2, <1>3, WorkerInductive, PTL DEF Spec, CreditKept

-----------------------------------------------------------------------------
(* No wake-up is lost *)

\* The worker has not started to run yet, or waits for its trigger.
Resting == at \in BootPlaces \union {"idle"}

\* What it may choose meanwhile is what an ingesting task is about to settle.
NothingWaits ==
    Resting /\ ~trigger /\ ~recovering => \A e \in Candidates : ingest[e] # "none"

\* An event becomes a candidate only with a new permission or by entering the queue.
LEMMA NoNewCandidates ==
    ASSUME WInv, now' = now \/ now' = now + 1,
           activated' \subseteq activated, manual' \subseteq manual, credit' \subseteq credit,
           NEW e \in Candidates',
           e \in IdsOf(queue'.pending) \ queue'.deferred => e \in Pending \ queue.deferred
    PROVE  e \in Candidates
<1>1. /\ e \in Android /\ e \in IdsOf(queue'.pending) \ queue'.deferred
      /\ e \in manual' \/ e \in credit' \/ (e \in activated' /\ Fresh(e)')
  BY DEF Candidates, Pending
<1>2. Fresh(e)' => Fresh(e)
  <2>1. EventTime[e] \in Nat /\ MaxAge \in Nat /\ now \in Nat
    BY <1>1, WorkerAssumption DEF WInv, WorkerTypeOK
  <2> QED BY <2>1 DEF Fresh, FreshAt
<1> QED BY <1>1, <1>2 DEF Candidates

\* A step that permits nothing, ends no ingesting and puts nothing into the queue.
LEMMA StillNothingWaits ==
    ASSUME WInv, NothingWaits, now' = now \/ now' = now + 1,
           activated' \subseteq activated, manual' \subseteq manual, credit' \subseteq credit,
           IdsOf(queue'.pending) \ queue'.deferred \subseteq Pending \ queue.deferred,
           Resting' => Resting, trigger' = trigger, recovering' = recovering, ingest' = ingest
    PROVE  NothingWaits'
<1> SUFFICES ASSUME Resting', ~trigger', ~recovering', NEW e \in Candidates'
             PROVE  ingest'[e] # "none"
  BY DEF NothingWaits
<1>1. e \in Candidates
  BY NoNewCandidates
<1> QED BY <1>1 DEF NothingWaits

LEMMA NothingWaitsStep ==
    ASSUME WInv, NothingWaits, [Next]_vars
    PROVE  NothingWaits'
<1>0. IInv /\ ingest \in [Events -> {"none", "notify", "defer"}] /\ Pending \subseteq Events
  BY QueueTypes DEF WInv, WorkerTypeOK
<1>00. queue \in QueueType /\ QueueOK(queue)
  BY <1>0 DEF IInv, CoordTypeOK, QueueConsistent
<1> USE DEF envVars, setVars, workVars, buttonVars, histVars
<1>1. CASE Environment
  <2>1. ASSUME NEW x \in Events, NEW wake \in BOOLEAN, Arrive(x, wake) PROVE NothingWaits'
    <3>1. /\ UNCHANGED <<now, setVars, recovering, at>>
          /\ ingest' = [ingest EXCEPT ![x] = IF wake THEN "notify"
                                             ELSE IF x \in Android THEN "defer" ELSE "none"]
      BY <2>1 DEF Arrive
    <3>2. queue' = Enqueue(queue, x) /\ Accepts(queue, x)
      BY <2>1, IngestOne DEF Arrive, IngestEvents, Commit
    <3> SUFFICES ASSUME Resting', ~trigger', ~recovering', NEW e \in Candidates'
                 PROVE  ingest'[e] # "none"
      BY DEF NothingWaits
    <3>3. e \in Android /\ e \in IdsOf(queue'.pending) \ queue'.deferred /\ e \in Events
      BY WorkerAssumption DEF Candidates, Pending
    <3>4. CASE e = x
      BY <1>0, <3>1, <3>3, <3>4
    <3>5. CASE e # x
      <4>1. e \in Pending \ queue.deferred
        BY <1>00, <3>2, <3>3, <3>5, EnqueueKeepsDeferrals DEF Pending
      <4>2. e \in Candidates
        BY <3>1, <4>1, NoNewCandidates
      <4>3. Resting /\ ~trigger /\ ~recovering
        BY <3>1 DEF Resting
      <4> QED BY <1>0, <3>1, <3>3, <3>5, <4>2, <4>3 DEF NothingWaits
    <3> QED BY <3>4, <3>5
  <2>2. CASE PressRecover \/ UnloadEntry
    <3>1. recovering' \/ trigger'
      BY <2>2 DEF PressRecover, Rearms, MakesManual, UnloadEntry
    <3> QED BY <3>1 DEF NothingWaits
  <2>3. CASE PressClear
    <3>1. IdsOf(queue'.pending) \ queue'.deferred \subseteq Pending \ queue.deferred
      BY <1>0, <2>3, ClearQueue DEF PressClear
    <3> QED BY <2>3, <3>1, StillNothingWaits DEF PressClear, Resting
  <2>4. CASE Tick \/ \E r \in Recordings : FileRemoved(r)
    BY <2>4, StillNothingWaits DEF Tick, FileRemoved, Resting, coordVars, Pending
  <2>5. CASE StartUp
    BY <2>5 DEF StartUp, NothingWaits, Candidates
  <2> QED BY <1>1, <2>1, <2>2, <2>3, <2>4, <2>5 DEF Environment
<1>2. CASE WorkerStep
  <2>1. CASE Boot \/ BootStale \/ BootSkip \/ BootReturns
    <3>1. (\E x : DeferEvent(Worker, x)) \/ queue' = queue
      BY <2>1 DEF Boot, BootStale, BootSkip, BootReturns, Return, coordVars
    <3>2. IdsOf(queue'.pending) \ queue'.deferred \subseteq Pending \ queue.deferred
      BY <1>0, <3>1, DeferQueue DEF Pending
    <3>3. UNCHANGED <<now, activated, manual, credit, trigger, recovering, ingest>> /\ Resting
      BY <2>1 DEF Boot, BootStale, BootSkip, BootReturns, Resting, BootPlaces
    <3> QED BY <3>2, <3>3, StillNothingWaits
  <2>2. CASE BootDone
    <3>1. CASE cur = {}
      <4>1. UNCHANGED <<now, queue, activated, manual, credit, trigger, recovering, ingest>>
        BY <2>2, <3>1 DEF BootDone, coordVars
      <4>2. Resting
        BY <2>2 DEF BootDone, Resting, BootPlaces
      <4> QED BY <4>1, <4>2, StillNothingWaits DEF Pending
    <3>2. CASE cur # {}
      BY <2>2, <3>2 DEF BootDone, Notify, NothingWaits
    <3> QED BY <3>1, <3>2
  <2>3. CASE PickNext
    <3>1. at' = "idle" => Candidates' = {}
      BY <2>3 DEF PickNext, Candidates, Pending, Fresh, FreshAt, coordVars
    <3>2. at' \notin BootPlaces
      BY <2>3 DEF PickNext, BootPlaces
    <3> QED BY <3>1, <3>2 DEF NothingWaits, Resting
  <2>4. CASE WakeUp \/ Sweep \/ SweepSaved \/ Settle \/ DeferSaved \/ RetryElapses \/ RetryWoken
             \/ Publish
    <3>1. at' \in {"done", "sweep", "sweepSave", "session", "retryWait"}
      BY <2>4 DEF WakeUp, Sweep, Defers, SweepSaved, Settle, DeferSaved, RetryElapses,
                  RetryWoken, Publish, StartSweep
    <3> QED BY <3>1 DEF NothingWaits, Resting, BootPlaces
  <2>5. CASE SessionEnds
    <3>1. at' \in {"done", "sweep", "ending", "retryWait", "deferSave", "completeSave"}
      BY <2>5 DEF SessionEnds, SessionFails, SessionFindsDuplicate, SessionFinalizes,
                  SessionSaves, StartSweep
    <3> QED BY <3>1 DEF NothingWaits, Resting, BootPlaces
  <2> QED BY <1>2, <2>1, <2>2, <2>3, <2>4, <2>5 DEF WorkerStep
<1>3. CASE ButtonStep
  <2>1. CASE RecoverStep
    <3>1. recovering' \/ trigger'
      BY <2>1 DEF RecoverStep, Rearms, MakesManual
    <3> QED BY <3>1 DEF NothingWaits
  <2>2. CASE RecoverReturns /\ MakesManual(recoverIds)
    BY <2>2 DEF MakesManual, NothingWaits
  <2>3. CASE RecoverReturns /\ UNCHANGED <<setVars, recovering>>
    BY <2>3, StillNothingWaits DEF RecoverReturns, Return, Resting, Pending
  <2>4. CASE ClearSaved
    BY <2>4, StillNothingWaits DEF ClearSaved, Forget, Return, Resting, Pending
  <2> QED BY <1>3, <2>1, <2>2, <2>3, <2>4 DEF ButtonStep, RecoverReturns
<1>4. CASE UnloadReturns \/ Store \/ UNCHANGED vars
  BY <1>4, StillNothingWaits
  DEF UnloadReturns, Store, StoreBegin, StoreWrite, Return, vars, coordVars, Resting, Pending
<1>5. ASSUME NEW x \in Events, IngestStep(x) PROVE NothingWaits'
  <2>1. CASE ArriveNotifies(x)
    BY <2>1 DEF ArriveNotifies, Notify, NothingWaits
  <2>2. CASE ArriveDefers(x)
    <3>1. /\ UNCHANGED <<now, setVars, recovering, at>>
          /\ ingest' = [ingest EXCEPT ![x] = "none"] /\ DeferEvent(x, x)
      BY <2>2 DEF ArriveDefers
    <3>2. queue'.pending = queue.pending
          /\ queue'.deferred = queue.deferred \union (Pending \intersect {x})
      BY <1>0, <3>1, DeferQueue
    <3> SUFFICES ASSUME Resting', ~trigger', ~recovering', NEW e \in Candidates'
                 PROVE  ingest'[e] # "none"
      BY DEF NothingWaits
    <3>3. e \in IdsOf(queue'.pending) \ queue'.deferred
      BY DEF Candidates, Pending
    <3>4. e # x /\ e \in Pending \ queue.deferred
      BY <3>2, <3>3 DEF Pending
    <3>5. e \in Candidates
      BY <3>1, <3>4, NoNewCandidates
    <3> QED BY <1>0, <3>1, <3>4, <3>5 DEF NothingWaits, Resting
  <2>3. CASE IngestReturns(x)
    BY <2>3, StillNothingWaits DEF IngestReturns, Return, Resting, Pending
  <2> QED BY <1>5, <2>1, <2>2, <2>3 DEF IngestStep
<1> QED BY <1>1, <1>2, <1>3, <1>4, <1>5 DEF Next

\* A worker that waits for its trigger has no work, except what an ingesting task is about to
\* notify or to defer.
THEOREM WakeUpsArrive == Spec => []NoLostWakeup
<1>1. Init => NothingWaits
  BY DEF Init, NothingWaits, Candidates
<1>2. WInv /\ NothingWaits /\ [Next]_vars => NothingWaits'
  BY NothingWaitsStep
<1>3. NothingWaits => NoLostWakeup
  BY DEF NothingWaits, NoLostWakeup, Resting
<1> QED BY <1>1, <1>2, <1>3, WorkerInductive, PTL DEF Spec

-----------------------------------------------------------------------------
(* Of the backlog at most one event wakes the camera *)

AtMostOne(S) == \A x, y \in S : x = y

\* Events that woke the camera or still may.
Reach == woken \union activated \union credit \union (IF at = "settle" THEN cur ELSE {})

\* What an earlier run left is known, so no notification of it is ingested; the set-up chooses one
\* event of it, and nothing else permits another one that the user did not ask for.
StartupOK ==
    /\ backlog \subseteq queue.seen
    /\ \A e \in backlog : ingest[e] # "notify"
    /\ AtMostOne((Reach \intersect backlog) \ asked)
    /\ at \in BootPlaces => (Reach \intersect backlog) \subseteq asked /\ AtMostOne(cur)

\* While the dedupe list has room nothing that is known is forgotten before a restart.
LEMMA SeenGrows ==
    ASSUME IsFiniteSet(Events), Cardinality(Events) <= MaxProcessed, WInv, [Next]_vars, ~StartUp
    PROVE  queue.seen \subseteq queue'.seen
<1>0. IInv /\ queue \in QueueType /\ QueueOK(queue)
  BY DEF WInv, IInv, CoordTypeOK, QueueConsistent
<1>1. CASE Environment
  <2>1. ASSUME NEW e \in Events, NEW wake \in BOOLEAN, Arrive(e, wake)
        PROVE  queue.seen \subseteq queue'.seen
    <3>1. queue' = Enqueue(queue, e) /\ Accepts(queue, e)
      BY <2>1, IngestOne DEF Arrive, IngestEvents, Commit
    <3> QED BY <1>0, <3>1, EnqueueRemembers
  <2>2. CASE PressClear
    BY <1>0, <2>2, ClearQueue DEF PressClear
  <2>3. CASE UnloadEntry \/ Tick \/ \E r \in Recordings : FileRemoved(r)
    BY <2>3 DEF UnloadEntry, Shutdown, Commit, Tick, FileRemoved, coordVars
  <2>4. CASE PressRecover
    <3>1. (\E x : RearmEvent(Recover, x)) \/ queue' = queue
      BY <2>4 DEF PressRecover, Rearms, coordVars
    <3> QED BY <1>0, <3>1, DeferQueue
  <2> QED BY <1>1, <2>1, <2>2, <2>3, <2>4 DEF Environment
<1>2. CASE WorkerStep
  <2>1. \/ \E e : DeferEvent(Worker, e)
        \/ \E e, recs : CompleteEvent(Worker, e, recs)
        \/ queue' = queue
    <3>1. CASE SessionEnds
      BY <3>1 DEF SessionEnds, SessionFails, SessionFindsDuplicate, SessionFinalizes,
                  SessionSaves, coordVars
    <3>2. CASE Boot \/ BootStale \/ BootSkip \/ BootDone \/ BootReturns
      BY <3>2 DEF Boot, BootStale, BootSkip, BootDone, BootReturns, Return, coordVars
    <3>3. CASE WakeUp \/ Sweep \/ SweepSaved \/ PickNext \/ Settle
      BY <3>3 DEF WakeUp, Sweep, Defers, SweepSaved, PickNext, Settle, Return, coordVars
    <3>4. CASE DeferSaved \/ RetryElapses \/ RetryWoken \/ Publish
      BY <3>4 DEF DeferSaved, RetryElapses, RetryWoken, Publish, Return, coordVars
    <3> QED BY <1>2, <3>1, <3>2, <3>3, <3>4 DEF WorkerStep
  <2> QED BY <1>0, <2>1, DeferQueue, CompleteQueue
<1>3. CASE ButtonStep
  <2>1. (\E x : RearmEvent(Recover, x)) \/ queue' = queue
    BY <1>3 DEF ButtonStep, RecoverStep, Rearms, RecoverReturns, ClearSaved, Return, coordVars
  <2> QED BY <1>0, <2>1, DeferQueue
<1>4. CASE UnloadReturns \/ Store \/ UNCHANGED vars
  BY <1>4 DEF UnloadReturns, Store, StoreBegin, StoreWrite, Return, vars, coordVars
<1>5. ASSUME NEW x \in Events, IngestStep(x) PROVE queue.seen \subseteq queue'.seen
  <2>1. DeferEvent(x, x) \/ queue' = queue
    BY <1>5 DEF IngestStep, ArriveNotifies, ArriveDefers, IngestReturns, Return
  <2> QED BY <1>0, <2>1, DeferQueue
<1> QED BY <1>1, <1>2, <1>3, <1>4, <1>5 DEF Next

\* A step that gives no event of the backlog a permission nobody asked for.
LEMMA NoneOfTheBacklog ==
    ASSUME StartupOK, queue.seen \subseteq queue'.seen, backlog' = backlog, asked \subseteq asked',
           Reach' \intersect backlog \subseteq Reach \union asked',
           \A e \in backlog : ingest'[e] = "notify" => ingest[e] = "notify",
           at' \in BootPlaces => at \in BootPlaces /\ AtMostOne(cur')
    PROVE  StartupOK'
<1>1. (Reach' \intersect backlog') \ asked' \subseteq (Reach \intersect backlog) \ asked
  OBVIOUS
<1>2. AtMostOne((Reach' \intersect backlog') \ asked')
  BY <1>1 DEF StartupOK, AtMostOne
<1>3. at' \in BootPlaces => (Reach' \intersect backlog') \subseteq asked'
  BY <1>1 DEF StartupOK
<1> QED BY <1>2, <1>3 DEF StartupOK, AtMostOne

LEMMA StartupStep ==
    ASSUME IsFiniteSet(Events), Cardinality(Events) <= MaxProcessed, WInv, WInv', WakesOK,
           StartupOK, [Next]_vars
    PROVE  StartupOK'
<1>0. ingest \in [Events -> {"none", "notify", "defer"}] /\ backlog \subseteq Events
  BY DEF WInv, WorkerTypeOK
<1>00. ~StartUp => queue.seen \subseteq queue'.seen
  BY SeenGrows
<1> USE DEF envVars, setVars, workVars, buttonVars, histVars
<1>1. CASE StartUp
  <2>1. /\ backlog' = IdsOf(queue'.pending) /\ ingest' = [e \in Events |-> "none"]
        /\ woken' = {} /\ activated' = {} /\ credit' = {} /\ at' = "boot" /\ cur' = {}
    BY <1>1 DEF StartUp
  <2>2. backlog' \subseteq queue'.seen /\ backlog' \subseteq Events
    BY <2>1 DEF WInv, IInv, QueueConsistent, QueueOK, WorkerTypeOK
  <2>3. Reach' = {}
    BY <2>1 DEF Reach
  <2> QED BY <2>1, <2>2, <2>3 DEF StartupOK, AtMostOne
<1>2. CASE BootDone
  <2>1. at = "bootSkip" /\ at' = "idle" /\ UNCHANGED <<backlog, woken, asked, ingest, queue>>
        /\ activated' \subseteq activated \union cur /\ credit' \subseteq credit \union cur
    BY <1>2 DEF BootDone, Notify, coordVars
  <2>2. Reach' \subseteq Reach \union cur
    BY <2>1 DEF Reach
  <2>3. (Reach' \intersect backlog') \ asked' \subseteq cur /\ AtMostOne(cur)
    BY <2>1, <2>2 DEF StartupOK, BootPlaces
  <2>4. AtMostOne((Reach' \intersect backlog') \ asked')
    BY <2>3 DEF AtMostOne
  <2> QED BY <2>1, <2>4 DEF StartupOK, BootPlaces
<1>3. ASSUME Environment, ~StartUp PROVE StartupOK'
  <2>1. /\ UNCHANGED <<backlog, woken, credit, at, cur>> /\ asked \subseteq asked'
        /\ activated' \subseteq activated \union asked'
    BY <1>3 DEF Environment, Arrive, PressRecover, Rearms, MakesManual, PressClear, Tick,
                FileRemoved, UnloadEntry
  <2>2. \A e \in backlog : ingest'[e] = "notify" => ingest[e] = "notify"
    <3>1. ASSUME NEW x \in Events, NEW wake \in BOOLEAN, Arrive(x, wake), NEW e \in backlog
          PROVE  ingest'[e] = ingest[e]
      <4>1. x \notin queue.seen
        BY <3>1 DEF Arrive, Accepts
      <4>2. e # x
        BY <3>1, <4>1 DEF StartupOK
      <4> QED BY <1>0, <3>1, <4>2 DEF Arrive
    <3> QED BY <1>3, <3>1 DEF Environment, PressRecover, PressClear, Tick, FileRemoved,
                              UnloadEntry
  <2>3. Reach' \subseteq Reach \union asked'
    BY <2>1 DEF Reach
  <2> QED BY <1>00, <1>3, <2>1, <2>2, <2>3, NoneOfTheBacklog DEF StartupOK
<1>4. ASSUME WorkerStep, ~StartUp, ~BootDone PROVE StartupOK'
  <2>1. UNCHANGED <<backlog, asked, ingest>>
    <3>1. CASE SessionEnds
      BY <3>1 DEF SessionEnds, SessionFails, SessionFindsDuplicate, SessionFinalizes, SessionSaves
    <3>2. CASE Boot \/ BootStale \/ BootSkip \/ BootReturns
      BY <3>2 DEF Boot, BootStale, BootSkip, BootReturns
    <3>3. CASE WakeUp \/ Sweep \/ SweepSaved \/ PickNext \/ Settle
      BY <3>3 DEF WakeUp, Sweep, SweepSaved, PickNext, Settle
    <3>4. CASE DeferSaved \/ RetryElapses \/ RetryWoken \/ Publish
      BY <3>4 DEF DeferSaved, RetryElapses, RetryWoken, Publish
    <3> QED BY <1>4, <3>1, <3>2, <3>3, <3>4 DEF WorkerStep
  <2>2. Reach' \subseteq Reach \union asked'
    <3>1. CASE PickNext
      <4>1. SelectFrom(Candidates) \subseteq Candidates
        BY QueueTypes, SelectFromChooses DEF Candidates, WInv
      <4>2. Candidates \subseteq activated \union credit \union asked
        BY DEF Candidates, WakesOK
      <4> QED BY <2>1, <3>1, <4>1, <4>2 DEF PickNext, Reach
    <3>2. CASE Settle
      BY <3>2 DEF Settle, Reach
    <3>3. CASE SessionEnds
      <4>1. /\ UNCHANGED woken /\ activated' \subseteq activated /\ credit' \subseteq credit
            /\ at' # "settle"
        <5>1. ASSUME NEW match, SessionFails(match)
              PROVE  /\ UNCHANGED woken /\ activated' \subseteq activated
                     /\ credit' \subseteq credit /\ at' # "settle"
          BY <5>1 DEF SessionFails, Forget, StartSweep
        <5>2. ASSUME NEW r, SessionFindsDuplicate(r) \/ SessionFinalizes(r) \/ SessionSaves(r)
              PROVE  /\ UNCHANGED woken /\ activated' \subseteq activated
                     /\ credit' \subseteq credit /\ at' # "settle"
          BY <5>2 DEF SessionFindsDuplicate, SessionFinalizes, SessionSaves, Forget, StartSweep
        <5> QED BY <3>3, <5>1, <5>2 DEF SessionEnds
      <4> QED BY <4>1 DEF Reach
    <3>4. CASE Boot \/ BootStale \/ BootSkip \/ BootReturns
      BY <3>4 DEF Boot, BootStale, BootSkip, BootReturns, Reach
    <3>5. CASE WakeUp \/ Sweep \/ SweepSaved
      BY <3>5 DEF WakeUp, StartSweep, Sweep, Defers, SweepSaved, Forget, Reach
    <3>6. CASE DeferSaved \/ RetryElapses \/ RetryWoken \/ Publish
      BY <3>6 DEF DeferSaved, RetryElapses, RetryWoken, Publish, StartSweep, Forget, Reach
    <3> QED BY <1>4, <3>1, <3>2, <3>3, <3>4, <3>5, <3>6 DEF WorkerStep
  <2>3. at' \in BootPlaces => at \in BootPlaces /\ AtMostOne(cur')
    <3>1. CASE Boot \/ BootSkip \/ BootReturns
      BY <3>1 DEF Boot, BootSkip, BootReturns, StartupOK, BootPlaces
    <3>2. CASE BootStale
      <4>1. cur' = cur \/ \E ids : cur' = SelectFrom(ids)
        BY <3>2 DEF BootStale
      <4>2. AtMostOne(cur) /\ at \in BootPlaces
        BY <3>2 DEF BootStale, StartupOK, BootPlaces
      <4>3. \A ids : AtMostOne(SelectFrom(ids))
        BY DEF SelectFrom, AtMostOne
      <4> QED BY <4>1, <4>2, <4>3
    <3>3. CASE WakeUp \/ Sweep \/ SweepSaved \/ PickNext \/ Settle \/ DeferSaved \/ RetryElapses
               \/ RetryWoken \/ Publish
      BY <3>3 DEF WakeUp, Sweep, Defers, SweepSaved, PickNext, Settle, DeferSaved, RetryElapses,
                  RetryWoken, Publish, StartSweep, BootPlaces
    <3>4. CASE SessionEnds
      BY <3>4 DEF SessionEnds, SessionFails, SessionFindsDuplicate, SessionFinalizes,
                  SessionSaves, StartSweep, BootPlaces
    <3> QED BY <1>4, <3>1, <3>2, <3>3, <3>4 DEF WorkerStep
  <2> QED BY <1>00, <1>4, <2>1, <2>2, <2>3, NoneOfTheBacklog
<1>5. ASSUME ButtonStep, ~StartUp PROVE StartupOK'
  <2>1. UNCHANGED <<backlog, woken, asked, ingest, at, cur>>
    BY <1>5 DEF ButtonStep, RecoverStep, RecoverReturns, ClearSaved
  <2>2. activated' \subseteq activated \union asked /\ credit' \subseteq credit
    BY <1>5 DEF ButtonStep, RecoverStep, RecoverReturns, Rearms, MakesManual, ClearSaved,
                Forget, WakesOK
  <2>3. Reach' \subseteq Reach \union asked'
    BY <2>1, <2>2 DEF Reach
  <2> QED BY <1>00, <1>5, <2>1, <2>3, NoneOfTheBacklog DEF StartupOK
<1>6. ASSUME UnloadReturns \/ Store \/ UNCHANGED vars, ~StartUp PROVE StartupOK'
  <2>1. UNCHANGED <<backlog, woken, asked, ingest, at, cur, activated, credit>>
    BY <1>6 DEF UnloadReturns, Store, vars
  <2>2. Reach' = Reach
    BY <2>1 DEF Reach
  <2> QED BY <1>00, <1>6, <2>1, <2>2, NoneOfTheBacklog DEF StartupOK
<1>7. ASSUME NEW x \in Events, IngestStep(x), ~StartUp PROVE StartupOK'
  <2>1. /\ UNCHANGED <<backlog, woken, asked, at, cur>>
        /\ activated' \subseteq activated \union {x} /\ credit' \subseteq credit \union {x}
        /\ ingest[x] # "notify" => UNCHANGED <<activated, credit>>
        /\ ingest' = ingest \/ ingest' = [ingest EXCEPT ![x] = "none"]
    BY <1>7 DEF IngestStep, ArriveNotifies, ArriveDefers, IngestReturns, Notify
  <2>2. \A e \in backlog : ingest'[e] = "notify" => ingest[e] = "notify"
    BY <1>0, <2>1
  <2>3. Reach' \intersect backlog \subseteq Reach
    BY <2>1 DEF StartupOK, Reach
  <2> QED BY <1>00, <1>7, <2>1, <2>2, <2>3, NoneOfTheBacklog DEF StartupOK
<1> QED BY <1>1, <1>2, <1>3, <1>4, <1>5, <1>6, <1>7 DEF Next

\* While the dedupe list has room, at most one event left by an earlier run wakes the camera
\* without being asked for.
THEOREM StartupWakesOne ==
    ASSUME IsFiniteSet(Events)
    PROVE  Spec => []StartupWakesAtMostOne
<1>1. CASE Cardinality(Events) <= MaxProcessed
  <2>1. Init => WakesOK /\ StartupOK
    BY DEF Init, WakesOK, StaleNeverWakes, StartupOK, AtMostOne, Reach
  <2>2. WInv /\ WakesOK /\ StartupOK /\ [Next]_vars => WInv' /\ WakesOK' /\ StartupOK'
    BY <1>1, StepWInv, WakesStep, StartupStep
  <2>3. StartupOK => StartupWakesAtMostOne
    <3> DEFINE S == (woken \intersect backlog) \ asked
    <3> SUFFICES ASSUME StartupOK PROVE Cardinality(S) <= 1
      BY DEF StartupWakesAtMostOne
    <3>1. S \subseteq (Reach \intersect backlog) \ asked
      BY DEF Reach
    <3>2. \A x, y \in S : x = y
      BY <3>1 DEF StartupOK, AtMostOne
    <3> HIDE DEF S
    <3>3. S = {} \/ \E x : S = {x}
      BY <3>2
    <3>4. CASE S = {}
      BY <3>4, FS_EmptySet
    <3>5. CASE \E x : S = {x}
      <4>1. PICK x : S = {x}
        BY <3>5
      <4>2. Cardinality({x}) = 1
        BY FS_Singleton
      <4> QED BY <4>1, <4>2
    <3> QED BY <3>3, <3>4, <3>5
  <2> QED BY <2>1, <2>2, <2>3, WorkerInductive, PTL DEF Spec
<1>2. CASE ~(Cardinality(Events) <= MaxProcessed)
  <2>1. StartupWakesAtMostOne
    BY <1>2 DEF StartupWakesAtMostOne
  <2> QED BY <2>1, PTL
<1> QED BY <1>1, <1>2
=============================================================================
