---------------------- MODULE NotificationBridgeProofs ----------------------
(***************************************************************************)
(* The bridge uses the coordinator as CoordSpec allows; the worker is      *)
(* notified of an event once and only when the event is on disk; no event  *)
(* is left in limbo; rapid reposts collapse while the updates do not       *)
(* overlap.  For any notifications, updates, bounds and restarts.          *)
(***************************************************************************)
EXTENDS NotificationBridge, CoordinatorProofs

Places == {"source", "defer", "deferred", "resume", "promoted", "done"}

Jobs == [at : Places, source : Sources, seen : Nat, repost : BOOLEAN, recent : BOOLEAN,
         wake : BOOLEAN]

Dropped == [at |-> "done"]

BridgeTypeOK ==
    /\ now \in Nat
    /\ job \in [Tasks -> Jobs \union {NoJob, Dropped}]
    /\ shown \in Sources \union {Nothing}
    /\ lastSource \subseteq Events /\ lastAt \subseteq Nat
    /\ backlog \subseteq Events /\ disturbed \in BOOLEAN /\ promotions \subseteq Tasks
    /\ wakes \in [Events -> Nat]

\* A task is in line for the Store once, and only at its three saves.
SavingOK ==
    /\ Distinct(savers)
    /\ \A t \in Tasks : Saving(t) => job[t].at \in {"source", "deferred", "promoted"}

BInv == IInv /\ BridgeTypeOK /\ SavingOK

-----------------------------------------------------------------------------
(* The kinds of steps, as the coordinator and the worker see them *)

\* The event a task has on its hands.
EventOf(t) == IF job[t].at = "promoted" THEN Promoted(job[t].source, t) ELSE job[t].source

\* The task waits for the save of a new event.
Flying(t) == job[t].at \in {"source", "promoted"}

OnlyJob(t) == \A u \in Tasks \ {t} : job'[u] = job[u]

\* A new event goes into the queue.
Takes(t, e) ==
    /\ ~Saving(t) /\ Accepts(queue, e) /\ IngestEvents(t, << e >>)
    /\ ~Flying(t) /\ job[t].at # "defer"
    /\ OnlyJob(t) /\ Flying(t)' /\ EventOf(t)' = e
    /\ UNCHANGED <<wakes, backlog>>

\* A save returns; the worker may be notified of what was saved.
Lands(t) ==
    /\ Return(t) /\ OnlyJob(t) /\ UNCHANGED backlog
    /\ job[t].at \in {"source", "deferred", "promoted"}
    /\ \/ /\ job'[t].at \in {"resume", "done"} /\ Flying(t)
          /\ wakes' = [wakes EXCEPT ![EventOf(t)] = @ + 1]
       \/ /\ job'[t].at = "defer" /\ job[t].at = "source" /\ job'[t].source = job[t].source
          /\ wakes' = wakes
       \/ /\ job'[t].at = "resume" /\ job[t].at = "deferred" /\ wakes' = wakes

\* A stale event is deferred.
Sleeps(t) ==
    /\ job[t].at = "defer" /\ ~Saving(t) /\ DeferEvent(t, job[t].source)
    /\ OnlyJob(t) /\ UNCHANGED <<wakes, backlog>>
    /\ job'[t].at = IF job[t].source \in IdsOf(queue.pending) THEN "deferred" ELSE "resume"

\* A task is over, or nothing happens to the tasks.
Idles ==
    /\ UNCHANGED <<coordVars, wakes, backlog>>
    /\ \A t \in Tasks : \/ job'[t] = job[t]
                        \/ job[t].at \in {"none", "resume"} /\ job'[t].at = "done"

Stores == (StoreBegin \/ StoreWrite) /\ UNCHANGED <<job, wakes, backlog>>

Restarts ==
    /\ Restart /\ UNCHANGED wakes /\ backlog' = IdsOf(queue'.pending)
    /\ \A t \in Tasks : job'[t].at \in {"none", "done"}

Kinds ==
    \/ \E t \in Tasks : \/ \E e \in Events : Takes(t, e)
                        \/ Lands(t) \/ Sleeps(t)
    \/ Idles \/ Stores \/ Restarts

LEMMA JobTypes ==
    ASSUME BridgeTypeOK, NEW t \in Tasks
    PROVE  /\ job[t].at \in Places \union {"none"}
           /\ job[t] = NoJob \/ job[t].at # "none"
           /\ job[t].at \notin {"none", "done"} => job[t] \in Jobs
           /\ \A p \in Places : job[t] \in Jobs =>
                /\ [job[t] EXCEPT !.at = p] \in Jobs
                /\ [job[t] EXCEPT !.at = p].at = p
                /\ [job[t] EXCEPT !.at = p].source = job[t].source
                /\ [job[t] EXCEPT !.at = p].seen = job[t].seen
                /\ [job[t] EXCEPT !.at = p].wake = job[t].wake
                /\ [job[t] EXCEPT !.at = p].recent = job[t].recent
                /\ [job[t] EXCEPT !.at = p].repost = job[t].repost
BY DEF BridgeTypeOK, Jobs, NoJob, Dropped, Places

\* What AfterSource does, as one of the kinds.
LEMMA AfterSourceKind ==
    ASSUME BInv, NEW t \in Tasks, NEW j \in Jobs, AfterSource(t, j), ~Saving(t),
           job[t].at \in {"none", "resume"}, UNCHANGED <<wakes, backlog>>
    PROVE  /\ Idles \/ \E e \in Events : Takes(t, e)
           /\ job' \in [Tasks -> Jobs \union {NoJob, Dropped}]
           /\ lastSource' \subseteq Events /\ lastAt' \subseteq Nat /\ promotions' \subseteq Tasks
<1>0. /\ job \in [Tasks -> Jobs \union {NoJob, Dropped}] /\ lastSource \subseteq Events
      /\ lastAt \subseteq Nat /\ promotions \subseteq Tasks
  BY DEF BInv, BridgeTypeOK
<1>j. /\ j.source \in Sources /\ j.seen \in Nat
      /\ [j EXCEPT !.at = "promoted"] \in Jobs /\ [j EXCEPT !.at = "done"] \in Jobs
  BY DEF Jobs, Places
<1>1. CASE Promotes(t, j)
  <2> DEFINE e == Promoted(j.source, t)
  <2>1. e \in Events
    BY <1>j, BridgeAssumption DEF Promoted
  <2>2. /\ IngestEvents(t, << e >>) /\ job' = [job EXCEPT ![t] = [j EXCEPT !.at = "promoted"]]
        /\ promotions' = promotions \union {t} /\ UNCHANGED memVars /\ Accepts(queue, e)
    BY <1>1 DEF AfterSource, Promotes
  <2>3. job'[t] = [j EXCEPT !.at = "promoted"] /\ OnlyJob(t)
    BY <1>0, <2>2 DEF OnlyJob
  <2>4. Flying(t)' /\ EventOf(t)' = e
    <3>1. job'[t].at = "promoted" /\ job'[t].source = j.source
      BY <2>3 DEF Jobs
    <3> QED BY <3>1 DEF Flying, EventOf
  <2> HIDE DEF e
  <2>5. Takes(t, e)
    BY <2>2, <2>3, <2>4 DEF Takes, Flying
  <2> QED BY <1>0, <1>j, <2>1, <2>2, <2>5 DEF memVars
<1>2. CASE ~Promotes(t, j)
  <2>1. /\ job' = [job EXCEPT ![t] = [j EXCEPT !.at = "done"]]
        /\ lastSource' = {j.source} /\ lastAt' = {j.seen} /\ UNCHANGED <<coordVars, promotions>>
    BY <1>2 DEF AfterSource
  <2>2. job'[t] = [j EXCEPT !.at = "done"] /\ OnlyJob(t)
    BY <1>0, <2>1 DEF OnlyJob
  <2>3. job'[t].at = "done"
    BY <2>2 DEF Jobs
  <2>4. Idles
    BY <2>1, <2>2, <2>3 DEF Idles, OnlyJob
  <2> QED BY <1>0, <1>j, <2>1, <2>4, BridgeAssumption
<1> QED BY <1>1, <1>2

\* Every step is of one of the kinds and keeps the types.
LEMMA StepKinds ==
    ASSUME BInv, [Next]_vars
    PROVE  Kinds /\ BridgeTypeOK'
<1>0. BridgeTypeOK /\ job \in [Tasks -> Jobs \union {NoJob, Dropped}]
  BY DEF BInv, BridgeTypeOK
<1>1. ASSUME NEW t \in Tasks, NEW s \in Sources, Update(t, s) PROVE Kinds /\ BridgeTypeOK'
  <2> DEFINE repost == shown = s /\ now - PostTime[s] >= MinAge
             j == [at |-> "source", source |-> s, seen |-> now, repost |-> repost,
                   recent |-> Recent(s), wake |-> FreshAt(s, now) /\ ~repost]
  <2>1. /\ job[t] = NoJob /\ shown' = s /\ disturbed' \in BOOLEAN
        /\ UNCHANGED <<now, restarts, backlog>>
        /\ IF Accepts(queue, s) THEN Ingest(t, j) ELSE AfterSource(t, j) /\ UNCHANGED wakes
    BY <1>1 DEF Update
  <2>2. j \in Jobs /\ j.at = "source" /\ j.source = s
    <3>1. /\ repost \in BOOLEAN /\ Recent(s) \in BOOLEAN /\ now \in Nat
          /\ (FreshAt(s, now) /\ ~repost) \in BOOLEAN
      BY <1>0 DEF BridgeTypeOK, Recent
    <3> QED BY <3>1 DEF Jobs, Places
  <2>3. job[t].at = "none" /\ ~Saving(t)
    BY <2>1 DEF BInv, SavingOK, NoJob
  <2> HIDE DEF j
  <2>4. CASE Accepts(queue, s)
    <3>1. /\ IngestEvents(t, << s >>) /\ job' = [job EXCEPT ![t] = [j EXCEPT !.at = "source"]]
          /\ UNCHANGED <<memVars, promotions, wakes>>
      BY <2>1, <2>2, <2>4 DEF Ingest
    <3>2. [j EXCEPT !.at = "source"] = j
      BY <2>2 DEF Jobs
    <3>3. job'[t] = j /\ OnlyJob(t)
      BY <1>0, <3>1, <3>2 DEF OnlyJob
    <3>4. s \in Events
      BY BridgeAssumption
    <3>5. Takes(t, s)
      BY <2>1, <2>2, <2>3, <2>4, <3>1, <3>3 DEF Takes, Flying, EventOf
    <3> QED BY <1>0, <2>1, <2>2, <3>1, <3>2, <3>4, <3>5 DEF Kinds, BridgeTypeOK, memVars
  <2>5. CASE ~Accepts(queue, s)
    <3>1. AfterSource(t, j) /\ UNCHANGED <<wakes, backlog>>
      BY <2>1, <2>5
    <3>2. /\ Idles \/ \E e \in Events : Takes(t, e)
          /\ job' \in [Tasks -> Jobs \union {NoJob, Dropped}]
          /\ lastSource' \subseteq Events /\ lastAt' \subseteq Nat /\ promotions' \subseteq Tasks
      BY <2>2, <2>3, <3>1, AfterSourceKind
    <3> QED BY <1>0, <2>1, <3>1, <3>2 DEF Kinds, BridgeTypeOK
  <2> QED BY <2>4, <2>5
<1>2. ASSUME NEW t \in Tasks, SourceSaved(t) PROVE Kinds /\ BridgeTypeOK'
  <2> DEFINE p == IF job[t].wake THEN "resume" ELSE "defer"
  <2>1. /\ job[t].at = "source" /\ Return(t) /\ job' = [job EXCEPT ![t].at = p]
        /\ wakes' = IF job[t].wake THEN [wakes EXCEPT ![job[t].source] = @ + 1] ELSE wakes
        /\ UNCHANGED <<now, restarts, shown, memVars, backlog, disturbed, promotions>>
    BY <1>2 DEF SourceSaved
  <2>2. job[t] \in Jobs /\ p \in Places
    BY <1>0, <2>1, JobTypes DEF Places
  <2>3. job'[t] = [job[t] EXCEPT !.at = p] /\ OnlyJob(t)
    BY <1>0, <2>1 DEF OnlyJob
  <2>4. job'[t] \in Jobs /\ job'[t].at = p /\ job'[t].source = job[t].source
    BY <1>0, <2>2, <2>3, JobTypes
  <2>5. job[t].source \in Events
    BY <2>2, BridgeAssumption DEF Jobs
  <2>6. Lands(t)
    BY <2>1, <2>3, <2>4 DEF Lands, Flying, EventOf
  <2>7. job' \in [Tasks -> Jobs \union {NoJob, Dropped}]
    BY <1>0, <2>1, <2>3, <2>4
  <2>8. wakes' \in [Events -> Nat]
    BY <1>0, <2>1, <2>5 DEF BridgeTypeOK
  <2> QED BY <1>0, <2>1, <2>6, <2>7, <2>8 DEF Kinds, BridgeTypeOK, memVars
<1>3. ASSUME NEW t \in Tasks, DeferSource(t) \/ DeferSaved(t) PROVE Kinds /\ BridgeTypeOK'
  <2>1. PICK p \in Places : job' = [job EXCEPT ![t].at = p]
    BY <1>3 DEF DeferSource, DeferSaved, Places
  <2>2. job[t] \in Jobs
    BY <1>0, <1>3, JobTypes DEF DeferSource, DeferSaved
  <2>3. job'[t] = [job[t] EXCEPT !.at = p] /\ OnlyJob(t)
    BY <1>0, <2>1 DEF OnlyJob
  <2>4. job'[t] \in Jobs /\ job'[t].at = p
    BY <1>0, <2>2, <2>3, JobTypes
  <2>5. job' \in [Tasks -> Jobs \union {NoJob, Dropped}]
    BY <1>0, <2>1, <2>3, <2>4
  <2>6. UNCHANGED <<now, restarts, shown, memVars, backlog, disturbed, promotions, wakes>>
    BY <1>3 DEF DeferSource, DeferSaved
  <2>7. CASE DeferSource(t)
    <3>1. /\ job[t].at = "defer" /\ ~Saving(t) /\ DeferEvent(t, job[t].source)
          /\ job' = [job EXCEPT ![t].at = IF job[t].source \in IdsOf(queue.pending)
                                          THEN "deferred" ELSE "resume"]
      BY <2>7 DEF DeferSource
    <3>2. job'[t].at = IF job[t].source \in IdsOf(queue.pending) THEN "deferred" ELSE "resume"
      BY <1>0, <2>2, <3>1 DEF Jobs
    <3> QED BY <1>0, <2>3, <2>5, <2>6, <3>1, <3>2 DEF Sleeps, Kinds, BridgeTypeOK, memVars
  <2>8. CASE DeferSaved(t)
    <3>1. job[t].at = "deferred" /\ Return(t) /\ job' = [job EXCEPT ![t].at = "resume"]
      BY <2>8 DEF DeferSaved
    <3>2. job'[t].at = "resume"
      BY <1>0, <2>2, <3>1 DEF Jobs
    <3>3. Lands(t)
      BY <2>3, <2>6, <3>1, <3>2 DEF Lands
    <3> QED BY <1>0, <2>5, <2>6, <3>3 DEF Kinds, BridgeTypeOK, memVars
  <2> QED BY <1>3, <2>7, <2>8
<1>4. ASSUME NEW t \in Tasks, SourceDone(t) PROVE Kinds /\ BridgeTypeOK'
  <2>1. /\ job[t].at = "resume" /\ ~Saving(t) /\ AfterSource(t, job[t])
        /\ UNCHANGED <<now, restarts, shown, backlog, disturbed, wakes>>
    BY <1>4 DEF SourceDone
  <2>2. job[t] \in Jobs
    BY <1>0, <2>1, JobTypes
  <2>3. /\ Idles \/ \E e \in Events : Takes(t, e)
        /\ job' \in [Tasks -> Jobs \union {NoJob, Dropped}]
        /\ lastSource' \subseteq Events /\ lastAt' \subseteq Nat /\ promotions' \subseteq Tasks
    BY <2>1, <2>2, AfterSourceKind
  <2> QED BY <1>0, <2>1, <2>3 DEF Kinds, BridgeTypeOK
<1>5. ASSUME NEW t \in Tasks, PromotionSaved(t) PROVE Kinds /\ BridgeTypeOK'
  <2> DEFINE e == Promoted(job[t].source, t)
  <2>1. /\ job[t].at = "promoted" /\ Return(t) /\ wakes' = [wakes EXCEPT ![e] = @ + 1]
        /\ job' = [job EXCEPT ![t].at = "done"]
        /\ lastSource' = {job[t].source} /\ lastAt' = {job[t].seen}
        /\ UNCHANGED <<now, restarts, shown, backlog, disturbed, promotions>>
    BY <1>5 DEF PromotionSaved
  <2>2. job[t] \in Jobs
    BY <1>0, <2>1, JobTypes
  <2>3. job'[t] = [job[t] EXCEPT !.at = "done"] /\ OnlyJob(t)
    BY <1>0, <2>1 DEF OnlyJob
  <2>4. job'[t] \in Jobs /\ job'[t].at = "done"
    BY <2>2, <2>3 DEF Jobs, Places
  <2>5. job' \in [Tasks -> Jobs \union {NoJob, Dropped}]
    BY <1>0, <2>1, <2>3, <2>4
  <2>6. e \in Events /\ job[t].source \in Events /\ job[t].seen \in Nat
    BY <2>2, BridgeAssumption DEF Jobs, Promoted
  <2>7. EventOf(t) = e /\ Flying(t)
    BY <2>1 DEF EventOf, Flying
  <2> HIDE DEF e
  <2>8. Lands(t)
    BY <2>1, <2>3, <2>4, <2>7 DEF Lands
  <2>9. wakes' \in [Events -> Nat]
    BY <1>0, <2>1, <2>6 DEF BridgeTypeOK
  <2> QED BY <1>0, <2>1, <2>5, <2>6, <2>8, <2>9 DEF Kinds, BridgeTypeOK
<1>6. CASE ShowNothing \/ Tick
  <2>1. UNCHANGED <<coordVars, memVars, job, backlog, disturbed, promotions, wakes>>
    BY <1>6 DEF ShowNothing, Tick
  <2>2. shown' \in Sources \union {Nothing} /\ now' \in Nat
    BY <1>0, <1>6 DEF ShowNothing, Tick, BridgeTypeOK
  <2> QED BY <1>0, <2>1, <2>2 DEF Kinds, Idles, BridgeTypeOK, memVars
<1>7. CASE Store
  BY <1>0, <1>7 DEF Store, Kinds, Stores, BridgeTypeOK, memVars
<1>8. CASE StartUp
  <2>1. /\ Restart /\ backlog' = IdsOf(queue'.pending)
        /\ job' = [t \in Tasks |-> IF Waiting(t) THEN [at |-> "done"] ELSE job[t]]
        /\ lastSource' = IdsOf(LastOf(queue'.pending, 1)) /\ lastAt' = {}
        /\ disturbed' = TRUE /\ promotions' = {} /\ UNCHANGED <<now, shown, wakes>>
    BY <1>8 DEF StartUp
  <2>2. queue'.pending \in Seq(Events)
    <3>1. IInv'
      BY <2>1, RestartInv DEF BInv
    <3> QED BY <3>1 DEF IInv, CoordTypeOK, QueueType
  <2>3. IdsOf(queue'.pending) \subseteq Events /\ IdsOf(LastOf(queue'.pending, 1)) \subseteq Events
    BY <2>2, IdsOfSeq, LastOfProperties
  <2>4. \A t \in Tasks : job'[t].at \in {"none", "done"}
    BY <2>1 DEF Waiting
  <2>5. job' \in [Tasks -> Jobs \union {NoJob, Dropped}]
    BY <1>0, <2>1 DEF Dropped
  <2>6. Kinds
    BY <2>1, <2>4 DEF Kinds, Restarts
  <2> QED BY <1>0, <2>1, <2>3, <2>5, <2>6 DEF BridgeTypeOK
<1>9. CASE UNCHANGED vars
  BY <1>0, <1>9 DEF vars, Kinds, Idles, BridgeTypeOK, memVars
<1> QED BY <1>1, <1>2, <1>3, <1>4, <1>5, <1>6, <1>7, <1>8, <1>9 DEF Next

-----------------------------------------------------------------------------
(* The bridge uses the coordinator as CoordSpec allows *)

\* What a task that takes an event does to the coordinator.
LEMMA TakeSaves ==
    ASSUME IInv, NEW t \in Tasks, NEW e \in Events, Takes(t, e)
    PROVE  queue' = Enqueue(queue, e) /\ Save(t) /\ disk' = disk
<1>1. \E i \in DOMAIN << e >> : Accepts(queue, << e >>[i])
  BY DEF Takes
<1> QED BY <1>1, IngestOne DEF Takes, IngestEvents, Commit

\* A deferral is saved unless the event has left the queue.
LEMMA SleepSaves ==
    ASSUME IInv, NEW t \in Tasks, Sleeps(t)
    PROVE  /\ queue' = Defer(queue, job[t].source) /\ disk' = disk
           /\ IF job[t].source \in IdsOf(queue.pending) THEN Save(t) ELSE UNCHANGED storeVars
BY DEF Sleeps, DeferEvent, Commit

LEMMA KindsAreCalls ==
    ASSUME BInv, Kinds
    PROVE  [CoordNext]_coordVars
<1>1. ASSUME NEW t \in Tasks, NEW e \in Events, Takes(t, e) PROVE CoordNext
  <2>1. << e >> \in Seq(Events)
    OBVIOUS
  <2> QED BY <1>1, <2>1 DEF Takes, Call, CoordNext
<1>2. ASSUME NEW t \in Tasks, Sleeps(t) PROVE CoordNext
  <2>1. job[t].source \in Events
    <3>1. job[t] \in Jobs
      BY <1>2, JobTypes DEF BInv, Sleeps
    <3> QED BY <3>1, BridgeAssumption DEF Jobs
  <2> QED BY <1>2, <2>1 DEF Sleeps, Call, CoordNext
<1>3. ASSUME NEW t \in Tasks, Lands(t) PROVE CoordNext
  BY <1>3 DEF Lands, CoordNext
<1> QED BY <1>1, <1>2, <1>3 DEF Kinds, Idles, Stores, Restarts, CoordNext

\* A task gets in line once and leaves it only at the end of its save.
LEMMA SavingStep ==
    ASSUME BInv, Kinds
    PROVE  SavingOK'
<1>0. savers \in Seq(Tasks) /\ Distinct(savers)
  BY DEF BInv, IInv, CoordTypeOK, SavingOK
<1>1. ASSUME NEW t \in Tasks, Save(t), ~Saving(t), OnlyJob(t),
             job'[t].at \in {"source", "deferred", "promoted"}
      PROVE  SavingOK'
  <2>1. savers' = Append(savers, t)
    BY <1>1 DEF Save
  <2>2. Distinct(savers') /\ IdsOf(savers') = IdsOf(savers) \union {t}
    BY <1>0, <1>1, <2>1, AppendDistinct DEF Saving
  <2> QED BY <1>1, <2>2 DEF BInv, SavingOK, Saving, OnlyJob
<1>2. ASSUME NEW t \in Tasks, NEW e \in Events, Takes(t, e) PROVE SavingOK'
  BY <1>1, <1>2, TakeSaves DEF BInv, Takes, Flying
<1>3. ASSUME NEW t \in Tasks, Sleeps(t) PROVE SavingOK'
  <2>1. CASE job[t].source \in IdsOf(queue.pending)
    BY <1>1, <1>3, <2>1, SleepSaves DEF BInv, Sleeps
  <2>2. CASE job[t].source \notin IdsOf(queue.pending)
    <3>1. UNCHANGED savers /\ ~Saving(t) /\ OnlyJob(t)
      BY <1>3, <2>2, SleepSaves DEF BInv, Sleeps, storeVars
    <3> QED BY <3>1 DEF BInv, SavingOK, Saving, OnlyJob
  <2> QED BY <2>1, <2>2
<1>4. ASSUME NEW t \in Tasks, Lands(t) PROVE SavingOK'
  <2>1. savers # << >> /\ t = Head(savers) /\ savers' = Tail(savers) /\ OnlyJob(t)
    BY <1>4 DEF Lands, Return
  <2>2. /\ Distinct(savers') /\ t \notin IdsOf(savers')
        /\ IdsOf(savers) = IdsOf(savers') \union {t}
    BY <1>0, <2>1, TailDistinct
  <2> QED BY <2>1, <2>2 DEF BInv, SavingOK, Saving, OnlyJob
<1>5. CASE Idles
  BY <1>5 DEF Idles, coordVars, BInv, SavingOK, Saving
<1>6. CASE Stores
  BY <1>6 DEF Stores, StoreBegin, StoreWrite, BInv, SavingOK, Saving
<1>7. CASE Restarts
  BY <1>7 DEF Restarts, Restart, SavingOK, Saving, Distinct, IdsOf
<1> QED BY <1>2, <1>3, <1>4, <1>5, <1>6, <1>7 DEF Kinds

LEMMA BridgeInit == Init => BInv
<1> SUFFICES ASSUME Init PROVE BInv
  OBVIOUS
<1>1. IInv
  BY InitInv DEF Init
<1>2. BridgeTypeOK
  BY DEF Init, BridgeTypeOK, NoJob
<1>3. SavingOK
  BY DEF Init, CoordInit, SavingOK, Saving, Distinct, IdsOf
<1> QED BY <1>1, <1>2, <1>3 DEF BInv

LEMMA BridgeStep ==
    ASSUME BInv, [Next]_vars
    PROVE  BInv' /\ Kinds /\ [CoordNext]_coordVars
<1>1. Kinds /\ BridgeTypeOK'
  BY StepKinds
<1>2. [CoordNext]_coordVars
  BY <1>1, KindsAreCalls
<1>3. IInv'
  BY <1>2, NextInv DEF BInv
<1> QED BY <1>1, <1>2, <1>3, SavingStep DEF BInv

\* In every reachable state the queue is consistent, the variables have their types, and a
\* task waits for the Store only where it saves.
THEOREM BridgeInductive == Spec => []BInv
<1>1. BInv /\ [Next]_vars => BInv'
  BY BridgeStep
<1> QED BY <1>1, BridgeInit, PTL DEF Spec

\* The bridge makes only the calls CoordSpec allows, and none while it waits for a save: the
\* coordinator's theorems hold of it.
THEOREM BridgeUsesCoordinator == Spec => CoordSpec
<1>1. Init => CoordInit
  BY DEF Init
<1>2. BInv /\ [Next]_vars => [CoordNext]_coordVars
  BY BridgeStep
<1> QED BY <1>1, <1>2, BridgeInductive, PTL DEF Spec, CoordSpec

-----------------------------------------------------------------------------
(* Nothing is forgotten while the dedupe list has room *)

\* What is handed to the Store holds the whole dedupe list.
LEMMA StorageRemembers ==
    ASSUME IsFiniteSet(Events), Cardinality(Events) <= MaxProcessed,
           NEW q \in QueueType, QueueOK(q)
    PROVE  AsStorage(q).processed = q.processed
<1>1. q.processed \in Seq(Events) /\ Distinct(q.processed)
  BY DEF QueueType, QueueOK
<1>2. /\ Len(q.processed) <= Cardinality(Events) /\ Len(q.processed) \in Nat
      /\ Cardinality(Events) \in Nat
  BY <1>1, DistinctIsShort, FS_CardinalityType
<1>3. Len(q.processed) <= MaxProcessed
  BY <1>2, BoundsAssumption
<1> QED BY <1>1, <1>3, LastOfProperties, BoundsAssumption DEF AsStorage

\* load forgets nothing (with room or without).
LEMMA LoadRemembers ==
    ASSUME NEW d \in StorageType, StorageOK(d)
    PROVE  IdsOf(d.processed) \subseteq IdsOf(Load(d).processed)
<1> DEFINE kept == LastOf(d.processed, MaxProcessed)
           pending == LastOf(d.pending, MaxPending)
           again == Without(pending, IdsOf(kept))
<1>1. /\ d.processed \in Seq(Events) /\ Len(d.processed) <= MaxProcessed
      /\ d.pending \in Seq(Events) /\ Distinct(d.processed) /\ Distinct(d.pending)
  BY DEF StorageType, StorageOK
<1>2. kept = d.processed
  BY <1>1, LastOfProperties, BoundsAssumption
<1>3. pending \in Seq(Events) /\ Distinct(pending)
  BY <1>1, LastOfProperties, BoundsAssumption
<1>4. Load(d).processed = kept \o again
  BY DEF Load
<1> HIDE DEF kept, pending
<1>5. again \in Seq(Events) /\ Distinct(again) /\ IdsOf(again) = IdsOf(pending) \ IdsOf(kept)
  BY <1>3, WithoutProperties
<1> HIDE DEF again
<1>6. IdsOf(kept \o again) = IdsOf(kept) \union IdsOf(again)
  <2>1. IdsOf(kept) \intersect IdsOf(again) = {}
    BY <1>5
  <2> QED BY <1>1, <1>2, <1>5, <2>1, ConcatDistinct
<1> QED BY <1>2, <1>4, <1>6

Q == IdsOf(queue.processed)
W == IdsOf(writing.processed)
D == IdsOf(disk.processed)

\* What is known is on its way from the queue to the disk, and the write that a task makes
\* itself contains its event; no event is on the hands of two tasks, or of one task after the
\* worker was notified of it.
OnceOK ==
    /\ D \subseteq W /\ W \subseteq Q
    /\ phase = "written" => disk = writing
    /\ \A t \in Tasks : Flying(t) => EventOf(t) \in Q /\ wakes[EventOf(t)] = 0
    /\ \A t, u \in Tasks : Flying(t) /\ Flying(u) /\ EventOf(t) = EventOf(u) => t = u
    /\ savers # << >> /\ Flying(Head(savers)) /\ phase \in {"writing", "written"} =>
            EventOf(Head(savers)) \in W
    /\ \A e \in Events : wakes[e] <= 1 /\ (wakes[e] > 0 => e \in D)

\* A step of the tasks that takes no event keeps the events on their hands.
LEMMA SameEvent ==
    ASSUME NEW t, job'[t] = job[t]
    PROVE  Flying(t)' = Flying(t) /\ EventOf(t)' = EventOf(t)
BY DEF Flying, EventOf

LEMMA EventTypes ==
    ASSUME BInv, NEW t \in Tasks, Flying(t)
    PROVE  EventOf(t) \in Events
<1>1. job[t] \in Jobs
  BY JobTypes DEF BInv, Flying
<1> QED BY <1>1, BridgeAssumption DEF Jobs, EventOf, Promoted

LEMMA OnceTake ==
    ASSUME IsFiniteSet(Events), Cardinality(Events) <= MaxProcessed, BInv, BInv', OnceOK,
           NEW t \in Tasks, NEW e \in Events, Takes(t, e)
    PROVE  OnceOK'
<1>0. queue \in QueueType /\ QueueOK(queue) /\ queue' \in QueueType /\ QueueOK(queue')
      /\ savers \in Seq(Tasks)
  BY DEF BInv, IInv, CoordTypeOK, QueueConsistent
<1>1. queue' = Enqueue(queue, e) /\ Save(t) /\ disk' = disk
  BY TakeSaves DEF BInv
<1>2. e \notin Q /\ Q' = Q \union {e}
  BY <1>0, <1>1, EnqueueRemembers DEF Takes, Q
<1>3. AsStorage(queue').processed = queue'.processed
  BY <1>0, StorageRemembers
<1>4. /\ Flying(t)' /\ EventOf(t)' = e /\ wakes' = wakes
      /\ \A u \in Tasks \ {t} : Flying(u)' = Flying(u) /\ EventOf(u)' = EventOf(u)
  BY SameEvent DEF Takes, OnlyJob
<1>5. wakes[e] = 0
  BY <1>2 DEF OnceOK, BInv, BridgeTypeOK
<1>6. D' = D /\ (W' = W \/ W' = Q')
  BY <1>1, <1>3 DEF Save, D, W, Q
<1>7. D' \subseteq W' /\ W' \subseteq Q'
  BY <1>2, <1>6 DEF OnceOK
<1>8. phase' = "written" => disk' = writing'
  BY <1>1 DEF Save, OnceOK
<1>9. savers' # << >> /\ Flying(Head(savers))' /\ phase' \in {"writing", "written"} =>
            EventOf(Head(savers))' \in W'
  <2>1. CASE savers = << >>
    <3>1. savers' = << t >> /\ Head(savers') = t
      BY <1>1, <2>1 DEF Save
    <3>2. W' = Q'
      BY <1>1, <1>3, <2>1 DEF Save, W, Q
    <3> QED BY <1>2, <1>4, <3>1, <3>2 DEF Flying, EventOf
  <2>2. CASE savers # << >>
    <3>1. Head(savers') = Head(savers) /\ phase' = phase /\ writing' = writing
      BY <1>0, <1>1, <2>2 DEF Save
    <3>2. Head(savers) \in Tasks /\ Head(savers) # t
      <4>1. Head(savers) \in IdsOf(savers) /\ IdsOf(savers) \subseteq Tasks
        BY <1>0, <2>2, TailDistinct, IdsOfSeq
      <4> QED BY <4>1 DEF Takes, Saving
    <3>3. /\ job'[Head(savers')] = job[Head(savers)]
      BY <3>1, <3>2 DEF Takes, OnlyJob
    <3>4. W' = W
      BY <3>1 DEF W
    <3> QED BY <2>2, <3>1, <3>3, <3>4 DEF OnceOK, Flying, EventOf
  <2> QED BY <2>1, <2>2
<1>10. \A u \in Tasks : Flying(u)' => EventOf(u)' \in Q' /\ wakes'[EventOf(u)'] = 0
  BY <1>2, <1>4, <1>5 DEF OnceOK
<1>11. \A u, v \in Tasks : Flying(u)' /\ Flying(v)' /\ EventOf(u)' = EventOf(v)' => u = v
  BY <1>2, <1>4 DEF OnceOK
<1>12. \A x \in Events : wakes'[x] <= 1 /\ (wakes'[x] > 0 => x \in D')
  BY <1>4, <1>6 DEF OnceOK
<1> QED BY <1>7, <1>8, <1>9, <1>10, <1>11, <1>12 DEF OnceOK

LEMMA OnceLand ==
    ASSUME IsFiniteSet(Events), Cardinality(Events) <= MaxProcessed, BInv, BInv', OnceOK,
           NEW t \in Tasks, Lands(t)
    PROVE  OnceOK'
<1>0. queue \in QueueType /\ QueueOK(queue) /\ savers \in Seq(Tasks)
  BY DEF BInv, IInv, CoordTypeOK, QueueConsistent
<1>1. /\ savers # << >> /\ t = Head(savers) /\ UNCHANGED <<queue, disk, writing>>
      /\ phase = "written" \/ (phase = "woken" /\ ~unwritten)
      /\ phase' \in {"free", "woken"}
  BY DEF Lands, Return
<1>2. Q' = Q /\ W' = W /\ D' = D
  BY <1>1 DEF Q, W, D
<1>3. AsStorage(queue).processed = queue.processed
  BY <1>0, StorageRemembers
<1>4. \A u \in Tasks \ {t} : Flying(u)' = Flying(u) /\ EventOf(u)' = EventOf(u)
  BY SameEvent DEF Lands, OnlyJob
<1>5. ~Flying(t)'
  BY DEF Lands, Flying
<1>6. Flying(t) => EventOf(t) \in D
  <2>1. CASE phase = "written"
    BY <1>1, <2>1 DEF OnceOK, W, D
  <2>2. CASE phase = "woken" /\ ~unwritten
    <3>1. disk = AsStorage(queue)
      BY <2>2 DEF BInv, IInv, SavesInOrder
    <3> QED BY <1>3, <3>1 DEF OnceOK, Q, D
  <2> QED BY <1>1, <2>1, <2>2
<1>7. wakes' = wakes \/ (Flying(t) /\ wakes' = [wakes EXCEPT ![EventOf(t)] = @ + 1])
  BY DEF Lands
<1>8. \A e \in Events : wakes'[e] <= 1 /\ (wakes'[e] > 0 => e \in D')
  <2>1. Flying(t) => EventOf(t) \in Events /\ wakes[EventOf(t)] = 0
    BY EventTypes DEF OnceOK
  <2>2. wakes \in [Events -> Nat]
    BY DEF BInv, BridgeTypeOK
  <2> QED BY <1>2, <1>6, <1>7, <2>1, <2>2 DEF OnceOK
<1>9. ASSUME NEW u \in Tasks, Flying(u)' PROVE EventOf(u)' \in Q' /\ wakes'[EventOf(u)'] = 0
  <2>1. u # t /\ Flying(u) /\ EventOf(u)' = EventOf(u) /\ EventOf(u) \in Events
    BY <1>4, <1>5, <1>9, EventTypes
  <2>2. Flying(t) => EventOf(u) # EventOf(t)
    BY <2>1 DEF OnceOK
  <2>3. wakes \in [Events -> Nat]
    BY DEF BInv, BridgeTypeOK
  <2> QED BY <1>2, <1>7, <2>1, <2>2, <2>3 DEF OnceOK
<1>10. \A u, v \in Tasks : Flying(u)' /\ Flying(v)' /\ EventOf(u)' = EventOf(v)' => u = v
  BY <1>4, <1>5 DEF OnceOK
<1> QED BY <1>1, <1>2, <1>8, <1>9, <1>10 DEF OnceOK

LEMMA OnceSleep ==
    ASSUME IsFiniteSet(Events), Cardinality(Events) <= MaxProcessed, BInv, BInv', OnceOK,
           NEW t \in Tasks, Sleeps(t)
    PROVE  OnceOK'
<1>0. queue \in QueueType /\ QueueOK(queue) /\ queue' \in QueueType /\ QueueOK(queue')
      /\ savers \in Seq(Tasks)
  BY DEF BInv, IInv, CoordTypeOK, QueueConsistent
<1>1. /\ queue' = Defer(queue, job[t].source) /\ disk' = disk
      /\ Save(t) \/ UNCHANGED storeVars
  BY SleepSaves DEF BInv
<1>2. Q' = Q
  BY <1>0, <1>1 DEF Defer, Q, QueueType
<1>3. AsStorage(queue').processed = queue'.processed
  BY <1>0, StorageRemembers
<1>4. /\ ~Flying(t)' /\ wakes' = wakes
      /\ \A u \in Tasks \ {t} : Flying(u)' = Flying(u) /\ EventOf(u)' = EventOf(u)
  BY SameEvent DEF Sleeps, OnlyJob, Flying
<1>5. D' = D /\ (W' = W \/ W' = Q')
  BY <1>1, <1>3 DEF Save, storeVars, D, W, Q
<1>6. phase' = "written" => disk' = writing'
  BY <1>1 DEF Save, storeVars, OnceOK
<1>7. savers' # << >> /\ Flying(Head(savers))' /\ phase' \in {"writing", "written"} =>
            EventOf(Head(savers))' \in W'
  <2>1. CASE Save(t) /\ savers = << >>
    <3>1. savers' = << t >> /\ Head(savers') = t
      BY <2>1 DEF Save
    <3> QED BY <1>4, <3>1 DEF Flying
  <2>2. CASE savers # << >> \/ UNCHANGED storeVars
    <3>1. /\ savers' # << >> => savers # << >>
          /\ savers # << >> =>
                Head(savers') = Head(savers) /\ phase' = phase /\ writing' = writing
      BY <1>0, <1>1, <2>2 DEF Save, storeVars
    <3>2. savers # << >> => Head(savers) \in Tasks /\ Head(savers) # t
      <4>1. savers # << >> => Head(savers) \in IdsOf(savers) /\ IdsOf(savers) \subseteq Tasks
        BY <1>0, TailDistinct, IdsOfSeq
      <4> QED BY <4>1 DEF Sleeps, Saving
    <3>3. savers' # << >> => job'[Head(savers')] = job[Head(savers)] /\ W' = W
      BY <3>1, <3>2 DEF Sleeps, OnlyJob, W
    <3> QED BY <3>1, <3>3 DEF OnceOK, Flying, EventOf
  <2> QED BY <1>1, <2>1, <2>2
<1>8. \A u \in Tasks : Flying(u)' => EventOf(u)' \in Q' /\ wakes'[EventOf(u)'] = 0
  BY <1>2, <1>4 DEF OnceOK
<1>9. \A u, v \in Tasks : Flying(u)' /\ Flying(v)' /\ EventOf(u)' = EventOf(v)' => u = v
  BY <1>4 DEF OnceOK
<1>10. \A x \in Events : wakes'[x] <= 1 /\ (wakes'[x] > 0 => x \in D')
  BY <1>4, <1>5 DEF OnceOK
<1>11. D' \subseteq W' /\ W' \subseteq Q'
  BY <1>2, <1>5 DEF OnceOK
<1> QED BY <1>6, <1>7, <1>8, <1>9, <1>10, <1>11 DEF OnceOK

LEMMA OnceStep ==
    ASSUME IsFiniteSet(Events), Cardinality(Events) <= MaxProcessed, BInv, OnceOK, [Next]_vars
    PROVE  OnceOK'
<1>0. BInv' /\ Kinds
  BY BridgeStep
<1>00. /\ queue \in QueueType /\ QueueOK(queue) /\ disk \in StorageType /\ StorageOK(disk)
       /\ savers \in Seq(Tasks)
  BY DEF BInv, IInv, CoordTypeOK, QueueConsistent
<1>1. CASE Idles
  <2>1. UNCHANGED <<queue, disk, savers, phase, writing, wakes>>
    BY <1>1 DEF Idles, coordVars
  <2>2. \A t \in Tasks : Flying(t)' => Flying(t) /\ EventOf(t)' = EventOf(t)
    BY <1>1, SameEvent DEF Idles, Flying
  <2>3. savers # << >> => Head(savers) \in Tasks
    BY <1>00
  <2>4. savers' # << >> /\ Flying(Head(savers))' => Flying(Head(savers)) /\
            EventOf(Head(savers))' = EventOf(Head(savers))
    <3>1. Head(savers') = Head(savers)
      BY <2>1
    <3> QED BY <2>1, <2>2, <2>3, <3>1 DEF Flying, EventOf
  <2>5. Q' = Q /\ W' = W /\ D' = D
    BY <2>1 DEF Q, W, D
  <2> QED BY <2>1, <2>2, <2>4, <2>5 DEF OnceOK
<1>2. CASE Stores
  <2>0. AsStorage(queue).processed = queue.processed
    BY <1>00, StorageRemembers
  <2>1. UNCHANGED <<job, wakes, queue, savers>>
    BY <1>2 DEF Stores, StoreBegin, StoreWrite
  <2>2. Q' = Q /\ \A t : Flying(t)' = Flying(t) /\ EventOf(t)' = EventOf(t)
    BY <2>1 DEF Q, Flying, EventOf
  <2>3. CASE StoreBegin
    <3>1. phase' = "writing" /\ W' = Q /\ D' = D
      BY <2>0, <2>3 DEF StoreBegin, W, Q, D
    <3>2. savers # << >> => Head(savers) \in Tasks
      BY <1>00
    <3>3. savers' # << >> /\ Flying(Head(savers))' => EventOf(Head(savers))' \in W'
      BY <2>1, <3>1, <3>2 DEF OnceOK, Flying, EventOf
    <3> QED BY <2>1, <2>2, <3>1, <3>3 DEF OnceOK
  <2>4. CASE StoreWrite
    <3>1. phase = "writing" /\ phase' = "written" /\ W' = W /\ D' = W /\ disk' = writing'
      BY <2>4 DEF StoreWrite, W, D
    <3>2. savers' # << >> /\ Flying(Head(savers))' => EventOf(Head(savers))' \in W'
      BY <2>1, <3>1 DEF OnceOK, Flying, EventOf
    <3> QED BY <2>1, <2>2, <3>1, <3>2 DEF OnceOK
  <2> QED BY <1>2, <2>3, <2>4 DEF Stores
<1>3. CASE Restarts
  <2>1. /\ queue' = Load(disk) /\ disk' = disk /\ writing' = disk /\ savers' = << >>
        /\ phase' = "free" /\ wakes' = wakes
    BY <1>3 DEF Restarts, Restart
  <2>2. \A t \in Tasks : ~Flying(t)'
    BY <1>3 DEF Restarts, Flying
  <2>3. D' = D /\ W' = D /\ D \subseteq Q'
    BY <1>00, <2>1, LoadRemembers DEF D, W, Q
  <2> QED BY <2>1, <2>2, <2>3 DEF OnceOK
<1> QED BY <1>0, <1>1, <1>2, <1>3, OnceTake, OnceLand, OnceSleep DEF Kinds

LEMMA OnceInit == Init => OnceOK
<1> SUFFICES ASSUME Init PROVE OnceOK
  OBVIOUS
<1>1. queue = EmptyQueue /\ disk = AsStorage(EmptyQueue) /\ writing = disk /\ savers = << >>
      /\ phase = "free"
  BY DEF Init, CoordInit
<1>2. D = {}
  <2>1. LastOf(<< >>, MaxProcessed) = << >>
    BY BoundsAssumption DEF LastOf
  <2> QED BY <1>1, <2>1 DEF D, IdsOf, AsStorage, EmptyQueue
<1>3. \A t \in Tasks : ~Flying(t)
  BY DEF Init, Flying, NoJob
<1>4. W = D /\ Q = {}
  BY <1>1 DEF W, D, Q, IdsOf, EmptyQueue
<1>5. \A e \in Events : wakes[e] = 0
  BY DEF Init
<1> QED BY <1>1, <1>2, <1>3, <1>4, <1>5 DEF OnceOK

\* While the dedupe list has room, no event is notified to the worker twice, whatever is
\* reposted, overlaps or crashes.
THEOREM NotifiedOnce ==
    ASSUME IsFiniteSet(Events)
    PROVE  Spec => []WokenOnce
<1>1. CASE Cardinality(Events) <= MaxProcessed
  <2>1. BInv /\ OnceOK /\ [Next]_vars => OnceOK'
    BY <1>1, OnceStep
  <2>2. OnceOK => WokenOnce
    BY DEF OnceOK, WokenOnce
  <2> QED BY <2>1, <2>2, OnceInit, BridgeInductive, PTL DEF Spec
<1>2. CASE ~(Cardinality(Events) <= MaxProcessed)
  <2>1. WokenOnce
    BY <1>2 DEF WokenOnce
  <2> QED BY <2>1, PTL
<1> QED BY <1>1, <1>2

\* The worker is notified of an event only when the file on disk knows it.
THEOREM NotifiedIsDurable ==
    ASSUME IsFiniteSet(Events)
    PROVE  Spec => []WokenIsDurable
<1>1. CASE Cardinality(Events) <= MaxProcessed
  <2>1. BInv /\ OnceOK /\ [Next]_vars => OnceOK'
    BY <1>1, OnceStep
  <2>2. OnceOK => WokenIsDurable
    BY DEF OnceOK, WokenIsDurable, D
  <2> QED BY <2>1, <2>2, OnceInit, BridgeInductive, PTL DEF Spec
<1>2. CASE ~(Cardinality(Events) <= MaxProcessed)
  <2>1. WokenIsDurable
    BY <1>2 DEF WokenIsDurable
  <2> QED BY <2>1, PTL
<1> QED BY <1>1, <1>2
-----------------------------------------------------------------------------
(* No event is left in limbo *)

\* A task has the event in its hands and has not settled yet what becomes of it.
Handling(t) == job[t].at \in {"source", "defer", "promoted"}

\* Every pending event of this run has woken the worker, is deferred, or is in some task's hands.
LimboOK ==
    \A e \in IdsOf(queue.pending) \ backlog :
        \/ wakes[e] > 0 \/ e \in queue.deferred
        \/ \E t \in Tasks : Handling(t) /\ EventOf(t) = e

LEMMA LimboStep ==
    ASSUME BInv, LimboOK, [Next]_vars
    PROVE  LimboOK'
<1>0. Kinds
  BY BridgeStep
<1>00. /\ queue \in QueueType /\ QueueOK(queue) /\ wakes \in [Events -> Nat]
  BY DEF BInv, IInv, CoordTypeOK, QueueConsistent, BridgeTypeOK
<1>000. IdsOf(queue.pending) \subseteq Events
  BY <1>00, IdsOfSeq DEF QueueType
<1>1. ASSUME NEW t \in Tasks, NEW e \in Events, Takes(t, e) PROVE LimboOK'
  <2>1. queue' = Enqueue(queue, e) /\ backlog' = backlog /\ wakes' = wakes
    BY <1>1, TakeSaves DEF BInv, Takes
  <2>2. Handling(t)' /\ EventOf(t)' = e /\ ~Handling(t)
    BY <1>1 DEF Takes, Flying, Handling
  <2>3. \A u \in Tasks : Handling(u) => Handling(u)' /\ EventOf(u)' = EventOf(u)
    BY <1>1, <2>2 DEF Takes, OnlyJob, Handling, EventOf
  <2>4. Accepts(queue, e)
    BY <1>1 DEF Takes
  <2>5. \A x \in IdsOf(queue'.pending) :
          x = e \/ (x \in IdsOf(queue.pending) /\ (x \in queue.deferred => x \in queue'.deferred))
    BY <1>00, <2>1, <2>4, EnqueueKeepsDeferrals
  <2> QED BY <2>1, <2>2, <2>3, <2>5 DEF LimboOK
<1>2. ASSUME NEW t \in Tasks, Lands(t) PROVE LimboOK'
  <2>1. queue' = queue /\ backlog' = backlog /\ OnlyJob(t)
    BY <1>2 DEF Lands, Return
  <2>2. \A u \in Tasks \ {t} : Handling(u)' = Handling(u) /\ EventOf(u)' = EventOf(u)
    BY <2>1 DEF OnlyJob, Handling, EventOf
  <2>3. CASE Flying(t) /\ wakes' = [wakes EXCEPT ![EventOf(t)] = @ + 1]
    <3>1. EventOf(t) \in Events
      BY <2>3, EventTypes
    <3>2. wakes'[EventOf(t)] > 0 /\ \A e \in Events : wakes[e] > 0 => wakes'[e] > 0
      BY <1>00, <2>3, <3>1
    <3> QED BY <1>000, <2>1, <2>2, <3>2 DEF LimboOK
  <2>4. CASE /\ job'[t].at = "defer" /\ job[t].at = "source" /\ job'[t].source = job[t].source
             /\ wakes' = wakes
    <3>1. Handling(t)' /\ EventOf(t)' = EventOf(t)
      BY <2>4 DEF Handling, EventOf
    <3> QED BY <2>1, <2>2, <2>4, <3>1 DEF LimboOK
  <2>5. CASE job[t].at = "deferred" /\ wakes' = wakes
    <3>1. ~Handling(t)
      BY <2>5 DEF Handling
    <3> QED BY <2>1, <2>2, <2>5, <3>1 DEF LimboOK
  <2> QED BY <1>2, <2>3, <2>4, <2>5 DEF Lands
<1>3. ASSUME NEW t \in Tasks, Sleeps(t) PROVE LimboOK'
  <2>1. queue' = Defer(queue, job[t].source) /\ UNCHANGED <<wakes, backlog>> /\ OnlyJob(t)
    BY <1>3, SleepSaves DEF BInv, Sleeps
  <2>2. \A u \in Tasks \ {t} : Handling(u)' = Handling(u) /\ EventOf(u)' = EventOf(u)
    BY <2>1 DEF OnlyJob, Handling, EventOf
  <2>3. EventOf(t) = job[t].source
    BY <1>3 DEF Sleeps, EventOf
  <2>4. queue'.pending = queue.pending /\ queue.deferred \subseteq queue'.deferred
    BY <1>00, <2>1 DEF Defer, QueueType
  <2>5. job[t].source \in IdsOf(queue.pending) => job[t].source \in queue'.deferred
    BY <1>00, <2>1 DEF Defer, QueueType
  <2> QED BY <2>1, <2>2, <2>3, <2>4, <2>5 DEF LimboOK
<1>4. CASE Idles
  <2>1. UNCHANGED <<queue, wakes, backlog>>
    BY <1>4 DEF Idles, coordVars
  <2>2. \A t \in Tasks : Handling(t) => Handling(t)' /\ EventOf(t)' = EventOf(t)
    BY <1>4 DEF Idles, Handling, EventOf
  <2> QED BY <2>1, <2>2 DEF LimboOK
<1>5. CASE Stores
  BY <1>5 DEF Stores, StoreBegin, StoreWrite, LimboOK, Handling, EventOf
<1>6. CASE Restarts
  BY <1>6 DEF Restarts, LimboOK
<1> QED BY <1>0, <1>1, <1>2, <1>3, <1>4, <1>5, <1>6 DEF Kinds

\* When the tasks are done, each event of this run has woken the worker or is deferred.
THEOREM NothingIsLeft == Spec => []NothingInLimbo
<1>1. Init => LimboOK
  BY DEF Init, CoordInit, EmptyQueue, IdsOf, LimboOK
<1>2. BInv /\ LimboOK /\ [Next]_vars => LimboOK'
  BY LimboStep
<1>3. LimboOK => NothingInLimbo
  BY DEF LimboOK, NothingInLimbo, Handling, Waiting
<1> QED BY <1>1, <1>2, <1>3, BridgeInductive, PTL DEF Spec
-----------------------------------------------------------------------------
(* The permission to wake *)

\* A task that waits for the save of its source may wake the worker for a fresh update only.
MayWake(j) == j.wake => FreshAt(j.source, j.seen) /\ ~j.repost

PermissionOK == \A t \in Tasks : job[t].at = "source" => MayWake(job[t])

\* The place of one task changes.
LEMMA MovesOne ==
    ASSUME BInv, NEW t \in Tasks, NEW j \in Jobs, NEW p \in Places,
           job' = [job EXCEPT ![t] = [j EXCEPT !.at = p]]
    PROVE  job'[t].at = p /\ \A u \in Tasks : u # t => job'[u] = job[u]
<1>1. job \in [Tasks -> Jobs \union {NoJob, Dropped}]
  BY DEF BInv, BridgeTypeOK
<1>2. job'[t] = [j EXCEPT !.at = p] /\ \A u \in Tasks : u # t => job'[u] = job[u]
  BY <1>1
<1> QED BY <1>2 DEF Jobs

LEMMA PermissionStep ==
    ASSUME BInv, PermissionOK, [Next]_vars
    PROVE  PermissionOK'
<1> SUFFICES ASSUME NEW u \in Tasks, job'[u].at = "source", job'[u] # job[u]
             PROVE  MayWake(job'[u])
  BY DEF PermissionOK, MayWake
<1>0. job \in [Tasks -> Jobs \union {NoJob, Dropped}]
  BY DEF BInv, BridgeTypeOK
<1>a. ASSUME NEW t \in Tasks, NEW j \in Jobs, AfterSource(t, j) PROVE FALSE
  <2>1. PICK p \in {"promoted", "done"} : job' = [job EXCEPT ![t] = [j EXCEPT !.at = p]]
    BY <1>a DEF AfterSource
  <2>2. p \in Places
    BY DEF Places
  <2> QED BY <2>1, <2>2, MovesOne
<1>1. ASSUME NEW t \in Tasks, NEW s \in Sources, Update(t, s) PROVE MayWake(job'[u])
  <2> DEFINE repost == shown = s /\ now - PostTime[s] >= MinAge
             j == [at |-> "source", source |-> s, seen |-> now, repost |-> repost,
                   recent |-> Recent(s), wake |-> FreshAt(s, now) /\ ~repost]
  <2>1. IF Accepts(queue, s) THEN Ingest(t, j) ELSE AfterSource(t, j) /\ UNCHANGED wakes
    BY <1>1 DEF Update
  <2>2. j \in Jobs
    <3>1. /\ repost \in BOOLEAN /\ Recent(s) \in BOOLEAN /\ now \in Nat
          /\ (FreshAt(s, now) /\ ~repost) \in BOOLEAN
      BY DEF BInv, BridgeTypeOK, Recent
    <3> QED BY <3>1 DEF Jobs, Places
  <2>3. MayWake(j) /\ j.at = "source"
    <3>1. /\ j.wake = (FreshAt(s, now) /\ ~repost) /\ j.repost = repost /\ j.source = s
          /\ j.seen = now /\ j.at = "source"
      OBVIOUS
    <3> HIDE DEF j, repost
    <3> QED BY <3>1, Zenon DEF MayWake
  <2> HIDE DEF j
  <2>4. job' = [job EXCEPT ![t] = [j EXCEPT !.at = "source"]]
    BY <1>a, <2>1, <2>2 DEF Ingest
  <2>5. [j EXCEPT !.at = "source"] = j
    BY <2>2, <2>3 DEF Jobs
  <2>6. job'[u] = j
    BY <1>0, <2>4, <2>5
  <2> QED BY <2>3, <2>6
<1>2. ASSUME NEW t \in Tasks, SourceDone(t) PROVE FALSE
  <2>1. job[t] \in Jobs
    BY <1>2, JobTypes DEF SourceDone, BInv
  <2> QED BY <1>2, <1>a, <2>1 DEF SourceDone
<1>3. ASSUME NEW t \in Tasks,
             SourceSaved(t) \/ DeferSource(t) \/ DeferSaved(t) \/ PromotionSaved(t)
      PROVE  FALSE
  <2>1. PICK p \in Places \ {"source"} : job' = [job EXCEPT ![t].at = p]
    BY <1>3 DEF SourceSaved, DeferSource, DeferSaved, PromotionSaved, Places
  <2>2. job[t] \in Jobs
    BY <1>3, JobTypes DEF SourceSaved, DeferSource, DeferSaved, PromotionSaved, BInv
  <2>3. job' = [job EXCEPT ![t] = [job[t] EXCEPT !.at = p]]
    BY <2>1
  <2> QED BY <2>2, <2>3, MovesOne
<1>4. CASE StartUp
  BY <1>4 DEF StartUp
<1>5. CASE ShowNothing \/ Store \/ Tick \/ UNCHANGED vars
  BY <1>5 DEF ShowNothing, Store, Tick, vars
<1> QED BY <1>1, <1>2, <1>3, <1>4, <1>5 DEF Next

LEMMA OnlyFreshWakes ==
    ASSUME BInv, PermissionOK, [Next]_vars, NEW s \in Sources, wakes'[s] > wakes[s]
    PROVE  \E t \in Tasks : job[t].at = "source" /\ job[t].source = s
                                /\ FreshAt(s, job[t].seen) /\ ~job[t].repost
<1>0. wakes \in [Events -> Nat] /\ s \in Events
  BY BridgeAssumption DEF BInv, BridgeTypeOK
<1>1. PICK t \in Tasks : SourceSaved(t) \/ PromotionSaved(t)
  <2>1. CASE UNCHANGED wakes
    BY <1>0, <2>1
  <2>2. CASE \E t \in Tasks : \E x \in Sources : Update(t, x)
    BY <2>1, <2>2 DEF Update, Ingest
  <2> QED BY <2>1, <2>2
      DEF Next, DeferSource, DeferSaved, SourceDone, ShowNothing, Store, Tick, StartUp, vars
<1>2. CASE SourceSaved(t)
  <2>1. /\ job[t].at = "source"
        /\ wakes' = IF job[t].wake THEN [wakes EXCEPT ![job[t].source] = @ + 1] ELSE wakes
    BY <1>2 DEF SourceSaved
  <2>2. job[t].wake /\ s = job[t].source
    BY <1>0, <2>1
  <2> QED BY <2>1, <2>2 DEF PermissionOK, MayWake
<1>3. CASE PromotionSaved(t)
  <2>1. /\ job[t].at = "promoted"
        /\ wakes' = [wakes EXCEPT ![Promoted(job[t].source, t)] = @ + 1]
    BY <1>3 DEF PromotionSaved
  <2>2. job[t].source \in Sources
    <3>1. job[t] \in Jobs
      BY <2>1, JobTypes DEF BInv
    <3> QED BY <3>1 DEF Jobs
  <2>3. Promoted(job[t].source, t) # s
    BY <2>2, BridgeAssumption DEF Promoted
  <2> QED BY <1>0, <2>1, <2>3
<1> QED BY <1>1, <1>2, <1>3

\* A source wakes the worker only by an update that came at most MaxAge after its post time and
\* was not a repost.
THEOREM StaleIsNeverNotified == Spec => StaleSourceNeverWakes
<1>1. Init => PermissionOK
  BY DEF Init, PermissionOK, NoJob
<1>2. BInv /\ PermissionOK /\ [Next]_vars => PermissionOK'
  BY PermissionStep
<1>3. BInv /\ PermissionOK /\ [Next]_vars =>
        [\A s \in Sources : wakes'[s] > wakes[s] =>
            \E t \in Tasks : job[t].at = "source" /\ job[t].source = s
                                /\ FreshAt(s, job[t].seen) /\ ~job[t].repost]_vars
  BY OnlyFreshWakes
<1> QED BY <1>1, <1>2, <1>3, BridgeInductive, PTL DEF Spec, StaleSourceNeverWakes
-----------------------------------------------------------------------------
(* Rapid reposts *)

Started(t) == job[t] # NoJob

Apart(j, k) == k.repost /\ ~k.recent => k.seen - j.seen >= Debounce

\* In a run without overlap the tasks are started and finished one after the other, in the order
\* of their updates; the memory holds the notification shown and the time of its last update, or
\* the task that will write both is still at work.
InTurn ==
    /\ \A t \in Tasks : Started(t) => job[t] \in Jobs /\ job[t].seen <= now
    /\ \A t, u \in Tasks : t < u /\ Started(u) =>
            Started(t) /\ ~Waiting(t) /\ job[t].seen <= job[u].seen /\ Apart(job[t], job[u])
    /\ \A t \in promotions : Started(t) /\ job[t].repost /\ ~job[t].recent
    /\ \A t \in Tasks : Waiting(t) /\ shown \in Sources => job[t].source = shown
    /\ shown \in Sources /\ (\A t \in Tasks : ~Waiting(t)) =>
            /\ lastSource = {shown}
            /\ \E at \in Nat : lastAt = {at} /\ \A t \in Tasks : Started(t) => job[t].seen <= at

TurnOK == ~disturbed => InTurn

LEMMA Placed ==
    ASSUME NEW j \in Jobs, NEW p \in Places
    PROVE  LET k == [j EXCEPT !.at = p]
           IN  /\ k \in Jobs /\ k.at = p /\ k.source = j.source /\ k.seen = j.seen
               /\ k.repost = j.repost /\ k.recent = j.recent
               /\ j.seen \in Nat /\ j.source \in Sources
BY DEF Jobs

\* Task t is, or becomes, k; no later task has started, and k's update is the last.  If k is
\* done the memory is written.
LEMMA TurnTakes ==
    ASSUME BInv, BInv', NEW t \in Tasks, NEW k \in Jobs,
           job'[t] = k, \A u \in Tasks : u # t => job'[u] = job[u],
           now' = now, k.seen <= now,
           \A u \in Tasks : Started(u) => job[u] \in Jobs /\ job[u].seen <= now,
           \A u, v \in Tasks : u < v /\ Started(v) =>
                Started(u) /\ ~Waiting(u) /\ job[u].seen <= job[v].seen /\ Apart(job[u], job[v]),
           \A u \in Tasks : t < u => ~Started(u),
           \A u \in Tasks : u < t =>
                Started(u) /\ ~Waiting(u) /\ job[u].seen <= k.seen /\ Apart(job[u], k),
           \A u \in promotions : u # t => Started(u) /\ job[u].repost /\ ~job[u].recent,
           \A u \in promotions' : u # t => u \in promotions,
           t \in promotions' => k.repost /\ ~k.recent,
           shown' \in Sources => k.source = shown',
           k.at = "done" => lastSource' = {k.source} /\ lastAt' = {k.seen}
    PROVE  InTurn'
<1>0. Tasks \subseteq Nat /\ now \in Nat /\ promotions' \subseteq Tasks
  BY BridgeAssumption DEF BInv, BridgeTypeOK
<1>00. k.seen \in Nat /\ k # NoJob /\ k.at \in Places
  BY DEF Jobs, NoJob, Places
<1>1. \A u \in Tasks : Started(u)' => job'[u] \in Jobs /\ job'[u].seen <= now'
  BY DEF Started
<1>2. ASSUME NEW u \in Tasks, NEW v \in Tasks, u < v, Started(v)'
      PROVE  Started(u)' /\ ~Waiting(u)' /\ job'[u].seen <= job'[v].seen
                /\ Apart(job'[u], job'[v])
  <2>1. CASE v = t
    <3>1. u # t /\ job'[u] = job[u] /\ job'[v] = k
      BY <1>0, <1>2, <2>1
    <3>2. Started(u) /\ ~Waiting(u) /\ job[u].seen <= k.seen /\ Apart(job[u], k)
      BY <1>2, <2>1
    <3> QED BY <3>1, <3>2 DEF Started, Waiting
  <2>2. CASE v # t
    <3>1. Started(v) /\ job'[v] = job[v]
      BY <1>2, <2>2 DEF Started
    <3>2. u # t /\ job'[u] = job[u]
      BY <1>2, <3>1
    <3>3. Started(u) /\ ~Waiting(u) /\ job[u].seen <= job[v].seen /\ Apart(job[u], job[v])
      BY <1>2, <3>1
    <3> QED BY <3>1, <3>2, <3>3 DEF Started, Waiting
  <2> QED BY <2>1, <2>2
<1>3. ASSUME NEW u \in promotions' PROVE Started(u)' /\ job'[u].repost /\ ~job'[u].recent
  BY <1>0, <1>00, <1>3 DEF Started
<1>4. \A u \in Tasks : u # t => ~Waiting(u)'
  <2> SUFFICES ASSUME NEW u \in Tasks, u # t PROVE ~Waiting(u)'
    OBVIOUS
  <2>1. u < t \/ t < u
    BY <1>0
  <2>2. job'[u] = job[u] /\ ~Waiting(u)
    BY <2>1 DEF Waiting, Started, NoJob
  <2> QED BY <2>2 DEF Waiting
<1>5. \A u \in Tasks : Waiting(u)' /\ shown' \in Sources => job'[u].source = shown'
  BY <1>4
<1>6. ASSUME shown' \in Sources, \A u \in Tasks : ~Waiting(u)'
      PROVE  /\ lastSource' = {shown'}
             /\ \E at \in Nat : lastAt' = {at} /\ \A u \in Tasks : Started(u)' => job'[u].seen <= at
  <2>1. k.at = "done"
    BY <1>00, <1>6 DEF Waiting, Places
  <2>2. \A u \in Tasks : Started(u)' => job'[u].seen <= k.seen
    <3> SUFFICES ASSUME NEW u \in Tasks, Started(u)', u # t PROVE job'[u].seen <= k.seen
      BY <1>00
    <3>1. job'[u] = job[u] /\ Started(u) /\ (u < t \/ t < u)
      BY <1>0 DEF Started
    <3> QED BY <3>1
  <2> QED BY <1>00, <1>6, <2>1, <2>2
<1> QED BY <1>1, <1>2, <1>3, <1>5, <1>6 DEF InTurn

\* A waiting task goes on.
LEMMA TurnMoves ==
    ASSUME BInv, BInv', InTurn, NEW t \in Tasks, Waiting(t), NEW p \in Places,
           job' = [job EXCEPT ![t] = [job[t] EXCEPT !.at = p]], UNCHANGED <<now, shown>>,
           promotions' = promotions
             \/ (promotions' = promotions \union {t} /\ job[t].repost /\ ~job[t].recent),
           p = "done" => lastSource' = {job[t].source} /\ lastAt' = {job[t].seen}
    PROVE  InTurn'
<1> DEFINE k == [job[t] EXCEPT !.at = p]
<1>1. job[t] \in Jobs /\ job[t].at \in Places /\ Started(t)
  BY JobTypes DEF BInv, Waiting, Jobs, Started, NoJob
<1>2. /\ k \in Jobs /\ k.at = p /\ k.source = job[t].source /\ k.seen = job[t].seen
      /\ k.repost = job[t].repost /\ k.recent = job[t].recent
  BY <1>1, Placed
<1>3. job'[t] = k /\ \A u \in Tasks : u # t => job'[u] = job[u]
  BY DEF BInv, BridgeTypeOK
<1> HIDE DEF k
<1>4. \A u \in Tasks : t < u => ~Started(u)
  BY DEF InTurn
<1>5. \A u \in Tasks : u < t =>
         Started(u) /\ ~Waiting(u) /\ job[u].seen <= k.seen /\ Apart(job[u], k)
  BY <1>1, <1>2 DEF InTurn, Apart
<1>6. /\ \A u \in Tasks : Started(u) => job[u] \in Jobs /\ job[u].seen <= now
      /\ \A u, v \in Tasks : u < v /\ Started(v) =>
           Started(u) /\ ~Waiting(u) /\ job[u].seen <= job[v].seen /\ Apart(job[u], job[v])
      /\ \A u \in promotions : Started(u) /\ job[u].repost /\ ~job[u].recent
      /\ shown \in Sources => job[t].source = shown
  BY DEF InTurn
<1>7. k.seen <= now
  BY <1>1, <1>2, <1>6
<1>8. t \in promotions' => k.repost /\ ~k.recent
  BY <1>2, <1>6
<1>9. \A u \in promotions' : u # t => u \in promotions
  OBVIOUS
<1>10. (shown' \in Sources => k.source = shown')
       /\ (k.at = "done" => lastSource' = {k.source} /\ lastAt' = {k.seen})
  BY <1>2, <1>6
<1> QED BY <1>2, <1>3, <1>4, <1>5, <1>6, <1>7, <1>8, <1>9, <1>10, TurnTakes

\* An update comes while no task is at work.
LEMMA TurnUpdates ==
    ASSUME BInv, BInv', InTurn, ~disturbed', NEW t \in Tasks, NEW s \in Sources, Update(t, s)
    PROVE  InTurn'
<1> DEFINE repost == shown = s /\ now - PostTime[s] >= MinAge
           j == [at |-> "source", source |-> s, seen |-> now, repost |-> repost,
                 recent |-> Recent(s), wake |-> FreshAt(s, now) /\ ~repost]
<1>0. Tasks \subseteq Nat /\ now \in Nat /\ Debounce \in Nat /\ promotions \subseteq Tasks
      /\ job \in [Tasks -> Jobs \union {NoJob, Dropped}]
  BY BridgeAssumption DEF BInv, BridgeTypeOK
<1>1. /\ IF Accepts(queue, s) THEN Ingest(t, j) ELSE AfterSource(t, j) /\ UNCHANGED wakes
      /\ job[t] = NoJob /\ shown' = s /\ now' = now /\ \A u \in Tasks : ~Waiting(u)
      /\ \A u \in Tasks : u < t => Started(u)
  BY DEF Update, Started
<1>2. /\ j \in Jobs /\ j.source = s /\ j.seen = now /\ (j.repost => shown = s)
      /\ j.recent = Recent(s)
  <2>1. /\ repost \in BOOLEAN /\ Recent(s) \in BOOLEAN /\ (FreshAt(s, now) /\ ~repost) \in BOOLEAN
    BY DEF Recent
  <2>2. j \in Jobs
    BY <1>0, <2>1 DEF Jobs, Places
  <2>3. /\ j.repost = repost /\ j.source = s /\ j.seen = now /\ j.recent = Recent(s)
    OBVIOUS
  <2> HIDE DEF j
  <2> QED BY <2>2, <2>3
<1> HIDE DEF j
<1>3. PICK p \in {"source", "promoted", "done"} :
        /\ job' = [job EXCEPT ![t] = [j EXCEPT !.at = p]]
        /\ \/ promotions' = promotions
           \/ promotions' = promotions \union {t} /\ j.repost /\ ~j.recent
        /\ p = "done" => lastSource' = {j.source} /\ lastAt' = {j.seen}
  <2>1. CASE Accepts(queue, s)
    BY <1>1, <2>1 DEF Ingest
  <2>2. CASE ~Accepts(queue, s) /\ Promotes(t, j)
    BY <1>1, <2>2 DEF AfterSource, Promotes
  <2>3. CASE ~Accepts(queue, s) /\ ~Promotes(t, j)
    BY <1>1, <2>3 DEF AfterSource
  <2> QED BY <2>1, <2>2, <2>3
<1> DEFINE k == [j EXCEPT !.at = p]
<1>4. /\ k \in Jobs /\ k.at = p /\ k.source = s /\ k.seen = now
      /\ k.repost = j.repost /\ k.recent = j.recent
  <2>1. p \in Places
    BY DEF Places
  <2> QED BY <1>2, <2>1, Placed
<1>5. job'[t] = k /\ \A u \in Tasks : u # t => job'[u] = job[u]
  BY <1>0, <1>3
<1> HIDE DEF k
<1>6. ~Started(t)
  BY <1>1 DEF Started
<1>7. \A u \in Tasks : t < u => ~Started(u)
  BY <1>6 DEF InTurn
<1>8. \A u \in Tasks : Started(u) => job[u].seen <= now /\ job[u].seen \in Nat
  BY DEF InTurn, Jobs
<1>9. ASSUME k.repost, ~k.recent, NEW u \in Tasks, Started(u)
      PROVE  k.seen - job[u].seen >= Debounce
  <2>1. shown = s /\ ~Recent(s)
    BY <1>2, <1>4, <1>9
  <2>2. /\ lastSource = {s}
        /\ \E at \in Nat : lastAt = {at} /\ \A v \in Tasks : Started(v) => job[v].seen <= at
    BY <1>1, <2>1 DEF InTurn
  <2>3. PICK at \in Nat : lastAt = {at} /\ job[u].seen <= at
    BY <1>9, <2>2
  <2>4. ~(now - at < Debounce)
    BY <2>1, <2>2, <2>3 DEF Recent
  <2> QED BY <1>0, <1>4, <1>8, <1>9, <2>3, <2>4
<1>10. \A u \in Tasks : u < t =>
         Started(u) /\ ~Waiting(u) /\ job[u].seen <= k.seen /\ Apart(job[u], k)
  BY <1>1, <1>4, <1>8, <1>9 DEF Apart
<1>11. /\ \A u \in Tasks : Started(u) => job[u] \in Jobs /\ job[u].seen <= now
       /\ \A u, v \in Tasks : u < v /\ Started(v) =>
            Started(u) /\ ~Waiting(u) /\ job[u].seen <= job[v].seen /\ Apart(job[u], job[v])
       /\ \A u \in promotions : Started(u) /\ job[u].repost /\ ~job[u].recent
  BY DEF InTurn
<1>12. t \in promotions' => k.repost /\ ~k.recent
  BY <1>3, <1>4, <1>6, <1>11
<1>13. \A u \in promotions' : u # t => u \in promotions
  BY <1>3
<1>14. k.source = shown' /\ now' = now /\ k.seen <= now
       /\ (k.at = "done" => lastSource' = {k.source} /\ lastAt' = {k.seen})
  BY <1>0, <1>1, <1>2, <1>3, <1>4
<1> QED BY <1>4, <1>5, <1>7, <1>10, <1>11, <1>12, <1>13, <1>14, TurnTakes

LEMMA TurnStep ==
    ASSUME BInv, TurnOK, [Next]_vars
    PROVE  TurnOK'
<1>0. BInv'
  BY BridgeStep
<1> SUFFICES ASSUME ~disturbed' PROVE InTurn'
  BY DEF TurnOK
<1>1. CASE \E t \in Tasks, s \in Sources : Update(t, s)
  <2>1. InTurn
    BY <1>1 DEF TurnOK, Update
  <2> QED BY <1>0, <1>1, <2>1, TurnUpdates
<1>2. ASSUME NEW t \in Tasks,
             SourceSaved(t) \/ DeferSource(t) \/ DeferSaved(t) \/ PromotionSaved(t)
      PROVE  InTurn'
  <2>1. InTurn /\ Waiting(t) /\ job[t] \in Jobs /\ UNCHANGED <<now, shown, promotions>>
    BY <1>2, JobTypes
    DEF TurnOK, SourceSaved, DeferSource, DeferSaved, PromotionSaved, Waiting, BInv
  <2>2. PICK p \in Places :
          /\ job' = [job EXCEPT ![t].at = p]
          /\ p = "done" => lastSource' = {job[t].source} /\ lastAt' = {job[t].seen}
    BY <1>2 DEF SourceSaved, DeferSource, DeferSaved, PromotionSaved, Places
  <2>3. job' = [job EXCEPT ![t] = [job[t] EXCEPT !.at = p]]
    BY <2>2
  <2> QED BY <1>0, <2>1, <2>2, <2>3, TurnMoves
<1>3. ASSUME NEW t \in Tasks, SourceDone(t) PROVE InTurn'
  <2>1. InTurn /\ Waiting(t) /\ UNCHANGED <<now, shown>> /\ AfterSource(t, job[t])
    BY <1>3 DEF TurnOK, SourceDone, Waiting
  <2>2. PICK p \in {"promoted", "done"} :
          /\ job' = [job EXCEPT ![t] = [job[t] EXCEPT !.at = p]]
          /\ \/ promotions' = promotions
             \/ promotions' = promotions \union {t} /\ job[t].repost /\ ~job[t].recent
          /\ p = "done" => lastSource' = {job[t].source} /\ lastAt' = {job[t].seen}
    <3>1. CASE Promotes(t, job[t])
      BY <2>1, <3>1 DEF AfterSource, Promotes
    <3>2. CASE ~Promotes(t, job[t])
      BY <2>1, <3>2 DEF AfterSource
    <3> QED BY <3>1, <3>2
  <2>3. p \in Places
    BY DEF Places
  <2> QED BY <1>0, <2>1, <2>2, <2>3, TurnMoves
<1>4. CASE ShowNothing \/ Store \/ Tick \/ UNCHANGED vars
  <2>1. InTurn /\ UNCHANGED <<memVars, job, promotions>> /\ (now' = now \/ now' = now + 1)
        /\ (shown' = shown \/ shown' = Nothing)
    BY <1>4 DEF TurnOK, ShowNothing, Store, Tick, vars
  <2>2. shown' \in Sources => shown' = shown
    BY <2>1, BridgeAssumption
  <2>3. now \in Nat /\ now' \in Nat /\ now <= now'
    BY <2>1 DEF BInv, BridgeTypeOK
  <2>4. \A t \in Tasks : Started(t)' = Started(t) /\ job'[t] = job[t]
    BY <2>1 DEF Started
  <2>5. ASSUME NEW t \in Tasks, Started(t) PROVE job[t] \in Jobs /\ job[t].seen <= now'
    BY <2>1, <2>3, <2>5 DEF InTurn, Jobs
  <2>6. \A t \in Tasks : Started(t)' => job'[t] \in Jobs /\ job'[t].seen <= now'
    BY <2>4, <2>5
  <2>7. job' = job /\ promotions' = promotions /\ lastSource' = lastSource /\ lastAt' = lastAt
    BY <2>1 DEF memVars
  <2>8. \A t, u \in Tasks : t < u /\ Started(u)' =>
          Started(t)' /\ ~Waiting(t)' /\ job'[t].seen <= job'[u].seen /\ Apart(job'[t], job'[u])
    BY <2>1, <2>7 DEF InTurn, Started, Waiting
  <2>9. \A t \in promotions' : Started(t)' /\ job'[t].repost /\ ~job'[t].recent
    BY <2>1, <2>7 DEF InTurn, Started
  <2>10. \A t \in Tasks : Waiting(t)' /\ shown' \in Sources => job'[t].source = shown'
    BY <2>1, <2>2, <2>7 DEF InTurn, Waiting
  <2>11. shown' \in Sources /\ (\A t \in Tasks : ~Waiting(t)') =>
            /\ lastSource' = {shown'}
            /\ \E at \in Nat : lastAt' = {at} /\ \A t \in Tasks : Started(t)' => job'[t].seen <= at
    BY <2>1, <2>2, <2>7 DEF InTurn, Started, Waiting
  <2> QED BY <2>6, <2>8, <2>9, <2>10, <2>11 DEF InTurn
<1>5. CASE StartUp
  BY <1>5 DEF StartUp
<1> QED BY <1>1, <1>2, <1>3, <1>4, <1>5 DEF Next

\* While the updates do not overlap, the promotions of one notification are at least Debounce
\* apart.
THEOREM RapidRepostsAreOne == Spec => []RepostsCollapse
<1>1. Init => TurnOK
  BY BridgeAssumption DEF Init, TurnOK, InTurn, Started, Waiting, NoJob
<1>2. BInv /\ TurnOK /\ [Next]_vars => TurnOK'
  BY TurnStep
<1>3. BInv /\ TurnOK => RepostsCollapse
  <2> SUFFICES ASSUME BInv, InTurn, NEW t \in promotions, NEW u \in promotions, t < u
               PROVE  job[u].seen - job[t].seen >= Debounce
    BY DEF TurnOK, RepostsCollapse, PromotionsApart
  <2>1. t \in Tasks /\ u \in Tasks
    BY DEF BInv, BridgeTypeOK
  <2> QED BY <2>1 DEF InTurn, Apart
<1> QED BY <1>1, <1>2, <1>3, BridgeInductive, PTL DEF Spec
=============================================================================
