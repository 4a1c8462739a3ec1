------------------------- MODULE NotificationBridge -------------------------
(***************************************************************************)
(* The bridge from the phone's Last Notification sensor to the event queue *)
(* (notification_bridge.py) and the ingesting closure of __init__.py.      *)
(*                                                                         *)
(* Every matching state change of the sensor starts a task that reads the  *)
(* bridge's memory, hands the notification to the coordinator, waits for   *)
(* the saves and only then writes the memory: the tasks of two updates     *)
(* overlap.  Android may repost one notification for a later alarm with    *)
(* its old post_time; such a stale repost is promoted to an event of its   *)
(* own, whose time is that of the update.                                  *)
(***************************************************************************)
EXTENDS Coordinator

CONSTANTS
    Sources,        \* the notifications for this camera, by their event id
    Nothing,        \* the sensor shows no notification for this camera
    PostTime,       \* notification_post_time
    MaxAge,         \* AUTOMATIC_RECORDING_EVENT_MAX_AGE
    MinAge,         \* _STALE_REPOST_MIN_AGE_SECONDS
    Debounce,       \* _STALE_REPOST_DEBOUNCE_SECONDS
    SlowStore,      \* whether a save may take longer than the unit of time
    MaxTime, MaxRestarts    \* bounds on the environment; Tasks bounds the updates

ASSUME BridgeAssumption ==
    /\ Sources \subseteq Events /\ Nothing \notin Sources
    /\ PostTime \in [Sources -> Nat]
    /\ MaxAge \in Nat /\ MinAge \in Nat /\ Debounce \in Nat
    /\ SlowStore \in BOOLEAN /\ MaxTime \in Nat /\ MaxRestarts \in Nat
    /\ Tasks \subseteq Nat /\ Sources \X Tasks \subseteq Events
    \* the ids of promoted reposts have a prefix of their own
    /\ Sources \intersect (Sources \X Tasks) = {}

VARIABLES
    now, restarts,
    shown,      \* the state of the sensor
    lastSource, \* _last_source_event_id; a set of at most one id
    lastAt,     \* _last_source_observed_at; a set of at most one time
    job,        \* per task: the update it handles and where it is
    \* history
    backlog,    \* events that were pending when this run of the process started
    disturbed,  \* in this run two tasks overlapped, or an earlier run came before it
    promotions, \* tasks that promoted a repost in this run
    wakes       \* per event: how often the recording worker was notified of it

memVars == <<lastSource, lastAt>>
vars == <<coordVars, now, restarts, shown, memVars, job, backlog, disturbed, promotions, wakes>>

NoJob == [at |-> "none"]
Waiting(t) == job[t].at \notin {"none", "done"}

-----------------------------------------------------------------------------
FreshAt(s, at) == at <= PostTime[s] + MaxAge

\* _promote_stale_repost: the id is a hash of the source's id and the
\* observation time in milliseconds, which no two updates share.
Promoted(s, t) == <<s, t>>

\* Seconds between two updates, as both stand in the bridge's memory.
Recent(s) == s \in lastSource /\ \E at \in lastAt : now - at < Debounce

\* Mutant: every repost is promoted.
PromotesAlways(t, j) == j.repost /\ Accepts(queue, Promoted(j.source, t))

Promotes(t, j) == j.repost /\ ~j.recent /\ Accepts(queue, Promoted(j.source, t))

\* The rest of async_process_attributes once the source is ingested: promote
\* a stale repost and wait for its save, or finish.
AfterSource(t, j) ==
    IF Promotes(t, j)
    THEN /\ IngestEvents(t, << Promoted(j.source, t) >>)
         /\ job' = [job EXCEPT ![t] = [j EXCEPT !.at = "promoted"]]
         /\ promotions' = promotions \union {t}
         /\ UNCHANGED memVars
    ELSE /\ job' = [job EXCEPT ![t] = [j EXCEPT !.at = "done"]]
         /\ lastSource' = {j.source} /\ lastAt' = {j.seen}
         /\ UNCHANGED <<coordVars, promotions>>

\* Mutant: the worker is notified before the event is saved.
IngestNotifiesFirst(t, j) ==
    /\ IngestEvents(t, << j.source >>)
    /\ job' = [job EXCEPT ![t] = [j EXCEPT !.at = "source", !.wake = FALSE]]
    /\ wakes' = IF j.wake THEN [wakes EXCEPT ![j.source] = @ + 1] ELSE wakes
    /\ UNCHANGED <<memVars, promotions>>

\* ingest_notification of a source that is not known yet.
Ingest(t, j) ==
    /\ IngestEvents(t, << j.source >>)
    /\ job' = [job EXCEPT ![t] = [j EXCEPT !.at = "source"]]
    /\ UNCHANGED <<memVars, promotions, wakes>>

\* A state change of the sensor to notification s, and its task up to the
\* first await.  The update is a repost if the sensor showed s before.
Update(t, s) ==
    /\ job[t] = NoJob /\ \A u \in Tasks : u < t => job[u] # NoJob
    /\ PostTime[s] <= now
    /\ LET repost == shown = s /\ now - PostTime[s] >= MinAge
           j == [at |-> "source", source |-> s, seen |-> now, repost |-> repost,
                 recent |-> Recent(s), wake |-> FreshAt(s, now) /\ ~repost]
       IN  IF Accepts(queue, s) THEN Ingest(t, j) ELSE AfterSource(t, j) /\ UNCHANGED wakes
    /\ shown' = s
    /\ disturbed' = (disturbed \/ \E u \in Tasks : Waiting(u))
    /\ UNCHANGED <<now, restarts, backlog>>

\* Another app's notification, or the sensor is unavailable.
ShowNothing ==
    /\ shown # Nothing /\ shown' = Nothing
    /\ UNCHANGED <<coordVars, now, restarts, memVars, job, backlog, disturbed, promotions,
                   wakes>>

\* Mutant: the wake permission is not consulted.
SourceSavedNotifies(t) ==
    /\ job[t].at = "source" /\ Return(t)
    /\ job' = [job EXCEPT ![t].at = "resume"]
    /\ wakes' = [wakes EXCEPT ![job[t].source] = @ + 1]
    /\ UNCHANGED <<now, restarts, shown, memVars, backlog, disturbed, promotions>>

\* The source is saved: the worker is notified of an event that may wake the
\* camera, any other is to be deferred.
SourceSaved(t) ==
    /\ job[t].at = "source" /\ Return(t)
    /\ job' = [job EXCEPT ![t].at = IF job[t].wake THEN "resume" ELSE "defer"]
    /\ wakes' = IF job[t].wake THEN [wakes EXCEPT ![job[t].source] = @ + 1] ELSE wakes
    /\ UNCHANGED <<now, restarts, shown, memVars, backlog, disturbed, promotions>>

\* Mutant: a source without wake permission stays as it is.
DeferSourceForgotten(t) ==
    /\ job[t].at = "defer" /\ ~Saving(t)
    /\ job' = [job EXCEPT ![t].at = "resume"]
    /\ UNCHANGED <<coordVars, now, restarts, shown, memVars, backlog, disturbed, promotions,
                   wakes>>

\* "initial_state_stale"; an event that left the queue meanwhile is not saved.
DeferSource(t) ==
    /\ job[t].at = "defer" /\ ~Saving(t)
    /\ DeferEvent(t, job[t].source)
    /\ job' = [job EXCEPT ![t].at = IF job[t].source \in IdsOf(queue.pending)
                                    THEN "deferred" ELSE "resume"]
    /\ UNCHANGED <<now, restarts, shown, memVars, backlog, disturbed, promotions, wakes>>

DeferSaved(t) ==
    /\ job[t].at = "deferred" /\ Return(t)
    /\ job' = [job EXCEPT ![t].at = "resume"]
    /\ UNCHANGED <<now, restarts, shown, memVars, backlog, disturbed, promotions, wakes>>

SourceDone(t) ==
    /\ job[t].at = "resume" /\ ~Saving(t)
    /\ AfterSource(t, job[t])
    /\ UNCHANGED <<now, restarts, shown, backlog, disturbed, wakes>>

PromotionSaved(t) ==
    /\ job[t].at = "promoted" /\ Return(t)
    /\ wakes' = [wakes EXCEPT ![Promoted(job[t].source, t)] = @ + 1]
    /\ job' = [job EXCEPT ![t].at = "done"]
    /\ lastSource' = {job[t].source} /\ lastAt' = {job[t].seen}
    /\ UNCHANGED <<now, restarts, shown, backlog, disturbed, promotions>>

Store ==
    /\ StoreBegin \/ StoreWrite
    /\ UNCHANGED <<now, restarts, shown, memVars, job, backlog, disturbed, promotions, wakes>>

Tick ==
    /\ now < MaxTime /\ now' = now + 1
    /\ SlowStore \/ savers = << >>
    /\ UNCHANGED <<coordVars, restarts, shown, memVars, job, backlog, disturbed, promotions,
                   wakes>>

\* The process dies and starts again, or the entry is reloaded: the bridge
\* remembers the latest pending event, with no observation time.
StartUp ==
    /\ restarts < MaxRestarts /\ restarts' = restarts + 1
    /\ Restart
    /\ lastSource' = IdsOf(LastOf(queue'.pending, 1)) /\ lastAt' = {}
    /\ job' = [t \in Tasks |-> IF Waiting(t) THEN [at |-> "done"] ELSE job[t]]
    /\ backlog' = IdsOf(queue'.pending)
    /\ disturbed' = TRUE /\ promotions' = {}
    /\ UNCHANGED <<now, shown, wakes>>

-----------------------------------------------------------------------------
Init ==
    /\ CoordInit
    /\ now = 0 /\ restarts = 0 /\ shown = Nothing
    /\ lastSource = {} /\ lastAt = {}
    /\ job = [t \in Tasks |-> NoJob]
    /\ backlog = {} /\ disturbed = FALSE /\ promotions = {}
    /\ wakes = [e \in Events |-> 0]

Next ==
    \/ \E t \in Tasks :
        \/ \E s \in Sources : Update(t, s)
        \/ SourceSaved(t) \/ DeferSource(t) \/ DeferSaved(t) \/ SourceDone(t)
        \/ PromotionSaved(t)
    \/ ShowNothing \/ Store \/ Tick \/ StartUp

Spec == Init /\ [][Next]_vars

-----------------------------------------------------------------------------
(* What the bridge promises *)

\* While the dedupe list has room no event is notified twice, across reposts,
\* overlapping tasks, crashes and restarts.
WokenOnce == Cardinality(Events) <= MaxProcessed => \A e \in Events : wakes[e] <= 1

\* The worker is notified of an event only once the event is on disk: a crash
\* cannot lose the record of an event the camera was woken for.
WokenIsDurable ==
    Cardinality(Events) <= MaxProcessed =>
        \A e \in Events : wakes[e] > 0 => e \in IdsOf(disk.processed)

\* When the tasks are done, each event of this run either woke the worker or
\* is deferred: no event is left that nothing will ever process, and no stale
\* one that a later notification could drag along.
NothingInLimbo ==
    (\A t \in Tasks : ~Waiting(t)) =>
        \A e \in IdsOf(queue.pending) \ backlog : wakes[e] > 0 \/ e \in queue.deferred

\* The time of an event that wakes the worker is at most MaxAge before the
\* update: "The stale source itself is retained without wake permission; only
\* this callback-time promotion may wake the automatic worker".
StaleSourceNeverWakes ==
    [][\A s \in Sources : wakes'[s] > wakes[s] =>
            \E t \in Tasks : job[t].at = "source" /\ job[t].source = s
                                /\ FreshAt(s, job[t].seen) /\ ~job[t].repost]_vars

PromotionsApart ==
    \A t, u \in promotions :
        t < u /\ job[t].source = job[u].source => job[u].seen - job[t].seen >= Debounce

\* "Collapse rapid reposts": the promotions of one notification are at least
\* Debounce apart, unless an update came while another was being ingested.
RepostsCollapse == ~disturbed => PromotionsApart

-----------------------------------------------------------------------------
(* What the source promises and the code does not keep *)

\* "Collapse rapid reposts to avoid duplicate downloads caused by one Android
\* notification being updated several times" (async_process_attributes): the
\* same, whatever the tasks of the updates do in between.
RapidRepostsCollapse == PromotionsApart
=============================================================================
