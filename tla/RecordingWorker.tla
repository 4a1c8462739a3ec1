-------------------------- MODULE RecordingWorker --------------------------
(***************************************************************************)
(* The automatic recording pipeline of one config entry: notifications and *)
(* cloud events reach the coordinator's queue, the one serialized worker   *)
(* (recording_worker.py, as refined by recording_worker_v138.py) wakes the *)
(* camera for the events it may wake it for, and the user presses the      *)
(* recovery and the clearing button.  All run as tasks of one event loop:  *)
(* an action runs from one await to the next, and the save of the queue is *)
(* the await that the tasks race in.                                       *)
(*                                                                         *)
(* A camera session fails, finds a duplicate, or finalizes a file, after   *)
(* which it ends as its own step: what happens on the wire is left to the  *)
(* download modules.  The media directory belongs to the user too, who may *)
(* remove a file at any time.  Retry delays and the settle time only       *)
(* matter through what may happen meanwhile.                               *)
(***************************************************************************)
EXTENDS Coordinator

CONSTANTS
    Android,        \* the events of source "android_notification"
    EventTime,      \* notification_post_time, or alarm_time
    MaxAge,         \* AUTOMATIC_RECORDING_EVENT_MAX_AGE
    MaxAttempts,    \* MAX_ATTEMPTS_PER_TRIGGER
    Matches,        \* per event: the SD-card recordings FileInfo may map it to
    Worker, Recover, Clear, Unload,     \* tasks; an ingesting task is named by its event
    MaxTime, MaxRestarts, MaxPresses,   \* bounds on the environment
    MayUnload       \* whether the environment unloads the entry

ASSUME WorkerAssumption ==
    /\ Android \subseteq Events
    /\ EventTime \in [Events -> Nat] /\ MaxAge \in Nat
    /\ MaxAttempts \in Nat \ {0}
    /\ Matches \in [Events -> SUBSET Recordings]
    /\ Events \union {Worker, Recover, Clear, Unload} \subseteq Tasks
    /\ {Worker, Recover, Clear, Unload} \intersect Events = {}
    /\ Worker \notin {Recover, Clear, Unload} /\ Unload \notin {Recover, Clear}
    /\ MaxTime \in Nat /\ MaxRestarts \in Nat /\ MaxPresses \in Nat
    /\ MayUnload \in BOOLEAN

VARIABLES
    now,        \* the clock
    files,      \* recordings whose finalized MP4 is in the media directory
    published,  \* per recording: ready events fired
    restarts, presses,
    \* memory of the worker, lost by a restart
    activated,  \* _activated_event_ids
    manual,     \* _manual_recovery_event_ids
    credit,     \* _automatic_first_attempt_credit_event_ids
    trigger,    \* _trigger
    stopped,    \* _stopped
    at,         \* where the worker is
    todo,       \* what is left of the list it iterates over
    asOf,       \* the time it took that list
    cur,        \* the event it works on, or a candidate; a set of at most one
    got,        \* the recording the session finalized for cur; a set of at most one
    attempt,    \* attempts made for cur since it was selected
    \* memory of the other tasks
    ingest,     \* per event: what its ingesting task does after the save
    recovering, \* the recovery button's handler runs
    recoverTodo, recoverIds,
    cleared,    \* ids the clearing button's handler removed and still saves
    \* history of this run of the process
    backlog,    \* events that were pending when it started
    woken,      \* events the camera was woken for
    asked,      \* events the user asked to recover
    freshOnce   \* events that were fresh when they were notified

envVars == <<now, files, published, restarts, presses>>
setVars == <<activated, manual, credit, trigger>>
workVars == <<at, todo, asOf, cur, got, attempt>>
buttonVars == <<recovering, recoverTodo, recoverIds, cleared>>
histVars == <<backlog, woken, asked, freshOnce>>
vars == <<coordVars, envVars, setVars, stopped, workVars, ingest, buttonVars, histVars>>

-----------------------------------------------------------------------------
FreshAt(e, t) == t <= EventTime[e] + MaxAge
Fresh(e) == FreshAt(e, now)
Pending == IdsOf(queue.pending)

\* max(..., key=_event_time): the first of the newest, in queue order.
Newest(ids) ==
    LET S == {i \in DOMAIN queue.pending : queue.pending[i] \in ids}
        T(i) == EventTime[queue.pending[i]]
    IN  queue.pending[CHOOSE i \in S :
                        \A j \in S : T(i) > T(j) \/ (T(i) = T(j) /\ i <= j)]

SelectFrom(ids) == IF ids = {} THEN {} ELSE {Newest(ids)}

\* Mutant: an event that went stale while it waited is not chosen.
CandidatesFreshOnly ==
    {e \in (Android \intersect Pending) \ queue.deferred :
        e \in manual \/ (e \in activated /\ Fresh(e))}

\* What _next_android_event may choose.
Candidates ==
    {e \in (Android \intersect Pending) \ queue.deferred :
        e \in manual \/ e \in credit \/ (e \in activated /\ Fresh(e))}

\* _newer_pending_event: the next choice is newer than cur.
NewerWaits ==
    \E e \in SelectFrom(Candidates) \ cur : \A c \in cur : EventTime[e] > EventTime[c]

\* Mutant: every notified event gets the credit.
NotifyCreditsAll(ids) ==
    /\ activated' = activated \union ids
    /\ credit' = credit \union (ids \intersect Android)
    /\ freshOnce' = freshOnce \union {e \in ids : Fresh(e)}
    /\ trigger' = TRUE
    /\ UNCHANGED manual

\* Mutant: the trigger is not set.
NotifyWithoutTrigger(ids) ==
    /\ activated' = activated \union ids
    /\ credit' = credit \union {e \in (ids \intersect Pending) \ queue.deferred : Fresh(e)}
    /\ freshOnce' = freshOnce \union {e \in ids : Fresh(e)}
    /\ UNCHANGED <<manual, trigger>>

Notify(ids) ==
    /\ activated' = activated \union ids
    /\ credit' = credit \union
                 {e \in (ids \intersect Android \intersect Pending) \ queue.deferred : Fresh(e)}
    /\ freshOnce' = freshOnce \union {e \in ids : Fresh(e)}
    /\ trigger' = TRUE
    /\ UNCHANGED manual

Forget(ids) ==
    /\ activated' = activated \ ids
    /\ manual' = manual \ ids
    /\ credit' = credit \ ids

\* The elements of s after the first one that is in ids.
After(s, ids) ==
    LET k == CHOOSE i \in DOMAIN s :
                s[i] \in ids /\ \A j \in 1 .. i - 1 : s[j] \notin ids
    IN  SubSeq(s, k + 1, Len(s))
First(s, ids) == Head(Without(s, IdsOf(s) \ ids))

-----------------------------------------------------------------------------
(* Ingesting: the notification bridge's closure and the cloud poll *)

\* async_ingest_events([event]); wake is allow_automatic_wake, which the
\* bridge grants to fresh events only.  An id that is known changes nothing.
Arrive(e, wake) ==
    /\ ~stopped /\ ~Saving(e) /\ ingest[e] = "none"
    /\ EventTime[e] <= now /\ Accepts(queue, e)
    /\ wake => e \in Android /\ Fresh(e)
    /\ IngestEvents(e, <<e>>)
    /\ ingest' = [ingest EXCEPT ![e] = IF wake THEN "notify"
                                       ELSE IF e \in Android THEN "defer" ELSE "none"]
    /\ UNCHANGED <<envVars, setVars, stopped, workVars, buttonVars, histVars>>

ArriveNotifies(e) ==
    /\ ingest[e] = "notify" /\ Return(e)
    /\ Notify({e})
    /\ ingest' = [ingest EXCEPT ![e] = "none"]
    /\ UNCHANGED <<envVars, stopped, workVars, buttonVars, backlog, woken, asked>>

\* "initial_state_stale"
ArriveDefers(e) ==
    /\ ingest[e] = "defer" /\ ~Saving(e)
    /\ DeferEvent(e, e)
    /\ ingest' = [ingest EXCEPT ![e] = "none"]
    /\ UNCHANGED <<envVars, setVars, stopped, workVars, buttonVars, histVars>>

IngestReturns(e) ==
    /\ ingest[e] # "notify" /\ Return(e)
    /\ UNCHANGED <<envVars, setVars, stopped, workVars, ingest, buttonVars, histVars>>

-----------------------------------------------------------------------------
(* Startup recovery: async_prepare_startup_recovery, before async_run *)

Boot ==
    /\ at = "boot"
    /\ asOf' = now
    /\ todo' = Without(queue.pending, {e \in Events : e \notin Android \/ Fresh(e)})
    /\ at' = "bootStale"
    /\ UNCHANGED <<coordVars, envVars, setVars, stopped, cur, got, attempt, ingest,
                   buttonVars, histVars>>

\* Mutant: all eligible events are selected, none is skipped.
BootStaleSelectsAll ==
    /\ at = "bootStale" /\ ~Saving(Worker)
    /\ cur' = {e \in (Android \intersect Pending) \ queue.deferred : FreshAt(e, asOf)}
    /\ todo' = << >> /\ at' = "bootSkip"
    /\ UNCHANGED <<coordVars, envVars, setVars, stopped, asOf, got, attempt, ingest,
                   buttonVars, histVars>>

\* The next stale event that is not deferred yet, or the choice among the rest.
BootStale ==
    /\ at = "bootStale" /\ ~Saving(Worker)
    /\ LET left == IdsOf(todo) \ queue.deferred IN
       IF left # {}
       THEN /\ DeferEvent(Worker, First(todo, left))
            /\ todo' = After(todo, left)
            /\ UNCHANGED <<at, cur>>
       ELSE LET eligible == {e \in (Android \intersect Pending) \ queue.deferred :
                                FreshAt(e, asOf)}
            IN  /\ cur' = SelectFrom(eligible)
                /\ todo' = Without(queue.pending, (Events \ eligible) \union cur')
                /\ at' = "bootSkip"
                /\ UNCHANGED coordVars
    /\ UNCHANGED <<envVars, setVars, stopped, asOf, got, attempt, ingest, buttonVars,
                   histVars>>

\* "startup_not_selected"
BootSkip ==
    /\ at = "bootSkip" /\ ~Saving(Worker) /\ todo # << >>
    /\ DeferEvent(Worker, Head(todo))
    /\ todo' = Tail(todo)
    /\ UNCHANGED <<envVars, setVars, stopped, at, asOf, cur, got, attempt, ingest,
                   buttonVars, histVars>>

BootDone ==
    /\ at = "bootSkip" /\ ~Saving(Worker) /\ todo = << >>
    /\ IF cur = {} THEN UNCHANGED <<setVars, freshOnce>> ELSE Notify(cur)
    /\ at' = "idle" /\ cur' = {} /\ asOf' = 0
    /\ UNCHANGED <<coordVars, envVars, stopped, todo, got, attempt, ingest, buttonVars,
                   backlog, woken, asked>>

BootReturns ==
    /\ at \in {"bootStale", "bootSkip"} /\ Return(Worker)
    /\ UNCHANGED <<envVars, setVars, stopped, workVars, ingest, buttonVars, histVars>>

-----------------------------------------------------------------------------
(* The worker: async_run and _process_trigger *)

\* _defer_stale_activated_events starts on the queue of this moment.
StartSweep ==
    at' = "sweep" /\ todo' = queue'.pending /\ asOf' = now /\ cur' = {} /\ attempt' = 0

WakeUp ==
    /\ at = "idle" /\ trigger
    /\ UNCHANGED coordVars
    /\ trigger' = FALSE
    /\ IF stopped THEN at' = "done" /\ UNCHANGED <<todo, asOf, cur, attempt>> ELSE StartSweep
    /\ UNCHANGED <<envVars, activated, manual, credit, stopped, got, ingest, buttonVars,
                   histVars>>

\* Mutant: the credit does not protect stale work.
OverdueDespiteCredit ==
    {e \in IdsOf(todo) : e \in activated /\ e \notin manual /\ ~FreshAt(e, asOf)}

\* Stale work that was activated automatically and has no credit left.
Overdue ==
    {e \in IdsOf(todo) : /\ e \in activated /\ e \notin manual /\ e \notin credit
                         /\ ~FreshAt(e, asOf)}

\* _defer_event(e): an event that left the queue meanwhile is only forgotten.
Defers(e, saving) ==
    /\ DeferEvent(Worker, e)
    /\ IF e \in Pending
       THEN at' = saving /\ cur' = {e} /\ UNCHANGED setVars
       ELSE at' = "sweep" /\ cur' = {} /\ Forget({e}) /\ UNCHANGED trigger

Sweep ==
    /\ at = "sweep" /\ Overdue # {}
    /\ Defers(First(todo, Overdue), "sweepSave")
    /\ todo' = After(todo, Overdue)
    /\ UNCHANGED <<envVars, stopped, asOf, got, attempt, ingest, buttonVars, histVars>>

\* The save returns; only now are the ids discarded from the worker's sets.
SweepSaved ==
    /\ at = "sweepSave" /\ Return(Worker)
    /\ Forget(cur)
    /\ at' = "sweep" /\ cur' = {}
    /\ UNCHANGED <<envVars, trigger, stopped, todo, asOf, got, attempt, ingest,
                   buttonVars, histVars>>

\* _next_android_event, with the clock of this moment.
PickNext ==
    /\ at = "sweep" /\ Overdue = {}
    /\ cur' = IF stopped THEN {} ELSE SelectFrom(Candidates)
    /\ at' = IF stopped THEN "done" ELSE IF Candidates = {} THEN "idle" ELSE "settle"
    /\ todo' = << >> /\ asOf' = 0
    /\ UNCHANGED <<coordVars, envVars, setVars, stopped, got, attempt, ingest, buttonVars,
                   histVars>>

\* The settle wait ends by timeout or by the stop; newer events do not end it.
\* Then the first attempt consumes the credit and opens the camera session.
Settle ==
    /\ at = "settle"
    /\ IF stopped THEN at' = "done" /\ UNCHANGED <<credit, woken>>
       ELSE /\ at' = "session"
            /\ credit' = credit \ cur
            /\ woken' = woken \union cur
    /\ UNCHANGED <<coordVars, envVars, activated, manual, trigger, stopped, todo, asOf,
                   cur, got, attempt, ingest, buttonVars, backlog, asked, freshOnce>>

\* The session fails with a stage, also after it finalized the file, or the file is not
\* there with its size when it is checked.  A stale manual event without a match, or the
\* last attempt, defers cur; a newer event preempts the retry; otherwise the worker waits
\* to retry.
SessionFails(match) ==
    /\ at = "session" \/ (at = "ending" /\ ~match)
    /\ got' = {}
    /\ \E e \in cur :
        LET terminal == match /\ e \in manual /\ ~Fresh(e)
        IN  \/ /\ terminal \/ attempt + 1 = MaxAttempts
               /\ DeferEvent(Worker, e)
               /\ IF e \in Pending
                  THEN /\ at' = "deferSave" /\ attempt' = 0
                       /\ UNCHANGED <<activated, manual, credit, todo, asOf, cur>>
                  ELSE Forget({e}) /\ StartSweep
            \/ /\ ~terminal /\ attempt + 1 < MaxAttempts
               /\ UNCHANGED <<coordVars, activated, manual, credit>>
               /\ IF stopped THEN at' = "done" /\ UNCHANGED <<todo, asOf, cur, attempt>>
                  ELSE IF NewerWaits THEN StartSweep
                  ELSE at' = "retryWait" /\ attempt' = attempt + 1 /\ UNCHANGED <<todo, asOf, cur>>
    /\ UNCHANGED <<envVars, trigger, stopped, ingest, buttonVars, histVars>>

DeferSaved ==
    /\ at = "deferSave" /\ Return(Worker)
    /\ Forget(cur)
    /\ StartSweep
    /\ UNCHANGED <<envVars, trigger, stopped, got, ingest, buttonVars, histVars>>

\* _wait_retry_or_newer_event: the delay elapses, whatever else was set ...
RetryElapses ==
    /\ at = "retryWait"
    /\ at' = "session"
    /\ UNCHANGED <<coordVars, envVars, setVars, stopped, todo, asOf, cur, got, attempt,
                   ingest, buttonVars, histVars>>

\* ... or the trigger wakes the wait, which consumes it.
RetryWoken ==
    /\ at = "retryWait" /\ trigger
    /\ UNCHANGED coordVars
    /\ IF stopped THEN at' = "done" /\ UNCHANGED <<trigger, todo, asOf, cur, attempt>>
       ELSE /\ trigger' = FALSE
            /\ IF NewerWaits THEN StartSweep ELSE UNCHANGED <<at, todo, asOf, cur, attempt>>
    /\ UNCHANGED <<envVars, activated, manual, credit, stopped, got, ingest, buttonVars,
                   histVars>>

\* FileInfo maps cur to a recording that is already remembered.
SessionFindsDuplicate(r) ==
    /\ at = "session" /\ r \in IdsOf(queue.completed)
    /\ \E e \in cur :
        /\ r \in Matches[e]
        /\ CompleteEvent(Worker, e, {})
        /\ IF e \in Pending
           THEN /\ at' = "completeSave" /\ attempt' = 0
                /\ UNCHANGED <<activated, manual, credit, todo, asOf, cur>>
           ELSE Forget({e}) /\ StartSweep
    /\ UNCHANGED <<envVars, trigger, stopped, got, ingest, buttonVars, histVars>>

\* Mutant: the known fingerprints are not consulted.
SessionFinalizesAgain(r) ==
    /\ at = "session"
    /\ \E e \in cur : r \in Matches[e]
    /\ files' = files \union {r}
    /\ at' = "ending" /\ got' = {r}
    /\ UNCHANGED <<coordVars, now, published, restarts, presses, setVars, stopped, todo, asOf,
                   cur, attempt, ingest, buttonVars, histVars>>

\* FileInfo maps cur to a new recording, whose file is transferred and finalized; what
\* the download still awaits at its end comes after.
SessionFinalizes(r) ==
    /\ at = "session" /\ r \notin IdsOf(queue.completed)
    /\ \E e \in cur : r \in Matches[e]
    /\ files' = files \union {r}
    /\ at' = "ending" /\ got' = {r}
    /\ UNCHANGED <<coordVars, now, published, restarts, presses, setVars, stopped, todo, asOf,
                   cur, attempt, ingest, buttonVars, histVars>>

\* Mutant: the ready event is fired before the completion is saved.
SessionPublishesFirst(r) ==
    /\ at = "ending" /\ r \in got /\ got \subseteq files
    /\ \E e \in cur : r \in Matches[e] /\ CompleteEvent(Worker, e, {r})
    /\ published' = [published EXCEPT ![r] = @ + 1]
    /\ at' = "completeSave" /\ got' = {} /\ attempt' = 0
    /\ UNCHANGED <<now, files, restarts, presses, setVars, stopped, todo, asOf, cur, ingest,
                   buttonVars, histVars>>

\* Mutant: the file is not checked before the completion.
SessionSavesUnchecked(r) ==
    /\ at = "ending" /\ r \in got
    /\ \E e \in cur : r \in Matches[e] /\ CompleteEvent(Worker, e, {r})
    /\ at' = "completeSave" /\ attempt' = 0
    /\ UNCHANGED <<envVars, setVars, stopped, todo, asOf, cur, got, ingest, buttonVars,
                   histVars>>

\* The session ended well and the file is in its place with its size: the completion is
\* saved with the fingerprint.
SessionSaves(r) ==
    /\ at = "ending" /\ r \in got /\ got \subseteq files
    /\ \E e \in cur : r \in Matches[e] /\ CompleteEvent(Worker, e, {r})
    /\ at' = "completeSave" /\ attempt' = 0
    /\ UNCHANGED <<envVars, setVars, stopped, todo, asOf, cur, got, ingest, buttonVars,
                   histVars>>

\* The completion is saved, or was no change: the ready event is fired, for a new recording.
Publish ==
    /\ at = "completeSave"
    /\ IF Saving(Worker) THEN Return(Worker) ELSE UNCHANGED coordVars
    /\ published' = [r \in Recordings |-> IF r \in got THEN published[r] + 1 ELSE published[r]]
    /\ got' = {}
    /\ Forget(cur)
    /\ StartSweep
    /\ UNCHANGED <<now, files, restarts, presses, trigger, stopped, ingest, buttonVars,
                   histVars>>

-----------------------------------------------------------------------------
(* The buttons *)

MakesManual(ids) ==
    /\ manual' = manual \union ids /\ activated' = activated \union ids
    /\ trigger' = TRUE
    /\ recovering' = FALSE /\ recoverTodo' = << >> /\ recoverIds' = {}
    /\ UNCHANGED credit

\* The handler's loop up to its next await: the next listed event that is deferred now is
\* rearmed; when none is left, all listed events become manual work.
Rearms(list, ids) ==
    LET left == IdsOf(list) \intersect queue.deferred IN
    IF left # {}
    THEN /\ RearmEvent(Recover, First(list, left))
         /\ recovering' = TRUE /\ recoverTodo' = After(list, left) /\ recoverIds' = ids
         /\ UNCHANGED setVars
    ELSE UNCHANGED coordVars /\ MakesManual(ids)

PressRecover ==
    /\ ~stopped /\ ~recovering /\ ~Saving(Recover) /\ presses < MaxPresses
    /\ Android \intersect Pending # {}
    /\ Rearms(Without(queue.pending, Events \ Android), Android \intersect Pending)
    /\ asked' = asked \union (Android \intersect Pending)
    /\ presses' = presses + 1
    /\ UNCHANGED <<now, files, published, restarts, stopped, workVars, ingest, cleared,
                   backlog, woken, freshOnce>>

RecoverStep ==
    /\ recovering /\ ~Saving(Recover)
    /\ Rearms(recoverTodo, recoverIds)
    /\ UNCHANGED <<envVars, stopped, workVars, ingest, cleared, histVars>>

\* A rearming is saved, and the loop ends if nothing is left to rearm.
RecoverReturns ==
    /\ Return(Recover)
    /\ IF IdsOf(recoverTodo) \intersect queue.deferred = {} THEN MakesManual(recoverIds)
       ELSE UNCHANGED <<setVars, recovering, recoverTodo, recoverIds>>
    /\ UNCHANGED <<envVars, stopped, workVars, ingest, cleared, histVars>>

PressClear ==
    /\ ~stopped /\ ~Saving(Clear) /\ presses < MaxPresses
    /\ queue.deferred \intersect Android # {}
    /\ ClearDeferred(Clear, Android)
    /\ cleared' = queue.deferred \intersect Android \intersect Pending
    /\ presses' = presses + 1
    /\ UNCHANGED <<now, files, published, restarts, setVars, stopped, workVars, ingest,
                   recovering, recoverTodo, recoverIds, histVars>>

ClearSaved ==
    /\ Return(Clear)
    /\ Forget(cleared)
    /\ cleared' = {}
    /\ UNCHANGED <<envVars, trigger, stopped, workVars, ingest, recovering, recoverTodo,
                   recoverIds, histVars>>

-----------------------------------------------------------------------------
(* Time, unloading and restarts *)

Tick ==
    /\ now < MaxTime /\ now' = now + 1
    /\ UNCHANGED <<coordVars, files, published, restarts, presses, setVars, stopped,
                   workVars, ingest, buttonVars, histVars>>

\* The media directory is the user's: a file may be moved, replaced or removed.
FileRemoved(r) ==
    /\ r \in files /\ files' = files \ {r}
    /\ UNCHANGED <<coordVars, now, published, restarts, presses, setVars, stopped, workVars,
                   ingest, buttonVars, histVars>>

\* async_unload_entry: the bridge, the worker and then the coordinator stop.
UnloadEntry ==
    /\ MayUnload /\ ~stopped /\ at \notin {"boot", "bootStale", "bootSkip"}
    /\ stopped' = TRUE /\ trigger' = TRUE
    /\ Shutdown(Unload)
    /\ UNCHANGED <<envVars, activated, manual, credit, workVars, ingest, buttonVars, histVars>>

UnloadReturns ==
    /\ Return(Unload)
    /\ UNCHANGED <<envVars, setVars, stopped, workVars, ingest, buttonVars, histVars>>

\* The process dies, or the unloaded entry is set up again.
StartUp ==
    /\ restarts < MaxRestarts /\ restarts' = restarts + 1
    /\ Restart
    /\ activated' = {} /\ manual' = {} /\ credit' = {}
    /\ trigger' = FALSE /\ stopped' = FALSE
    /\ at' = "boot" /\ todo' = << >> /\ asOf' = 0 /\ cur' = {} /\ got' = {} /\ attempt' = 0
    /\ ingest' = [e \in Events |-> "none"]
    /\ recovering' = FALSE /\ recoverTodo' = << >> /\ recoverIds' = {} /\ cleared' = {}
    /\ backlog' = IdsOf(queue'.pending)
    /\ woken' = {} /\ asked' = {} /\ freshOnce' = {}
    /\ UNCHANGED <<now, files, published, presses>>

Store ==
    /\ StoreBegin \/ StoreWrite
    /\ UNCHANGED <<envVars, setVars, stopped, workVars, ingest, buttonVars, histVars>>

-----------------------------------------------------------------------------
Init ==
    /\ CoordInit
    /\ now = 0 /\ files = {} /\ published = [r \in Recordings |-> 0]
    /\ restarts = 0 /\ presses = 0
    /\ activated = {} /\ manual = {} /\ credit = {} /\ trigger = FALSE /\ stopped = FALSE
    /\ at = "boot" /\ todo = << >> /\ asOf = 0 /\ cur = {} /\ got = {} /\ attempt = 0
    /\ ingest = [e \in Events |-> "none"]
    /\ recovering = FALSE /\ recoverTodo = << >> /\ recoverIds = {} /\ cleared = {}
    /\ backlog = {} /\ woken = {} /\ asked = {} /\ freshOnce = {}

IngestStep(e) ==
    ArriveNotifies(e) \/ ArriveDefers(e) \/ IngestReturns(e)

SessionEnds ==
    \/ \E match \in BOOLEAN : SessionFails(match)
    \/ \E r \in Recordings : SessionFindsDuplicate(r) \/ SessionFinalizes(r) \/ SessionSaves(r)

WorkerStep ==
    \/ Boot \/ BootStale \/ BootSkip \/ BootDone \/ BootReturns
    \/ WakeUp \/ Sweep \/ SweepSaved \/ PickNext \/ Settle \/ SessionEnds
    \/ DeferSaved \/ RetryElapses \/ RetryWoken \/ Publish

ButtonStep == RecoverStep \/ RecoverReturns \/ ClearSaved

Environment ==
    \/ \E e \in Events, wake \in BOOLEAN : Arrive(e, wake)
    \/ \E r \in Recordings : FileRemoved(r)
    \/ PressRecover \/ PressClear \/ Tick \/ UnloadEntry \/ StartUp

Next ==
    \/ Environment \/ WorkerStep \/ ButtonStep \/ UnloadReturns \/ Store
    \/ \E e \in Events : IngestStep(e)

Spec == Init /\ [][Next]_vars

\* The event loop runs every ready task, the executor finishes every write,
\* every wait and every camera session has a timeout.  Nothing is assumed of
\* the environment.
Fairness ==
    /\ WF_vars(WorkerStep) /\ WF_vars(ButtonStep) /\ WF_vars(UnloadReturns)
    /\ WF_vars(Store)
    /\ \A e \in Events : WF_vars(IngestStep(e))

FairSpec == Spec /\ Fairness

-----------------------------------------------------------------------------
(* Safety *)

WorkerTypeOK ==
    /\ now \in Nat /\ files \subseteq Recordings /\ published \in [Recordings -> Nat]
    /\ restarts \in Nat /\ presses \in Nat
    /\ activated \subseteq Events /\ manual \subseteq Events /\ credit \subseteq Events
    /\ trigger \in BOOLEAN /\ stopped \in BOOLEAN
    /\ at \in {"boot", "bootStale", "bootSkip", "idle", "sweep", "sweepSave", "settle",
               "session", "ending", "retryWait", "deferSave", "completeSave", "done"}
    /\ todo \in Seq(Events) /\ asOf \in Nat
    /\ cur \subseteq Events /\ got \subseteq Recordings /\ attempt \in Nat
    /\ ingest \in [Events -> {"none", "notify", "defer"}]
    /\ recovering \in BOOLEAN
    /\ recoverTodo \in Seq(Events) /\ recoverIds \subseteq Events /\ cleared \subseteq Events
    /\ backlog \subseteq Events /\ woken \subseteq Events
    /\ asked \subseteq Events /\ freshOnce \subseteq Events

TypeOK == CoordTypeOK /\ WorkerTypeOK

\* A ready event is fired only for a recording whose fingerprint is on disk
\* (_process_once: "Persist the recording fingerprint before publishing the
\* ready event").
PublishedIsDurable ==
    \A r \in Recordings : published[r] > 0 =>
        r \in IdsOf(disk.completed) \/ Len(disk.completed) = MaxCompleted

\* While the list of fingerprints has room, a recording is announced once,
\* across retries, notifications for the same clip, crashes and restarts.
PublishedOnce ==
    Cardinality(Recordings) <= MaxCompleted => \A r \in Recordings : published[r] <= 1

\* Of the events left by an earlier run at most one wakes the camera without
\* being asked for (startup_recovery_policy newest_fresh_non_deferred_only),
\* while the dedupe list has room: one that left the queue and expired from
\* the list may be notified anew.
StartupWakesAtMostOne ==
    Cardinality(Events) <= MaxProcessed =>
        Cardinality((woken \intersect backlog) \ asked) <= 1

\* The camera is woken for events that were fresh when they were notified, or
\* that the user asked to recover: stale backlog never wakes it.
StaleNeverWakes == woken \subseteq asked \union freshOnce

\* No lost wake-up: a worker that waits for its trigger has no work, although
\* the retry wait clears the trigger too.  An event that was forgotten and is
\* ingested anew may be permitted already; its task sets the trigger or defers it.
NoLostWakeup ==
    at = "idle" /\ ~trigger /\ ~recovering => \A e \in Candidates : ingest[e] # "none"

\* Ids the worker defers in a step.  The others are deferred by the task that
\* ingested them without wake permission, or by a restart that reloads them.
DeferredByWorker ==
    IF restarts' = restarts
    THEN {e \in queue'.deferred \ queue.deferred : ingest[e] # "defer"} ELSE {}

\* The running worker defers an event that holds a first-attempt credit only
\* after it woke the camera for it, however long it was busy (CHECKPOINT.md
\* invariant 10).
CreditKept ==
    [][at \notin {"boot", "bootStale", "bootSkip"} =>
         DeferredByWorker \intersect credit \subseteq woken]_vars

\* The recordings that may complete the event of the session.
Completing ==
    IF at = "ending" THEN got \intersect files
    ELSE IF at = "session" THEN IdsOf(queue.completed) ELSE {}

\* An event leaves the queue because the recording just finalized for it is in place, or
\* because one of its recordings was remembered before; because the user cleared it while
\* it was deferred; or because the full queue lost its oldest entry.
RemovalJustified ==
    [][\A e \in Pending \ IdsOf(queue'.pending) :
         \/ e \in cur /\ Matches[e] \intersect Completing # {}
         \/ e \in cleared' /\ e \in queue.deferred
         \/ Len(queue.pending) = MaxPending /\ e = Head(queue.pending)
         \/ restarts' # restarts /\ e \notin IdsOf(disk.pending)]_vars

-----------------------------------------------------------------------------
(* Liveness *)

\* A first-attempt credit does not stay unused: the camera is woken for its
\* event, or the event leaves the queue, is deferred, or the worker stops.
CreditHonoured ==
    \A e \in Events :
        e \in credit ~> e \notin credit \/ e \notin Pending \ queue.deferred \/ stopped

-----------------------------------------------------------------------------
(* What the source promises and the code does not keep *)

\* "Activate an event and preserve one first attempt if it is fresh now"
\* (notify): an event with a credit is not deferred before the camera was
\* woken for it, whoever defers it.
CreditPreserved == [][DeferredByWorker \intersect credit \subseteq woken]_vars

\* "A manual request re-arms deferred pending events, marks all current
\* Android events as explicit recovery work and wakes the serialized worker"
\* (async_request_manual_recovery): the camera is woken for an event of the
\* request that was tried before, unless it leaves the queue or the worker stops.
ManualHonoured ==
    \A e \in Events :
        e \in recoverIds \intersect woken
            ~> (at \in {"session", "ending"} /\ e \in cur) \/ e \notin Pending \/ stopped
=============================================================================
