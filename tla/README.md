# Reolink Battery: specification and verification

TLA+ modules that model the Home Assistant integration `reolink_battery`
(`src/custom_components/reolink_battery/`), TLC configurations that check them
on small instances, and proofs that TLAPS checks for every instance.

The integration watches a phone's *Last Notification* sensor. When the Reolink
app announces a motion alarm of a battery camera it wakes the camera, finds the
recording of the alarm on the SD card, downloads and verifies it, stores it in
the media directory and fires an event. Waking the camera costs battery, so
most of the code is about *not* waking it: for an old notification, for the
same notification twice, for the backlog of a restart. The camera serves one
session at a time, which Live View has to give up when a recording is due.

Paths below are relative to `src/custom_components/reolink_battery/`.

## 1. Inventory

All Python code runs as tasks of one event loop (blocking I/O in executor
threads), so a step runs from one `await` to the next. What can interleave is
what awaits: the save of the queue, the camera session, waits and timeouts.

| Component | State | Operations | Talks to | What is hard |
|---|---|---|---|---|
| Event queue (`events.py`) | `_processed` (512) and `_processed_set`, `_pending` (100), `_completed_recordings` (256), `_deferred` | `enqueue`, `remove`, `defer`, `rearm`, `discard_deferred`, `remember_completed_recording`, `load`, `as_storage` | coordinator | four bounded lists that must agree; the list and its set differ on purpose when an id expires while pending |
| Coordinator (`coordinator.py`) | the queue, cloud session | ingest, complete, defer, rearm, clear, shutdown, cloud poll; each awaits a save | Home Assistant's `Store`, everybody below | tasks see a change before it is on disk; saves wait for each other; a crash between them |
| Notification bridge (`notification_bridge.py`, closure in `__init__.py`) | last source id and time, tasks | state change handler; ingest, defer, promote | coordinator, worker | the tasks of two updates overlap; reposts with a stale time; memory read before and written after the awaits |
| Recording worker (`recording_worker.py`, `recording_worker_v138.py`) | trigger, activated, manual and credited ids | startup recovery, notify, sweep, select, settle, attempt, retry, preempt, defer, complete, manual recovery, clear | coordinator, hub, camera | priorities, credits and deferrals change during every await; retry wait and main loop share one trigger |
| Buttons (`button.py`) | – | recover, clear; status, probe, prepare download | worker, camera lock | run beside the worker |
| Live View hub (`live_http.py`) | consumer queues, producer task, stop event, priority depth | subscribe, unsubscribe, frame, finish, pause, resume, stop | go2rtc, worker, camera lock | races for the one producer; a bounded wait with cancellation; full queues |
| Live stream session (`live_stream.py`) | one camera session | stream until the stop event | hub | runs in the background while the hub changes its mind |
| Camera session (`camera.py`, `recording_probe.py`, `recording_download_probe.py`) | discovery lease, connection, list handle | resolve, connect or adopt, log in, query or list and select, transfer, log out, close, release | worker, buttons, transport | every await may fail or be cancelled; the camera stays awake for a session nobody ends |
| Recording lookup (`recording_probe.py`) | handle, pages | open with retries, page, close, choose the nearest | camera session | four ways for a list to end, one of them an error; ties |
| UDP session (`recording_download_probe_beta19.py`, `_beta20.py`) | receive window, acknowledgements, reliable commands | receive, acknowledge every 10 ms, send, send again | camera, download | lost, repeated and reordered datagrams in both directions |
| Verified download (`recording_download_beta22.py` over `_beta21`, `_beta17`) | collector, `.part` file | collect, persist, flush, verify, rename, sync | UDP session, worker | limits that start from a size the camera may omit; a full disk; power loss |
| UID discovery (`lan.py`, `transport.py`) | a discovered socket | lease to one connection | every camera session | a socket that nobody owns for a moment |
| Cloud client (`cloud.py`) and account session (`coordinator.py`) | tokens in memory, in the entry, on disk | grant, refresh, profile, events | coordinator, setup dialogue | the cloud replaces tokens; a lost answer; a reload in between |
| Setup dialogue (`config_flow.py`) | tokens, step | user, code, device, camera credentials | cloud client, camera session | hands its tokens to the entry |
| Setup and unloading (`__init__.py`) | the runtime | setup, unload | all | order; what still runs when the entry is gone |
| Status values, go2rtc bridge, entities, options, diagnostics | – | – | – | pure parsing or read-only views |

What makes each component correct, in words:

* queue and coordinator: nothing pending is lost, nothing is accepted twice
  within the dedupe window, memory and file agree once the saves return;
* bridge: one notification wakes the worker once, and only when it is fresh;
* worker: the camera is woken for fresh or requested events only, a fresh event
  gets its attempt, a clip is announced once and after it is durable, no event
  leaves the queue without a reason;
* hub: one producer, none while a recording runs, consumers survive a
  recording, a recording always gets the camera;
* camera session: however it ends, it lets go of the camera and tries to close its
  list; the candidate is the only nearest recording of the day;
* UDP session: an ordered stream without gaps, and nothing acknowledged that is
  not held;
* download: a final file is whole and durable, no `.part` file is left, a
  complete transfer is not rejected;
* account session: what a reload starts with is what the poller uses, and polls
  succeed again after an outage.

`PROJECT.json` lists the hazards behind these properties at their lines.

## 2. Modules

| Module | Models | Extends |
|---|---|---|
| `EventQueue` | class `EventQueue` as a data type: one operator per method, on a record | |
| `Coordinator` | the coordinator's methods, Home Assistant's `Store` (external), crash and reload | `EventQueue` |
| `CoordinatorHistory` | the coordinator driven by tasks, with the history of accepted ids | `Coordinator` |
| `NotificationBridge` | sensor updates, their overlapping tasks, promotion and debounce | `Coordinator` |
| `RecordingWorker` | ingesting tasks, startup recovery, worker, buttons, unloading | `Coordinator` |
| `LiveHub` | consumers, producers, the recorder's pause and resume, the camera lock, unloading | |
| `FrameStream` | abstract: what a UDP session promises to a download | |
| `UdpStream` | the UDP session and its two reliable commands, the camera's window and the network (external); implements `FrameStream` | |
| `SdCard` | recordings: interval, file name, contents | |
| `CameraSession` | one session after another, of three kinds: `validate`, `find`, `download` | `SdCard` |
| `VerifiedDownload` | the collector, the `.part` file, verification, renaming, the disk; receives what `FrameStream` delivers | `FrameStream`, `SdCard` |
| `RecordingDownload` | a session with its download | `VerifiedDownload`, `CameraSession` |
| `CloudSession` | setup dialogue, poller, entry and disk, cloud (external) | |
| `MC*` | constants for TLC | |
| `CoordinatorProofs` | lemmas about the queue, theorems about the coordinator | `Coordinator`, TLAPS |
| `NotificationBridgeProofs` | theorems about the bridge | `NotificationBridge`, `CoordinatorProofs` |
| `RecordingWorkerProofs` | the pipeline's types, and that it uses the coordinator as specified | `RecordingWorker`, `CoordinatorProofs` |
| `RecordingWorkerSafety` | what the pipeline never does | `RecordingWorkerProofs` |
| `LiveHubProofs`, `UdpStreamProofs`, `RecordingDownloadProofs`, `CloudSessionProofs` | theorems about one module each | that module, TLAPS |

**Composition.** The methods of `EventQueue` are pure, so they are operators
and `Coordinator` holds the one queue variable. A method of the coordinator is
an action `Method(t, ...)` of a task `t`: it changes the queue and enters the
Store in one step, and `Return(t)` is the step in which `async_save` returns to
`t`. Bridge and worker compose the coordinator by conjunction: their handlers
are cut at the saves, `SomeHandler == guard /\ CoordinatorMethod(t, ...) /\
...`, followed by `SomethingSaved == Return(t) /\ ...` for the code after the
`await`. A crash is `Restart` with the components' memory reset. The hub shares
no state with the queue, only the camera lock and the worker's pause and resume,
so it is a module of its own in which the worker is a small cycle.

The download has three layers. `UdpStream` shows that the code above the
datagrams sees an ordered stream, and `VerifiedDownload` takes `FrameStream` for
granted (it delivers one frame a step, the finest grain of the abstract action).
`RecordingDownload` conjoins it with `CameraSession`: the selection of a
candidate begins the download in the same step, as there is no `await` between
them; `pc` of the download is not `"idle"` exactly in the session's stage
`"transfer"`; a lost connection and a loss of power strike both. In
`RecordingWorker` this whole composition is one action with its outcomes; that
the outcomes are these is by inspection, not by a refinement.

**The Store.** `async_save` remembers the latest contents and takes a
first-come first-served lock; a writer takes the contents, writes them to a
temporary file and replaces the file; a waiter that finds the contents already
taken returns. `savers` is the line, `phase` is what its head does. Only what
the integration relies on is modelled; a write error is logged by Home
Assistant and `async_save` returns, which would look like a crash of the write
that nobody notices: not modelled, nor is Home Assistant's last write on exit.

**Abstractions.**

* An event is its id, a recording its fingerprint; the id of a promoted repost
  is the pair of its source and its task (in the code a hash of the source's id
  and the time in milliseconds, which two updates do not share).
* A deferral is a member of a set. Its reason and time only show up in the
  diagnostics, except that they make every deferral a change, so `DeferEvent`
  always saves.
* Times are small numbers. Settle time and retry delays only matter through
  what may happen during them, so those waits may end at any moment.
* A camera session of the worker finds a duplicate, fails, or finalizes a file
  (`SessionFinalizes`) and then still ends as a step of its own, well or not. The
  file may have been removed meanwhile (`FileRemoved`: the media directory is the
  user's), so that the worker's check of it before the completion matters; of its
  size, only that it is the file's. What FileInfo maps an event to is chosen from
  the constant `Matches`.
* A handler of a button runs with its first awaited call in one step. Between the
  return of a save and the task's next call other tasks may run in the model, an
  over-approximation for the loop over the re-armed events; where it ends, in the
  step in which the last save returns, its marks are made.
* `RecordingWorker` restarts and reloads by `StartUp`: tasks of the old run are
  gone. That they may outlive a reload is a listed hazard, not yet modelled.
  So is a media directory that does not exist.
* Where a save returns and the code goes on without another `await`, the model
  has one step when it matters (`SweepSaved`, `Publish`, `PromotionSaved`) and
  two when the second may be delayed without harm (`BootReturns` then `BootStale`):
  the model then has more interleavings than the code, never fewer.
* A file is a sequence of units, one of which (`Ftyp`) is the MP4 head. A frame
  is what decryption and XML parsing make of it: command, response code, size,
  handle, data. A unit stands for one byte in the byte limits and for 2048 bytes
  in the frame limit, so that `FrameLimit` is a frame for each unit and one more.
* The disk: a file is buffered, written or synced; a loss of power may cut what
  is not synced and undo a rename whose directory was not. Data of a left-over
  `.part` file is never read, so it is dropped.
* A `CameraSession` ends when its `finally` clauses have run, each of which may
  be cancelled or fail. `alive` holds the identities for which the camera may keep
  a session; its own time-out comes with the next session. A disconnect is one
  datagram without an answer: sent, failed or cancelled, the identity is gone or
  `"told"`. `"stray"` is an identity that no task can disconnect any more: of a
  resolution or connect that was cancelled or timed out after the camera had
  answered, of a failed adoption, of a connection whose socket failed here.
  A list whose closing (cmd16) was tried is `"closed"` if the camera heard it and
  `"left"` if not; `unread` says that a cmd14 was not answered, so that the camera
  may hold a list whose handle never arrived. Reconnecting a connection that was
  lost is left out: a download may not (`transport.py`), and the other kinds then
  run the same steps on a new socket.
* The bounds of a list (`PageSize`, `MaxPages`, `OpenRetries`) are constants; so
  are the targets' distances, which only matter relative to `Tolerance`.
* A token is valid, dead or missing; the lifetime the cloud announces is
  unknown, running or over. That the cloud replaces refresh tokens is an
  assumption, which `async_refresh_session` provides for by storing a new one.
  Home Assistant writes a changed entry some time later.
* The recorder's pause and `async_stop` may wait for the same producer, and the one
  that times out cancels it. The other then gets its `CancelledError`, which ends the
  worker's task with its hold on the hub (`PauseRaises`, `rec = "dead"`) or aborts the
  unloading (`UnloadRaises`). Both may also go on (`PauseReturns`, `UnloadReturns`), if
  the producer ended with another error. An attempt that waits for the producer it
  cancelled itself swallows its own cancellation (`RecorderCancelled`).
* Logging, telemetry and diagnostics fields are left out.

## 3. Runs

| Run | Module | Bounds | Shows |
|---|---|---|---|
| `coord_calls` | `MCCoordinatorHistory` | 4 ids, 2 tasks, lists of 3, 2 and 1, batches of 2, 5 acceptances | types, consistency, everything saved, restart loses nothing, the dedupe window |
| `bridge_reposts` | `MCNotificationBridge` | 2 notifications, 4 updates, times 0–4, queue of 2, 1 restart | woken once and durably, nothing in limbo, stale sources quiet, debounce without overlap |
| `worker_restart` | `MCRecordingWorker` | 2 notifications and a cloud event, 2 recordings, queue of 2, 1 restart at any step, files removed at any time (6.3 million states) | announced once and after the save, one startup wake-up, removals justified |
| `worker_buttons` | same, fair | 2 notifications, 1 press of a button, retries and preemption | no lost wake-up, stale work stays quiet, credits are kept and honoured |
| `worker_manual` | same, fair | 1 press | *violated*: a manual request is honoured |
| `live_shared` | `MCLiveHub`, fair | video and audio consumer with queues of 2, recorder, another user of the camera, unloading | one producer, recording undisturbed, consumers preserved, recording gets the camera, Live View resumes |
| `live_unload` | same | as above | *violated*: unloading stops Live View |
| `udp_lossy` | `MCUdpStream`, fair | 4 frames, window of 2, 1 retransmission, 1 acknowledgement in flight per direction (168,000 states) | an ordered stream (refinement), nothing acknowledged that is not held, the file arrives |
| `download` | `MCRecordingDownload` | 2 recordings, pages of 2, 2 pages, 10 scripts of the camera, limits of 2, 3 and 8 units, any number of sessions (1.9 million states) | nothing keeps the camera awake from here, closing of the list tried, right candidate, final file whole and durable, no `.part` file left, a whole transfer accepted |
| `download_disk_full` | same | same | *violated*: a failed session removes its `.part` file |
| `cloud_login` | `CloudSession`, fair | none (7,300 states) | the entry is current, polls succeed again |
| `cloud_outage` | same, no reloads | none | *violated*: polling recovers from every outage |

**Why the bounds are enough.** Each bounded list is at its limit in some run and
overflows there: 512, 100 and 256 are only compared with lengths, so 3, 2 and 1
meet the same branches. The dedupe window needs ids to expire while others are
pending, be reloaded and return: with lists of 3 and 2 four ids do it. Two
notifications suffice for preemption, duplicates (both may match one recording)
and startup selection (one chosen, one skipped); the third event of
`worker_restart` overflows the queue while the worker holds another one.
`MaxAttempts` is 2 instead of 3: a first attempt, a retry, and the end.
Freshness and debounce only compare, so times up to 4 cover before, at and after
each boundary. Three session names cover the one alive and the two an
`async_pause` and an `async_stop` may still wait for. Time, restarts,
presses, acceptances and batches are bounded by the constants `MaxTime`,
`MaxRestarts`, `MaxPresses`, `MaxAccepted` and `MaxBatch`, the updates of the
sensor by `Tasks`; acknowledgements in flight by `MaxAcks`, because their number
is not bounded by the code: packets themselves are few, as each is named by its
sequence number. `MayReload` turns reloads and crashes of `CloudSession` off.

Four frames with a window of two make the camera wait for acknowledgements
twice, and let a packet be lost, buffered behind a gap, repeated after it was
delivered, and acknowledged by a bitmap and by its base; one acknowledgement in
flight may still be as old as one likes. The scripts of `download` contain each
end of a transfer once: a completion code behind the data, data after it, too
much, too large for the cap, no size, no handle, no head, a refusal and an error
in the middle. Its three listings end by flag, by an empty page and by the page
limit (and each by an error), and its targets lie in a recording, between two at
the same distance, and as far behind the last one as the tolerance allows, which
is out of reach when the list breaks off before that one. Every constant of `CloudSession` is finite in the code, too.

`DedupeWindow` deserves a word. The code remembers 512 ids, but not the *last*
512: `load` appends the ids of pending events that had expired to the end of the
list and the next `as_storage` cuts as many from its front. What is guaranteed
is a window of `MaxProcessed + 1 - MaxPending` accepted ids (413), and every
pending id; the run shows that this holds across batches, overflows and crashes.

Deadlock is not checked: every system here may rest when the environment stops.

**Fairness.** `RecordingWorker!FairSpec` and `LiveHub!FairSpec` assume weak
fairness of the code's own steps: asyncio runs every ready task, the executor
finishes every write, and every wait in the code has a timeout (settle, retry,
pause, `async_stop`; camera sessions by their socket time-outs). The lock of the
camera is first come, first served, as asyncio's is, so no strong fairness is
needed. Nothing is assumed of the environment: nobody has to send a
notification, press a button, subscribe or unload, and no camera session has
to succeed. In `LiveHub` HTTP consumers keep reading what is queued, and the
stream itself never has to end on its own; it ends because it was told to.

In `UdpStream` the acknowledgement loop runs, the camera resends what was not
acknowledged (which is what the code relies on: it never asks for a packet), and
the network does not lose every copy of a packet nor every useful
acknowledgement (strong fairness). Commands need not arrive: `FileArrives`
speaks of the time after cmd8 did. In `CloudSession` the poll task runs
(`WF(Poll)`), an announced lifetime ends, and tokens do not expire in the middle
of every single poll (`SF(Profile)`, `SF(Events)`); the properties themselves
speak of behaviours in which the cloud is reachable from some time on.

## 4. What the runs found

Four properties quote the source and do not hold of the code; each has a run
whose counterexample shows how.

1. `ManualHonoured` – a press of the recovery button looks at each event once,
   awaits the saves of those it re-arms, and marks all of them at its end. If the
   worker defers an event that the press has passed, or re-armed, already, the
   event stays deferred, and the worker discards the mark when its save returns:
   the request is lost. (A press that comes while the worker's deferral is being
   saved re-arms behind it and is honoured.)
2. `UnloadStopsLiveView` – a subscription or a resume during unloading starts a
   producer that outlives the entry.
3. `FailureRemovesPart` – on a full disk closing the `.part` file raises, and
   the line that removes it is not reached.
4. `PollRecovers` – when the answer to a refresh is lost after the cloud replaced
   the token, every later poll sends the dead token: a failing refresh neither
   drops it nor falls back to the password.

Four more are stated in their modules, with a configuration that shows the
counterexample; they are not among the runs.

* `ClearedStaysKnown` (`CoordCleared.cfg`) – an event that stays deferred while
  512 later ids are accepted is known only because it is pending. Cleared and
  reloaded, it is accepted again.
* `CreditPreserved` (`WorkerStartup.cfg`) – a notification that arrives while
  startup recovery is saving deferrals is deferred as `startup_not_selected`,
  though fresh and credited.
* `RapidRepostsCollapse` (`BridgeRace.cfg`) – two reposts in quick succession are
  both promoted: the debounce memory is written only after the first one's saves.
* `SlowConsumerReconnects` (`LiveSlow.cfg`) – the consumer whose queue was full
  gets no end mark and waits for ever.

`WorkerTwoPresses.cfg` is a larger instance of `worker_buttons` (two
notifications and two presses), without liveness.

Three properties name what the code does not reach and exclude it.
`EndedMeansQuiet` says what a session can do from its end: no connection, socket
or sender stays open, and each identity it held was told to disconnect, which the
camera may not hear. It excludes the `"stray"` ones, and says that a session which
neither failed nor lost its connection leaves none. `ListClosed` speaks of the
attempt to close a list whose handle is known: the code ignores an error of cmd16,
and knows nothing of a list whose handle got lost. `PollSucceedsAgain` excludes the
tokens that ended without an announced lifetime, those that were replaced, and the
account that asks for a code again.

Two properties of the worker hold only with a clause that the attempt to prove
them brought to light; TLC shows the counterexample to the statement without it.
`StartupWakesAtMostOne` needs room in the dedupe list (`Cardinality(Events) <=
MaxProcessed`): an event of the backlog that left the queue and expired from the
list is notified anew and wakes the camera besides the one startup chose.
`NoLostWakeup` excepts an event whose ingesting task is still between its save and
its decision: an event that was cleared and forgotten and is ingested again may
still hold its permission of before, so that it is a candidate as soon as it is
in the queue; the task then sets the trigger, or defers it.

Where the strong statement fails, the part that does hold is checked in a
passing run: `DedupeWindow`, `CreditKept` (outside startup), `RepostsCollapse`
(without overlap), `NoPartLeft` (but for a full disk), `PollSucceedsAgain`.

## 5. Proofs

### The coordinator

For every number of events, recordings and tasks and all positive bounds,
`CoordinatorProofs` proves of `CoordSpec` (any task may make any call at any
time, with batches of any length, and the process may crash between any two
steps):

| Theorem | Property |
|---|---|
| `Inductive` | the inductive invariant `IInv` |
| `TypeCorrect` | `CoordTypeOK` |
| `Consistent` | `QueueConsistent`: bounded, duplicate-free, consistent lists in memory and in the file |
| `EverythingIsSaved` | `IdleMeansSaved` |
| `RestartIsLossless` | `RestartKeepsWork` |

The only assumption is `BoundsAssumption`, that the three bounds are positive.

*The argument.* The first part of the module shows of every method that it keeps `QueueOK`
(and of `AsStorage` and `Load` that they lead from `QueueOK` to `StorageOK` and
back), resting on lemmas about the sequences: what `LastOf` and `Without`
contain, that they keep elements distinct and how long they are. `QueueOK` has
two parts no run mentions by name and the rest needs: pending ids are in the
dedupe *set* although they may have left the list, and the list may exceed its
bound by the length of the pending list after a load.

`IdleMeansSaved` is not inductive: a save that returns says nothing of the file
unless one knows what the write in progress carries. `SavesInOrder` supplies it:
if the Store holds contents nobody has taken, the writer's successor exists and
will take them; otherwise what is being written, or was, is the current queue.
With it each step is a case: a method either leaves the queue alone and does not
save, or it joins the line (`CommitInv`); the Store's steps move the contents
on; the last return finds them in the file.

`EnqueueAll` and `Without` are recursive functions. That they exist and what
they preserve is proved by induction over the naturals through a least
counterexample, since the library's induction theorem cannot be instantiated here.

### The recording pipeline

Of `RecordingWorker!Spec`, for any number of events and recordings, any match of
one to the other, any times and any number of crashes, presses and attempts:

| Theorem | Property |
|---|---|
| `WorkerUsesCoordinator` | `Spec => CoordSpec`: the pipeline implements the coordinator's specification, so the five theorems above hold of it |
| `WorkerTypeCorrect` | `TypeOK` |
| `StaleBacklogSleeps` | `StaleNeverWakes` |
| `AnnouncedIsDurable` | `PublishedIsDurable` |
| `AnnouncedOnce` | `PublishedOnce`, if there are finitely many recordings |
| `NothingIsDropped` | `RemovalJustified` |
| `CreditIsKept` | `CreditKept` |
| `WakeUpsArrive` | `NoLostWakeup` |
| `StartupWakesOne` | `StartupWakesAtMostOne`, if there are finitely many events |

`WorkerAssumption` is added to the assumptions: the types of the constants, at
least one attempt per trigger, and that the tasks are different ones. It does not
relate the bounds to each other, nor `Matches` to anything.

*The refinement* (`RecordingWorkerProofs`). The variables of the coordinator are
the pipeline's own, so the mapping is the identity; what needs proof is that a
call is legal, that is, made by a task that is not waiting for its last one. For
ingesting tasks and buttons the code's guard says so; for the worker and the
unloading it follows from where they are, which `TasksOK` states: the worker
waits only in five places and the unloading only after it has stopped. One lemma
per group of handlers (`IngestOK`, `BootOK`, `SelectOK`, ...) shows that each
step is one of `PipelineNext` or leaves the coordinator alone and keeps the
types; `StepWInv` puts them together. `PipelineNext` is stronger than
`CoordNext` in that only `StartUp` reloads, which the fingerprint proofs need.

*Stale work sleeps.* `StaleNeverWakes` speaks of the past of the worker's three
sets. `WakesOK` ties them to it: manual ids were asked for, credited ids were
fresh when they were notified, and an activated id that is neither is stale
already, hence for ever, so that the selection passes over it.

*Fingerprints.* A ready event is fired when the worker's save returns, and a
save may return because *another* task wrote the contents. `Coming` is the
invariant for the time in between: the queue remembers the recording, and if the
worker is the writer, what it writes contains it. If it is not, `SavesInOrder`
of the coordinator says that the file equals the queue. `Known` is what is left
after the event: queue, file and the write in progress all remember the
recording, so that no reload forgets it. `Remembered` allows for a list that is
full; `AnnouncedOnce` then counts: a full list without duplicates that has room
for all recordings holds them all, so a recording the worker does not find in it
was never announced. Between the finalized file and the completion the fingerprint is
not in the queue yet, and nothing but the worker can put it there.

*Removals and credits.* `RemovalStep` finds for each way the pending list can
shrink its reason: `remove` is called only with the current event, after the file
its session finalized was found in its place or for a recording remembered before,
and with the deferred ones the user clears; an enqueue drops the
head of a full list, and a reload what the file does not have. `Awake` says that
from the session on the current event has woken the camera, so that what the
worker defers after an attempt is not an unused credit.

*No lost wake-up.* `NothingWaits` extends the property from the idle worker to
the one that startup has not let run yet, where the trigger may be set but not
waited for. `NoNewCandidates` bounds what a step can add: an event becomes a
candidate by a new permission, which sets the trigger, or by entering the queue,
which has an ingesting task at its side; time only takes permissions away.

*Startup.* `StartupOK` collects all that may still wake the camera (`Reach`) and
says that of the backlog it holds at most one event the user did not ask for. The
backlog is in the dedupe set and no notification of it is in flight; that it stays
there is `SeenGrows`, where the room in the list is needed.

### The notification bridge

Of `NotificationBridge!Spec`, for any notifications, updates, freshness and
debounce limits, bounds of the queue and number of restarts:

| Theorem | Property |
|---|---|
| `BridgeUsesCoordinator` | `Spec => CoordSpec`, so the theorems about the coordinator hold of it |
| `NotifiedOnce` | `WokenOnce`, if there are finitely many events |
| `NotifiedIsDurable` | `WokenIsDurable`, if there are finitely many events |
| `NothingIsLeft` | `NothingInLimbo` |
| `StaleIsNeverNotified` | `StaleSourceNeverWakes` |
| `RapidRepostsAreOne` | `RepostsCollapse` |

*The argument.* `BridgeStep` sorts the steps once (`Kinds`): a task takes a new
event and joins the line, its save returns, it defers, the Store works, the
process restarts; the properties look at these few kinds instead of every
handler. `OnceOK` follows an event from the queue through the write in progress to
the disk, and says that it is on the hands of one task at most, and of none once
the worker knows it: hence one wake-up, and only after the save. `LimboOK`
is `NothingInLimbo` with the task that still handles the event named.
`RepostsCollapse` needs an order of the overlapping tasks: `InTurn` says that in
an undisturbed run they start and finish in the order of their updates, that
the memory holds the last of them or its task is still at work, and that two
promotions lie the debounce time apart (`Apart`).

### The Live View hub

`LiveHubProofs` proves `OneProducer`, `RecordingUndisturbed`, `TypeOK` and
`PreemptionKeepsConsumers` of `LiveHub!Spec` for any consumers, capacities and
camera operations, and `HolderIsActive`: who holds the camera lock is under way, so
that nobody waits for a task that is gone. The types need `HoldCount` (one hold at
most, none while the recorder is idle), and `PreemptionKeepsConsumers` that the recorder
has its hold whenever it is busy, for an end mark is only sent at depth zero. `Line` says that a task
has one place in the line for the lock at most, and only while it is under way.
The first two are not inductive. `IInv` adds that `producer` has at most one element and contains all
that run, that an attempt of the recorder has its hold (`depth > 0`, so that no
subscription starts a producer), and that until its pause returns it waits for
whatever runs. `FreeName` shows that three names are enough for a new task.

### The UDP session

`UdpStreamProofs` proves, for every window, script, number of retransmissions
and bound on acknowledgements, `NothingForgotten`, `AckedCommandArrived` and the
refinement `Spec => StreamImplemented`. The invariant says of every
acknowledgement *in flight*, however old, that what it covers is held here (or
that the camera has the command), which is why late ones are harmless; and that
`delivered` is the prefix of the source up to `recvSeq`, and `seqData` lies
beyond it. `NextPacket` then maps to `DeliverUpTo`, `CloseSession` to `Close`,
and all else to stuttering.

### The download

`RecordingDownloadProofs` proves of `RecordingDownload!DownloadSpec`, for any
recordings, listings, scripts, limits and any number of sessions:

| Theorem | Property |
|---|---|
| `SessionsEndQuiet` | `EndedMeansQuiet` |
| `ListsAreClosed` | `ListClosed` |
| `PartsAreRemoved` | `NoPartLeft` |
| `SavedFilesStay` | `SavedStays`, of `VerifiedDownload!Spec` |
| `DownloadTyping` | `DownloadTypeOK` |
| `TransfersAreSpecified` | `DownloadSpec => Spec`: a transfer within a session is one of `VerifiedDownload` |
| `LookupIsSound` | `LookupSound`, assuming `NothingFollows` |
| `FilesAreComplete` | `FinalComplete`, assuming `TrueCameras` |
| `WholeFilesAreSaved` | `WholeIsSaved`, assuming `TrueCameras` |

*What the camera is relied on for.* The last three properties are not true of any
camera: a list whose last page has a successor hides recordings, and a camera that
announces the size of another recording and sends that one is believed. The
theorems name what is needed and no more. `NothingFollows`: no page follows one that ends
the list. `Honest`: one answer, before the data; the chunks are consecutive
stretches of one stream, and a size within the cap that fits into the stream is that
of the recording the stream carries. The stream may end early, go on, be interrupted
by errors or carry no MP4, and sizes may be missing or too large. `SendsAll`, for the
scripts in `WholeScripts` only: the answer has the size, all of the recording
follows, and what precedes its head fits into the overhead the code allows for.
`CamerasAreHonest` in `MCRecordingDownload` is an assumption that TLC evaluates:
the scripts and listings of the run satisfy these hypotheses, the damaged ones
included. `DownloadAssumption` and `SessionAssumption` only type the constants.

*The session.* `SInv` says which resources a session owns at each stage of its way
out; `PInv` that only the recording in progress has a `.part` file that is not a
left-over; `DInv` that whatever a rename may be undone to is a file, once a session
saved and synced the name. `ListInv` says that `listed` holds what the fetched pages
brought, and all recordings if the list ended by itself. That the nearest of a
finite list exists is shown through the least element of a set of distances.

*The file.* `Transferring(stream, at)` is the invariant of a transfer. The aggregate
is the beginning of the stream, as long as what was sent or as the limit
(`Gathered`; `AggregateContinues` is the step). The limit may be raised once, by the
answer, when nothing is aggregated yet; raised later it would leave a hole. The
`.part` file is the beginning of the stream's MP4 whose length is `persisted`, *or it is
longer than that* (`Persisted`): after a write that failed in the middle the code
appends again from the old count, and what keeps such a file from being renamed is
only that its length then never equals the count. `Mp4Prefix` says that the MP4 of
a beginning is a beginning of the MP4. A file that passes the checks has the
announced length, hence is the recording (`VerifiedIsWhole`), and stays complete
through renames, undone renames and cuts, since it was synced before (`AllComplete`).
`Fits` says that from the answer on the limit has room for all of the stream, and
that the match is noticed with the chunk that completes it (`WholeIsVerified`).

### The account session

`CloudSessionProofs` proves `TypeOK` and `EntryIsCurrent` of
`CloudSession!Spec`; the invariant adds that a poller runs only for an entry
that exists, and that it asks for the account id only if it has none.

### Only model-checked

Liveness (`CreditHonoured`, `RecordingGetsCamera`, `LiveViewResumes`,
`FileArrives`, `PollSucceedsAgain`) is out of the prover's reach. `DedupeWindow` is
about the history of accepted ids, and needs an invariant that relates the history
to the list in memory, the one being written and the one on disk; it is next.

## 6. Plan

Done in this order: queue and coordinator, worker, hub, bridge; UDP session,
download and camera session, account session; proofs of each. Next:

1. **Coordinator**: `DedupeWindow` as a theorem.
2. **Worker**: that the one action for a camera session is implemented by
   `RecordingDownload`.
3. **Reload**: two runtimes of one entry and one file; shared stream trace.
4. **Download**: a liveness property of whole sessions. It holds of small
   scripts, but the product with the session is too large to check in minutes.

### Not modelled

* Decryption, FileInfo and status XML, Baichuan media frames (the larger part
  of `live_stream.py`), Message Center payloads: conversions of one message that
  keep no state. The models take their results.
* The senders of `recording_download_probe_beta14` to `_beta19` that `_beta22`
  overrides: they do not run.
* The packets of the discovery (`lan.py`): one request, one answer, in a thread.
* The go2rtc bridge, entities, diagnostics, the options dialogue: no state that
  another part relies on.
* Two runtimes on one file (tasks that outlive a reload), a write error of the
  Store, a media directory that disappears.

## 7. Running

```
tlc -config WorkerRestart.cfg MCRecordingWorker.tla
tlapm CoordinatorProofs.tla
tlapm RecordingWorkerSafety.tla
tlc -config Download.cfg MCRecordingDownload.tla
tlapm UdpStreamProofs.tla
```

`tlapm` 1.4.5 takes the intersection of two set *enumerations* for empty when their
members are written differently (`ASSUME {x} \cap {y} # {} PROVE FALSE` is accepted):
the proofs state such facts with `\in` and `\notin` and never intersect two
enumerations. Keep it so.

Operators commented `Mutant:` are plausible mistakes, used to test the
properties: `PROJECT.json` names for each property a definition and a mutated
form under which TLC must find it violated.
