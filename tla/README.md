# A TLA+ model of Frigate (Camera-viewer)

The program is a network video recorder: processes that read cameras, find
objects in their frames, follow them, decide what is worth a person's review,
keep the video of it and tell the outside world; and a web client that shows
live and recorded video and edits the configuration. This directory holds TLA+
modules that model parts of it, TLC configurations that check them on small
instances, and TLAPS proofs that hold for every instance. All paths below are
relative to the repository, which is under `src/`.

Run `tlc -workers 2 -config <run>.cfg <module>.tla` for a run of the table
below, and `tlapm <module>_proofs.tla` for the proofs.

## 1. The system

Frigate is a main process (`frigate/app.py`), its threads, and child processes.
They exchange frames through shared memory and messages through ZeroMQ PUB/SUB
proxies and REQ/REP sockets (`frigate/comms/`).

| part | state it keeps | operations | talks to |
|---|---|---|---|
| **Review maintainer** (`review/maintainer.py`, thread of its own process) | `active_review_segments`, `indefinite_events`, its copy of the configuration | handle video, audio, api and lpr messages; configuration updates; start | gets detections from object processor, audio processes, API; upserts review rows through the dispatcher; MQTT `reviews` and `review_status` |
| **Object detection** (`object_detection/base.py`, `comms/object_detector_signaler.py`) | one input and one output buffer per camera, the detection queue, `detection_start` | `detect`, drain, `DetectorRunner.run`, restart | camera processes, detector processes, watchdog |
| **Watchdog** (`watchdog.py`) | restart times of each process, names of detectors | check detectors, check processes, run checks | all child processes |
| **Tracked object processor** (`track/object_processing.py`, `camera/state.py`, `track/tracked_object.py`) | per camera: tracked objects, best objects, previous enabled flag; `ongoing_manual_events` | frame update (start, update, autotrack, snapshot, end of objects), finish, manual events, camera add, remove, enable | camera processes, event processor (PUB and event-end feedback), MQTT |
| **Event processor** (`events/maintainer.py`) | `events_in_process`, the `Event` table | object and api messages, clean up at start | object processor, timeline queue, event cleanup |
| **Recording maintainer** (`record/maintainer.py`) | cache files, `end_time_cache`, object and audio information per camera, `Recordings` | group, probe, decide, move, drop, expire | ffmpeg, review rows, recording updates |
| **Cleanups** (`record/cleanup.py`, `events/cleanup.py`, `storage.py`) | rows and files | expire by age, by space | database, disk |
| **Camera processes** (`video/ffmpeg.py`, `video/detect.py`, `camera/maintainer.py`) | ffmpeg process, frame queue, detection state | read, watch, restart, detect | object detection, object processor |
| **Audio** (`events/audio.py`, `camera/activity_manager.py`) | current audio activity | detect, time out, publish | review maintainer, dispatcher |
| **Dispatcher, runtime state** (`comms/dispatcher.py`, `comms/runtime_state.py`) | settings changed at run time | commands and topics | all communicators |
| **MQTT, web push, websocket** (`comms/mqtt.py`, `comms/webpush.py`, `comms/ws.py`) | connection, subscriptions, cool downs | connect, publish, notify | broker, browsers |
| **Configuration updates** (`config/camera/updater.py`, `comms/config_updater.py`) | a copy of the camera configurations per subscriber | add, remove, replace a section | every process |
| **Jobs** (`jobs/`) | one job of a type at a time, its status | start, cancel, progress, finish | API, websocket |
| **Notices** (`notices/`) | raised and dismissed notices | raise, clear, dismiss | API |
| **Service manager** (`service_manager/`) | services and their restarts | start, stop, restart | multiprocessing services |
| **PTZ**, **identity, gate, intelligence**, **output**, **embeddings**, **HTTP API** | models, images, requests | - | - |
| **Recording player** (`web/src/components/player/dynamic/`, `HlsVideoPlayer.tsx`) | the governor of the automatic quality: stalls, samples, timers; the source that is played | media events, hls.js signals, seeks, pins, camera and hour changes | recordings API, hls.js |
| **Settings** (`web/src/pages/Settings.tsx`, `config-form/sections/BaseSection.tsx`, `views/settings/Go2RtcStreamsSettingsView.tsx`) | pending edits, saves in flight, the client's copy of the configuration | edit, save, reset, Save All, Undo All | configuration API through swr |
| **Live dashboard** (`web/src/components/player/LivePlayer.tsx`, `MsePlayer.tsx`, `WebRTCPlayer.tsx`, `hooks/use-camera-live-mode.ts`) | live mode of each camera, sockets, timers | connect, time out, lower the mode, show the still | go2rtc, camera activity |
| **Websocket store** (`web/src/api/ws.ts`, `WsProvider.tsx`, `hooks/use-camera-activity.ts`) | last message of each topic, queue of unsent messages, objects of a camera | connect, send, receive, resync | dispatcher |
| **Preferences**, **other views** of the web client | what one view shows | - | HTTP API |

What makes each hard, and what makes it correct:

* *Review maintainer.* The senders interleave, video lags behind audio and
  manual messages, the process is killed and replaced, settings change between
  two messages of a segment. Correct: one open item per camera, every open item
  is answered for, ended items are final, end after start, no item at
  `sys.maxsize`, indefinite events hold their segment until they are ended, no
  message kills the thread.
* *Object detection.* Three kinds of processes share two buffers per camera and
  one queue; requests time out, answers come late, detectors hang or are killed
  anywhere. Correct: a result belongs to the frame it was asked for; the frame
  is not overwritten under the model; calls return; hung models go away; the
  queue is not lost with a detector.
* *Tracked objects and events.* Two threads and a feedback channel (the event
  processor tells the object processor that an event is finished); cameras come
  and go. Correct: each started event ends once, in the database too, and
  nothing of it remains in memory.
* *Recordings.* The review of a segment of video is known only later; the cache
  holds six segments. Correct: no video of a review item is dropped that its
  retention asks for, no file without a row, no row without a file.
* *Recording player.* A freeze is told by several signals, a seek excuses it for
  a while, state updates reach the next decision one render late, timers of
  one source outlive it. Correct: no freeze or wait for the first frame outlasts
  its budget while a lower stream exists; what cannot be decoded is not tried
  again; the return is not hasty.
* *Settings.* Forms unmount while their save is in flight, Save All and single
  saves overlap, each request may fail, the client's copy is fetched again in
  the background. Correct: no edit is lost, no button stays disabled, what is
  shown as saved is.
* *Live dashboard.* Players mount and unmount with activity and with the window;
  sockets, media and timers race. Correct: no idle connection, no frozen or
  forgotten player, a watched camera is shown in the end.
* *Websocket store.* Snapshots are built beside the events and lag behind them;
  connections drop; messages queue. Correct: the page agrees with the camera,
  divergence heals, commands arrive once and in order.
* *Watchdog.* Counts restarts in a window; judges exit codes.
* *Configuration.* Updates are published once, in whatever order; a subscriber
  drains several at a time.

## 2. The plan

In this order, with what is done:

1. `ReviewTimeline` (abstract), `ReviewSegments` (the maintainer), and their
   proofs: done.
2. `ObjectDetection`, done, and its proofs.
3. `TrackedObjects`: the object processor composed with the detect processes,
   the event processor and the feedback channel: done with proofs. Left: an
   abstract specification of an event's life (absent, open, ended, each once).
4. The web client, where most of the repository's own code is and where state
   outlives the function that made it: `AutoQuality` (recorded video),
   done with proofs; `SettingsForm`, done with proofs; `LivePlayback`, done with proofs;
   `ActivityStore`, done with proofs.
5. Every safety property that a run checks has its theorem: done. Next: that
   the event processor implements the life of an event.
6. `RecordingCache`: the recording maintainer against the timeline of items;
   abstract specification: what of the video is kept.
7. `ProcessWatchdog`: restart limits; then used by ReviewSegments' restarts.
8. `ConfigUpdates`: publisher and subscribers, several updates in one drain;
   jobs, MQTT life cycle, notices, preferences in the browser.

Theorems, in this order: safety of ObjectDetection until a request is late;
the items of ReviewSegments (no end at `Forever`, open item is pending) and the
refinement of ReviewTimeline; the web client's connections, edits and view;
event life; recordings.

## 3. The modules

**ReviewSegments.** Its variables are the maintainer's tables (`segment` is
`active_review_segments`, `indefinite` is `indefinite_events`, `config` is the
settings of each camera as the process has them) and what others see of them
(`rows` for the database row and the last message about it, `status` for
`review_status`), the sender's memory of manual events (`manual`), whether the
process runs (`thread`) and the clock. One message is one action, as the
thread takes one message at a time: `Video`, `Audio`, `CreateManualEvent`,
`EndManualEvent`; the settings are drained before the message is looked at:
`ToggleCamera` and others. In each message's action the guards of `run` come
first (`Drop`: camera unknown, disabled, not recording; `EndDisabled`: the
severity has been switched off), then a handler: `ExtendSegment`,
`SettleSegment`, `CheckIfNewSegment`, `AudioExtends` ... `Kill` kills the
process, `WatchdogRestart` replaces it, `FrigateRestart` also makes the object
processor forget its events. A thread that died of an exception ends the
process with exit code 0, which the watchdog takes for a clean exit
(`frigate/watchdog.py:75`): only `FrigateRestart` helps.

Abstracted: an object is a label and whether `ActiveObjects` keeps it
(stationary objects, false positives and required zones decide that, and
they are inputs); an image is missing from shared memory, there but
without a 16:9 region, or stored; a change of sub label or zones is
`recognised`; ids are counted. `Scenes`, `Sounds`, `Durations` and `Settable`
bound what may happen. `MaxLag` is how late video is: the object tracker hands
frames over after detection, audio does not wait for it. `overwritten` is a history
variable: an audio message or an event with a duration has set the times of a
segment that manual events hold open, and no event has begun since.

**ReviewFrames** adds what the cameras look at (`view`): a frame of now shows
something that counts, or nothing, or nothing and is gone from shared memory when
the maintainer handles it. Only there is it said that frames keep coming, and it
is what `OverdueSegmentsEnd` is about.

**ReviewTimeline** is what readers of review items rely on: per camera at most
one open item, items never change after their end, except that a new maintainer
closes what was open. `TimelineSpec` of ReviewSegments is the refinement: an
item is open when the last message about it was `new` or `update`.

**ObjectDetection** has a step for everything between two points where another
process can come in: the client's drain, copy, put, receive, read, give up; the
runner's get (with the queue's reader lock, which `multiprocessing.Queue.get`
holds while it waits), take, start of inference, inference, write, publish,
finish; the watchdog's look, join, second look and kill. A frame is the number
of the request that copied it, so that a result says which frame it is of.

**TrackedObjects** composes three parts through queues. The detect process of a
camera is the ids it tracks (`seen`) and the batches it puts on
`tracked_objects_queue` (`Frame`, dropped when the queue is full). The object
processor is one loop with three points at which other threads come in
(`processor`): the configuration updates and disabled cameras (`ApplyUpdates`),
one batch or none (`TakeFrame`, `SkipFrame`, `NoFrame`), the reports of finished
events (`ForgetObject` until `NoneFinished`). Its state per camera is
`camera_states`, `prev_enabled` and `tracked_objects` (an object that has ended
stays until its event is finished). The event processor takes one message at a
time (`HandleEvent`), with `events_in_process`, the `Event` table and the
reports. It treats every id by itself, so the messages about an object are a
FIFO of their own (`mail`) and messages about different objects may pass each
other, which no part of the code can tell. `configured` is the configuration as
the API has it, `known` is `config.cameras` of the main process, which all its
threads share. Users disable, enable, remove, add and resize cameras, and
restart Frigate.

An object is only whether its clip or snapshot is kept; what else changes an
update (zones, score, path) is a free choice of `WriteEvent` and `KeepRow`.
`takenBack` is a history variable: an update said that what was kept of the
object no longer is (somebody switched recording or snapshots off, or the object's
severity moved: `should_save_snapshot` and `should_retain_recording` read the
settings at each update), and nothing since said that it is again. `disturbed` is a history variable: the camera was removed, resized,
or enabled in haste, that is before the process had cleared its tracker and
its old batches were off the queue. The properties about ends are about the other
cameras, and section 6 says what happens to the disturbed ones.

**AutoQuality** is a player of recordings with the quality "auto". The governor's
fields are variables of their own (`episodes`, `open`, `lowSamples`, `armed`,
`probes`, `mainUnplayable`, `stallTimer`, `startupTimer`), and so are the stages a
decision goes through in React: `autoLow` is the state, `rendered` the ref the
last render has set, `wanted` the source it asked for, `source` what hls.js plays.
Every signal of the video element and of hls.js is an action (`Freeze`,
`Resume`, `Seek`, `Load`, `SampleLow`, `SampleMain`, `FatalNetworkError`,
`FatalCodecError`), the effects of a render are `Render`, `Commit` and `Seed`, the
viewer is `SetQuality`, `SwitchCamera`, `PlayChunk`, `Scrub`. `Tick` waits for
renders and timers that are due. `freeze`, `frozen` and `waitingSince` are what
the viewer sees, kept apart from what the governor knows of it: the properties
are about the former. Budgets are counted in ticks; the coverage of a camera
and hour arrives in a step of its own, an answer that is cached at once.

**SettingsForm** is the saving of settings. A key is a section of one camera,
or global; its value is opaque. `file` is the server, `cache` what swr has of it,
`latest` the request whose answer swr will use (it drops the answers of
earlier ones and retries what failed: that library is not in `src/`), `pending` the
edits. A save is a job cut where the code awaits: PUT, then the configuration
fetched again, then the raw streams (`SectionStep`, `AllStep`); a job remembers
what it still has to send and whether its form is still mounted. The user may edit
whenever the form lets him, also while requests are under way. `wanted` is what he
set last and has not taken back; an edit in haste (`Hasty`: of a key that a request
under way has taken along, or back to a value that only the stale copy has) is not
wanted, since the code drops it. The PUT and its answer are one step.

**LivePlayback** is one camera of the dashboard: `use-camera-live-mode` and the
dashboard's `handleError` (`mode`), `LivePlayer` (`liveReady`, `idleTimer`), the MSE
and WebRTC players (`mse`, `rtc`). A step is an event with the renders and effects
it causes; a player whose mode or key changes is mounted anew (`Remount`), and
timers of the old one find no video element. A stall timer is set again by each
progress event, so it fires only once the media has stopped coming (`MediaStalls`,
`RtcStalls` make it "late"). The media source of a player that has disconnected
may open late, and Safari may report an error to a player without a socket.

**ActivityStore** is a browser and what it knows of one camera: the socket and
its queue, the store of topics, the objects `use-camera-activity` makes of them;
and the part of the server it hears from. `truth` is the camera as its events have
it, `listed` its `tracked_objects`, in which an object that has ended stays until
the database has it, and `last` the activity the dispatcher keeps, brought up to
date from `listed` at the end of a frame. Starts and ends are published at once, a
change of the active flag one frame later (`ObjectIsReported`), a resize drops
objects and publishes nothing (`ObjectsAreDropped`), and the answer to `onConnect` is
built and published by the thread of a connection, beside the one that publishes
events. A message, its render and its effects are one step, since
`useSyncExternalStore` renders synchronously. `executed`, `inStep` and `exact` only
observe.

**MCReviewSegments**, **MCReviewFrames**, **MCObjectDetection**,
**MCTrackedObjects**, **MCAutoQuality**, **MCSettingsForm** give constants to TLC. Definitions whose
comment begins with "Mutant" are variants of the one they stand before, with a
mistake a change of the code could make; no specification uses them.

## 4. The runs

| run | module | expects | shows |
|---|---|---|---|
| `review_activity` | MCReviewFrames | pass | with late video and audio on a camera that is disabled and removed: `EndedItemsAreFinal`, `CutoffEndsInThePast`, `OverdueSegmentsEnd` |
| `review_manual` | MCReviewSegments | pass | manual and plate events with severities switched on and off, on a camera that is removed and added: `NoItemEndsAtForever`, `AlertsCanEnd` |
| `review_held` | MCReviewSegments | pass | two indefinite events, sounds and events with a duration that overwrite their hold, crashes: `IndefiniteEventsHold`, `OpenItemIsPending`, `TimelineSpec` |
| `review_thread` | MCReviewSegments | violation | the end of an event that had a duration kills the thread |
| `detect_service` | MCObjectDetection | pass | `FreshUntilLate`, `InputUntouchedUntilLate`, `CallsReturn`, `HangsEnd` |
| `objects_events` | MCTrackedObjects | pass | cameras that come and go, stale and lost batches, recording and snapshots switched, a restart: `OpenEventIsTracked`, `EventsInProcessWillEnd`, `EndedEventsAreFinal`, `EndedObjectsAreForgotten`, `ProcessorSurvives` |
| `auto_quality` | MCAutoQuality | pass | no freeze, no sum of freezes and no wait for the first frame outlasts its budget (`FreezesAreCut`, `ChronicFreezesAreCut`, `StartupIsCut`); `UndecodableStaysLow`; `AutomaticReturn` |
| `settings_save` | MCSettingsForm | pass | saves side by side, requests that fail, forms that are left, edits at any time: `NothingIsLost`, `StaleOnlyWhileWorking`, `ButtonsAreNotStuck` |
| `live_dashboard` | LivePlayback | pass | every browser, sockets refused and lost, stalls, media errors: `NoIdleConnections`, `QuietViewsEnd`, `LiveUnlessLost` |
| `live_refused` | LivePlayback | violation | the refused socket of an MSE player is noticed by nobody |
| `activity_store` | ActivityStore | pass | lost connections, lagging snapshots, queued commands: `InStepAgrees`, `NoOldCommandReturns`, `CommandsArrive`, `HealsOnFocus` |
| `activity_again` | ActivityStore | violation | another configuration shows an old snapshot again |

The first run of each module has its `TypeOK` as well.

### Bounds, and why they are enough

*Review runs.* One camera: no table of the maintainer is shared by two cameras
and no action reads another camera's entry, so a second camera only multiplies
the states (the proofs are for any number). Three labels, one in each category:
alert, detection, neither; `MCScenes` has a frame for each and an inactive
object (`LateScenes`, for `review_activity`, leaves out those that take the same
steps there, where every label detects and the severities stay on), `MCSounds` an audio message for each branch. `MaxSegments = 2` is what
it takes for one segment to end and another to follow; `MaxTime` (2 to 3)
exceeds every cutoff by at least one, so that segments end by their cutoff,
by a toggle and by a crash, in any order. Each run leaves out what its
question does not need (`Settable`, `Events`, `Sounds`, `Crashes`), and between
them every action and disjunct of `Next` fires. `review_held` has one sound, which
makes an alert and overwrites a hold, one duration, and two scenes (nobody, and a
dog): what ends, holds and overwrites is there in each kind once, with two events
that are interchangeable (`EventSymmetry`). `review_activity` has
`AlertCutoff # DetectionCutoff`: with equal values a cutoff of the wrong
severity would not be noticed. `Forever` is only larger than any time the clock
and the durations can reach, which is what `sys.maxsize` is.

*Detection runs.* Buffers and signals are per camera; what cameras share is the
queue and the detectors. One camera with two detectors has the hard cases (two
requests of one camera at two detectors, a killed holder of the lock);
`MaxRequests = 2` is the least with which an answer can be taken for another's.
A second camera only delays the first, and a request may take any time already.

*Object runs.* `yard` is changed by users and has one object; `door` only sends
empty batches, which is what it takes for the object processor to go on to the
reports while the yard is disabled (reports are taken only after a batch).
Objects of a camera do not share anything but its settings, and the object can
leave and come back under its id. Two batches on the queue are the least with
which one can be older than a change and one newer, or be lost; two changes
(`MaxChanges`) are the least for a camera to be disabled and enabled, removed and
added, or disturbed and then Frigate restarted. `MaxMail` bounds how far updates
run ahead of the event processor; starts and ends are always sent.

*Recording player.* Three cameras: one whose original stream plays and whose
bitrate is known, one whose original fails only in the decoder, one of which the
browser plays neither stream; two hours, the second without a low stream for the
first camera and without a recording of the other two (the player goes there and back). Rates lie below and above the margin
of the return (half as much again as the bitrate). Budgets of one and two ticks
let a freeze end just in time or too late, inside and outside the grace of a seek,
and two short ones add up in the window; the clock (`MaxTime = 4`) outlasts the
window (3), so that old freezes leave it. Two low samples in a row and one probe
are the least that can be reset in between.
`HastyMoves = FALSE`: the viewer moves on after the last move has been rendered
(section 6 says what happens otherwise).

*Settings.* A section of one camera on a page that two cameras share, and the
streams on a page of their own, are the two kinds of key; two values, two single
saves in flight beside a Save All (which are interchangeable: `SlotSymmetry`). Two
saves are what it takes for the flag they share to be cleared by the wrong one.
PUTs and refreshes may fail, and the user edits whenever the form lets him.
`SettingsForm_proofs` proves the same properties for any number of each.

*Live dashboard.* There is nothing to bound but the media errors a player takes,
which are three in the code; the browser's abilities are chosen in `Init`.

*Websocket store.* Changes on the server, snapshots for others and commands
share a budget of two, one connection is lost, two messages are under way: an
event and a snapshot can overtake each other, two commands can wait over a lost
connection. Objects only meet in the snapshot, so one is enough for the passing
run, and `ActivityStore_proofs` proves its safety properties without any bound.
Everything that counts against the budgets ends, so the liveness properties speak
of what happens after the last change; frames, reports and focus go on.

### Fairness

`WatchedSpec` of ReviewFrames: `WF(FrameArrives(c, now))`. A camera sends frames
all the time (`run` handles one per camera and frame), and the maintainer gets to
those of now. Nothing is assumed of what they show or of their images: whether
something counts in them and whether they are still in shared memory is `view`,
which changes as it likes. So `OverdueSegmentsEnd` says what is left to happen: an
overdue segment ends or is extended, or its camera shows activity again and again,
or the segment has no image and its frames keep being gone. Nothing is assumed of
audio, settings or cameras that come and go. It is checked without manual events:
one that is never ended holds its segment for ever, on purpose.

`FairSpec` of ObjectDetection: weak fairness for each process and for the
watchdog thread. Each runs on its own, and all its waits have a timeout
(`socket.poll` five seconds, `queue.get` one, `join` thirty), which are steps of
the model. The runner's fairness leaves out `Hang`: a model need not hang, and
one that has hung does nothing more. `RestartFrigate` is what
`FrigateWatchdog` does when a detector is found dead.

`FairSpec` of TrackedObjects: weak fairness of the object processor's loop (its
waits have timeouts), of the two steps of each detect process, and of the event
processor for each object. Users owe nothing, so a camera may stay disabled and
the maintainer of cameras may take its time. `EndedObjectsAreForgotten` rests on
the `door`, which goes on sending batches: where no enabled camera does, the
ended objects do stay in memory.

`AutoQuality` has safety properties only, and its timers are exact: no tick
passes while one is due. `SettingsForm` has safety properties only. `FairSpec` of
LivePlayback: timers fire, a socket that is connecting opens or is refused, a media
source that is attached opens. Nothing is assumed of go2rtc and the media: codecs
may never be answered, the first picture may never come, progress may stop at any
time; and nothing of users, activity and losses. `Watched` is a premise: the camera
is active and looked at from some time on, and its stream and modes are left alone.
`LiveUnlessLost` then says that a picture is shown that a timer guards, or that the
player is in one of five places, named in `Lost`, where the code has set no timer.
`FairSpec` of ActivityStore: threads of the server go on, messages are delivered,
the reconnect timer fires and the socket opens. Mounting, focus and configuration
are the user's, and a camera that is disabled or has failed sends no frames:
`HealsOnFocus` names what it asks of them as its premise (`FramesKeepComing` among
it: the activity is brought up to date at the end of a frame, and only then does an
object that has ended leave it).

## 5. What is proved

The seven modules `*_proofs` are checked by tlapm for every value of the constants
that satisfies the named assumptions:
`DetectionAssumption` (the names that stand for "none" are not cameras or
detectors), `TimeAssumption` (times are natural numbers and no clock or event
end reaches `Forever`, as `sys.maxsize` is beyond any time stamp),
`LabelAssumption` (the sets have the right types, frames are finite),
`NoSegmentAssumption` (None is not a segment), `KeysAssumption`,
`ValuesAssumption` and `NullsAssumption` (the streams are global and have a page
of their own; what stands for undefined is no value), `LiveAssumption` and
`StoreAssumption` (bounds are numbers), `ObjectAssumption` (ids of objects are
numbers, which the detect process hands out in order, and bounds are too),
`NoneAssumption` (null is no payload; in `TrackedObjects`, no event) and, for the
recording player, `RecordingsAssumption` and `BudgetAssumption` (what stands for
none is none of the cameras, sources or freezes; budgets are numbers of ticks,
samples are at least one). TLC evaluates all of them.

Three theorems have a condition on the environment in their statement, and
section 6 says what happens without it: `~HastyMoves` for the three budgets. The
run that checks these properties is an instance of it. The others hold whatever
the constants are; where the code does drop, overwrite or leave open something,
the property itself says exactly when (`overwritten`, `takenBack`, `disturbed`,
`late`, `Hasty`).

| theorem | says |
|---|---|
| `ObjectDetection_proofs!Types` | `TypeOK` is invariant |
| `Fresh` | `FreshUntilLate` |
| `InputUntouched` | `InputUntouchedUntilLate` |
| `ReviewSegments_proofs!Types` | `TypeOK` is invariant |
| `AlertsEnd` | `AlertsCanEnd` |
| `OpenItems` | `OpenItemIsPending` |
| `NotForever` | `NoItemEndsAtForever` |
| `EndedFinal` | `EndedItemsAreFinal` |
| `Refinement` | `Spec => TimelineSpec` |
| `EventsHold` | `IndefiniteEventsHold` |
| `EndsInThePast` | `CutoffEndsInThePast` |
| `TrackedObjects_proofs!Types` | `TypeOK` is invariant |
| `Survives` | `ProcessorSurvives` |
| `WillEnd` | `EventsInProcessWillEnd` |
| `EndedFinal` | `EndedEventsAreFinal` |
| `OpenTracked` | `OpenEventIsTracked` |
| `AutoQuality_proofs!Types` | `TypeOK` is invariant |
| `LowForGood` | `UndecodableStaysLow` |
| `ReturnsWhenFast` | `AutomaticReturn` |
| `FreezesCut` | `FreezesAreCut`, if the viewer is not hasty |
| `ChronicFreezesCut` | `ChronicFreezesAreCut`, likewise |
| `StartupCut` | `StartupIsCut`, likewise |
| `LivePlayback_proofs!Shapes` | `TypeOK` is invariant |
| `Idle` | `NoIdleConnections` |
| `SettingsForm_proofs!Types` | `TypeOK` is invariant |
| `Buttons` | `ButtonsAreNotStuck` |
| `Stale` | `StaleOnlyWhileWorking` |
| `Lossless` | `NothingIsLost` |
| `ActivityStore_proofs!Types` | `TypeOK` is invariant |
| `NoOldCommands` | `NoOldCommandReturns` |
| `InStep` | `InStepAgrees` |

*Detection.* `TypeOK` is not inductive: `request[work[d]]` needs a camera in
`work[d]`, a request must stay under its bound, and a detector the watchdog
starts must be the one it watched die. `TypeInv` adds these (`WorkIsHeld`,
`StartsTheGone`, `RequestIsAllowed`). `Fresh` and `InputUntouched` follow from
`Token`: as long as no request of a camera has timed out, its request is in at
most one place (its client's hands, one entry of the queue, one detector, one
signal, or lost with a dead detector), and from the moment the model has read
the frame the result is of that frame. Each step moves the token. `late` is a
history variable: with `GiveUp` the token is duplicated, and section 6 says
what then happens.

*Review segments.* `PendingInv` adds to the types that a pending segment has the
last id handed out and, if it is an alert, a last alert time. Every action is
then shown to do one of four things to a camera (`Effect`): leave its items
alone, revise the pending segment, begin one, or finish it. The
remaining proofs are about the four effects and not about actions: `ItemInv`
(only the pending segment's item is open; ids beyond `created` are unused),
`RowsStep` (a row only changes if it is that of the pending segment or one
being cleared), from which the final rows, the refinement, and, with the
replacement of the place holder in `EndPending` and the cutoffs,
`NotForever` follow. `EventsHold` goes through the handlers again: `HeldInv` says
that while the thread runs both times of a segment with an event are `Forever`,
unless they were `overwritten`. No
frame passes a cutoff that starts there and none lowers the times; whatever ends
the segment also empties `indefinite`. `EndsInThePast` needs the types only: of
the steps that end an item, only a quiet frame does so with the severity on and
the configuration as it was, and it has passed the cutoff.

*Tracked objects.* `Births`: an id that the detect process has not handed out is in
no table, queue or row. `Undisturbed` is about the cameras that were not removed,
resized or enabled in haste (`disturbed`). Such a camera is `Configured`: nothing
that removes it is under way, and what was stopped has left no batch. Each of its
objects has an `Order` on the queue (once it has left the frames it does not come
back), no frame brings back one that has ended (`NoReturn`), and it is in one of
four phases: not tracked, active, ended with the end on its way, ended and
reported. In the first and the last nothing of it is under way; in the others
`Flow` says what is: a start comes first and only to a new event, an end last.
`Survives` is part of `Inv`, `WillEnd` is its phases, and `EndedFinal` says that no
message is left when the end is written. For `OpenTracked` the flow is not enough:
what is kept must stay so along the way, from `events_in_process` through the
messages to the object (`KeptChain`), so that the end finds a reason to be written;
a message that breaks the chain is one that takes back what was kept, and the
object is in `takenBack` from then on.

*Recording player.* The three budgets follow from `IInv`: while the original plays
or loads in auto and the low stream is there to replace it (`OnOriginal`), the
timers guard what the viewer sees (`Guarded`): a wait for the first frame has its
timer, a freeze has one that leaves no more than its budget, and every frozen tick
of the window is part of an episode the governor has counted or of the freeze that
lasts. `NotOverdue` is that no timer is past, `ViewerFollows` that the governor's
episode is the viewer's freeze, `WantedFollows` that the source asked for is that of
the hour on the screen. `OnOriginal` is only entered when another source is
committed, and its load starts with nothing measured; a hasty viewer comes back to
the source he left before it is committed, and finds no timer. The sums of freezes
are cardinalities of sets of ticks, so these are finite (`Finite`) and in the window
(`InWindow`). `LowForGood` and `ReturnsWhenFast` are about steps: from the types and
from what each action does to the quality (`WhatReturns`).

*Settings.* `StaleOnlyWhileWorking` only says that there is some work left, so
`ConfigFollows` and `StreamsFollow` say which request will bring a saved section
that the copy does not have. For `Lossless`, `Kept` says of a key that is wanted
that it is pending or saved (`Here`), and that every request that has taken it along
sends the wanted value or has done so (`InSaves`, `InSaveAll`). An edit that is not
in haste finds no such request, which is all that is asked of it.

*Only model-checked.* The liveness properties (`OverdueSegmentsEnd`, `CallsReturn`,
`HangsEnd`, `EndedObjectsAreForgotten`, `QuietViewsEnd`, `LiveUnlessLost`,
`CommandsArrive`, `HealsOnFocus`) are out of the prover's reach, as are ENABLED and
induction over data; no definition needs the latter. For a hasty viewer the
three budgets are neither checked nor proved: section 6 has what TLC finds.

## 6. Where the code differs from what it says

Runs that expect a violation:

* `review_thread`: ending an event by the API when its camera has no segment
  any more (for instance an event with a duration whose segment has passed its
  cutoff) makes the maintainer look up a label the message does not carry
  (`review/maintainer.py:877`): KeyError, the thread is gone, and its process
  with it. The watchdog does not restart it.
* `live_refused`: the `onClose` a socket of the MSE player gets is the closure of
  the render that made it, in which the socket is still closed, so it returns
  before it reconnects (`MsePlayer.tsx:305`). A socket that is refused is noticed
  by nobody and the still is shown for ever; one that is lost while it plays
  leaves a frozen picture. `docs/docs/configuration/live.md:408` promises the low
  bandwidth mode on connection failures.
* `activity_again`: a configuration that is fetched anew makes `camera` another
  object, and the effect that applies the stored snapshot depends on it
  (`use-camera-activity.ts:68`), against its own comment: objects that have ended
  are active again until the next snapshot.

TLC refutes these as well; each is a definition of its module, or a property of a
run with one constant changed, and has no run of its own:

* `ReviewSegments!ItemsDoNotOverlap` (`review_manual` with a camera that is
  disabled): after a
  forced end of a segment that an event with a duration extends, the next item
  starts before the end of the last (`review/maintainer.py:393`).
* `ObjectDetection!FreshResults`: a late answer that arrives after the drain is
  read as the next request's (`object_detection/base.py:436`, `443`).
* `ObjectDetection!QueueLockIsReleased`: a detector that recovers between the
  watchdog's second look and the kill dies with the lock of the queue, and no
  detector gets a request (`base.py:361`, `367`).
* `TrackedObjects!ProcessorRuns`: a camera that is added and removed before the
  object processor drains its updates is looked up after the subscriber has
  removed it: KeyError (`track/object_processing.py:725`). The camera maintainer
  looks it up the same way.
* `AutoQuality!LowPlaybackIsProbed`: the downswitch arms the probe for the return
  and then resets the history and the probe with it
  (`AutoQualityGovernor.ts:348`): from then on only a new load arms it, against
  `docs/docs/configuration/record.md:383`.
* `StartupIsCut`, `FreezesAreCut` and `ChronicFreezesAreCut` with
  `HastyMoves = TRUE`: a viewer who goes to another camera and back before a render
  loses the budget for the first frame, and with it those for what follows.
* `SettingsForm!NeverEmptyAndStale`: Save All clears the pending streams before
  their copy has been fetched again (`Settings.tsx:872`, comment at 868).

What the properties excuse, because the code does it. Each exception is exactly
what its words say; outside of it the property is checked and, if it is a safety
property, proved:

* `IndefiniteEventsHold`, `overwritten`: a sound that counts, or an event with a
  duration, sets the times of the pending segment and with them the place holder
  of an event that holds it open (`review/maintainer.py:759`, `778`, against 812).
  The segment may then end although the event goes on. Such an event stays in
  `indefinite_events`, and a later event's segment is then never released.
* `OpenEventIsTracked`, `takenBack`: that an event has a row is remembered in
  `events_in_process`, which an update may overwrite with `has_clip` and
  `has_snapshot` as they are now; once both are false again the end is not written
  and the row stays open until Frigate is restarted (`events/maintainer.py:294`).
* `NothingIsLost`, `Hasty`: an edit made while Save All, a save of the streams or a
  reset has the key under way is cleared with what was saved (`Settings.tsx:874`);
  an edit back to the value of a copy that is stale is taken for none.
* `OverdueSegmentsEnd`: activity of either severity keeps a segment from being
  looked at, so that an alert whose object has gone stays pending while a
  detection goes on (`review/maintainer.py:433`), and one without an image waits for
  a frame that is still in shared memory before its cutoff is looked at (541).
* `FreshUntilLate` and `InputUntouchedUntilLate`, `late`: after a timeout the frame
  is overwritten under a model that is still at work (`base.py:446`), and its
  answer is taken for a newer one's (see `FreshResults` above).
* `LiveUnlessLost`, `Lost`: a socket that was refused, was lost before the first
  progress, or was given up after a media error; a player whose codecs are answered
  and which has had no media since (`MsePlayer.tsx:348-353` clears the timeout, and
  629 sets the stall timer at the first progress), although
  `docs/docs/configuration/live.md:404` has "an initial timeout" lead to the low
  bandwidth mode; a WebRTC player on its second connection; MSE in a browser
  without MediaSource; jsmpeg.

Seen while modelling, with no run of their own:

* A camera removed and added again (or resized, as replay cameras are) while an
  event of it is on its way to being finished: `finished` deletes an object that
  is not there, KeyError (`camera/state.py:303`). The guard before the call only
  covers the camera being gone.
* A camera removed and added again within one drain has no camera state: adds
  are applied before removals. Its batches are skipped until the next restart.
* A camera removed: its tracked objects are dropped without an end, so that
  nothing is sent for them on `frigate/events`; an end that comes after the row
  was deleted may write it again, or leave its entry in `events_in_process`.
* A camera enabled in haste goes on with the ids whose events were ended. As long
  as the object is still there the same id gets updates after the end, against
  `docs/docs/integrations/mqtt.md` ("a final message is published"), and its row
  may be opened and closed again.

* A frame older than its segment sets the first alert time: with late video and
  audio an item can be stored that ends before it starts.
* Segments that audio, an event or a plate starts are not published as `new`;
  readers first see an update or the end.
* An upgrade by audio is not published until the next update.
* `review_status` keeps its value over a crash until the next segment ends.
* The detection of a hung runner leaves out `AsyncDetectorRunner`, which signals
  without writing and never sets `detection_start` (`base.py:270`, `277`).
* Data saver does not hold the low stream after a pin has been taken back, or
  when the player was seeded while pinned (`record.md:387`). An hour without low
  recordings, entered in low quality, says "no recordings".
* A media error of the MSE player disconnects first, which marks the disconnect as
  intended, and then reconnects, which does nothing (`MsePlayer.tsx:860`). The
  WebRTC player's load timeout is only set when it is mounted
  (`WebRTCPlayer.tsx:268`): cameras without activity drop to MSE after five seconds,
  and a later connection has no timeout. The mode below WebRTC is MSE also in a
  browser without MediaSource.
* A media source that opens after its player has disconnected finds no socket or
  the next one (`MsePlayer.tsx:313-319`): if that is still connecting, the error is
  taken for its own and the mode is lowered; in Safari (390-399) an error is reported
  even without a socket.
* The answer to `onConnect` is built beside the thread that publishes events and
  from an activity that is updated at the end of a frame and still lists an object
  that has ended until the database has it (`camera/state.py:504`): a snapshot can
  bring an object back that has gone, until the next one, and for good if the
  camera is disabled or sends no more frames. The motion topic wins over the
  snapshot, so a missed OFF sticks until the next ON and OFF.

## 7. What is not modelled

`PROJECT.json` lists every component with its reason. In short: planned are the
components of section 2; left out for good are image composition, model
inference, geometry and tracking filters, HTTP request handlers, the layout of the
web client and deployment. `AsyncDetectorRunner` (MemryX) is in the plan. In the
maintainer the `complete` state of a plate message is left out because nothing
sends it.

Of the modelled parts of the web client: native HLS, recovery counters and what
is stored in the browser (AutoQuality); validation, the preview of Save All, status
dots, profiles, the prompt for unsaved changes, restarts and answers lost after a
PUT (SettingsForm); two way audio, which opens its socket after the microphone has
answered even if the player is gone, jsmpeg's own connection, statistics
(LivePlayback); boxes and labels of objects and the other topics' hooks, which read
the store in the same way (ActivityStore).

Hazards of parts that have no module yet: the review status after a crash
(`review/maintainer.py:373`), a segment or severity that is not published because
its frame is gone (`640`, `504`), a camera added and removed within one drain
(`object_processing.py:730`, `camera/maintainer.py:253`), an event whose camera is
gone (`events/maintainer.py:154`), `config.cameras` changed by another thread while
it is iterated (`object_processing.py:746`), cached segments beyond the sixth and
the move of a segment whose row fails (`record/maintainer.py:415`, `790`), and
restart limits (`watchdog.py:34`). Stored preferences of the browser
(`use-user-persistence.ts`, `use-persistence.ts`): a load is not cancelled, so the
slower load of an earlier key can show its value under a later one; the list of
migrated keys is read and written without a lock; a stop between the two writes of
a migration brings a deleted preference back.
