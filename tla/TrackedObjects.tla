--------------------------- MODULE TrackedObjects ---------------------------
(***************************************************************************)
(* The life of a tracked object and of its event. A camera's detect        *)
(* process (src/frigate/video/detect.py) tracks objects and puts the ids   *)
(* of each frame on a queue; the object processor                          *)
(* (src/frigate/track/object_processing.py, src/frigate/camera/state.py)   *)
(* follows them and sends start, update and end of each to the event       *)
(* processor (src/frigate/events/maintainer.py), which keeps the events in *)
(* the database and reports every finished event back, so that the object  *)
(* processor forgets the object. Meanwhile cameras are disabled, enabled,  *)
(* removed, added, and resized.                                            *)
(*                                                                         *)
(* Abstractions: ids are counted per camera; an object is whether its clip *)
(* or snapshot is kept; boxes, zones, scores and images only matter as     *)
(* "something changed". The event processor treats ids independently, so   *)
(* the messages about an object are a queue of their own.                  *)
(***************************************************************************)
EXTENDS Integers, Sequences

CONSTANTS
  Cameras,       \* names of cameras
  Changeable,    \* cameras that users disable, remove and so on
  Objects,       \* ids of the objects of a camera
  MaxObjects,    \* bound: objects that ever appear, per camera
  MaxBatches,    \* size of tracked_objects_queue
  MaxMail,       \* bound: messages about an object on their way
  MaxChanges,    \* bound: changes users make
  None           \* not in events_in_process

ASSUME ObjectAssumption ==
  /\ Changeable \subseteq Cameras
  /\ Objects \subseteq Nat
  /\ MaxObjects \in [Cameras -> Nat]
  /\ MaxBatches \in Nat /\ MaxMail \in Nat /\ MaxChanges \in Nat

VARIABLES
  configured,  \* per camera: it is in the configuration, as users see it
  known,       \* per camera: it is in config.cameras of the main process
  enabled,     \* per camera: config.cameras[c].enabled
  resized,     \* per camera: its detect resolution has just changed
  changes,     \* changes users have made
  tracker,     \* per camera: the detect process is "on", "off" or "stopped"
  seen,        \* per camera: ids the detect process tracks
  used,        \* per camera: ids handed out
  batches,     \* tracked_objects_queue: <<camera, ids in the frame>>
  updates,     \* configuration updates the object processor has to apply
  orders,      \* the same for the camera maintainer
  processor,   \* where the object processor's loop is
  states,      \* camera_states
  prev,        \* per camera: prev_enabled
  tracked,     \* per camera and id: tracked_objects of the camera state
  kept,        \* per camera: ids whose has_clip or has_snapshot is set
  takenBack,   \* per camera: ids an update said were no longer kept, with
               \* nothing since to say that they are (history)
  mail,        \* per camera and id: messages to the event processor
  inProcess,   \* per camera and id: events_in_process
  row,         \* per camera and id: the Event row
  cleaning,    \* per camera: its rows are about to be deleted
  finished,    \* per camera and id: reports of the event processor
  disturbed    \* per camera: removed, resized or enabled in haste (history)

userVars == <<configured, enabled, changes>>
trackerVars == <<tracker, seen, used>>
objectVars == <<states, prev, tracked, kept, takenBack>>
eventVars == <<inProcess, row>>
vars == <<configured, known, enabled, resized, changes, tracker, seen, used,
          batches, updates, orders, processor, states, prev, tracked, kept,
          takenBack, mail, inProcess, row, cleaning, finished, disturbed>>

Updates == {"add", "remove"} \X Cameras
Message == [type : {"start", "update", "end"}, kept : BOOLEAN, over : BOOLEAN]
Event == [kept : BOOLEAN, over : BOOLEAN]

ASSUME NoneAssumption == None \notin Event

(* Every part of the state has the shape the code gives it. *)
TypeOK ==
  /\ configured \in [Cameras -> BOOLEAN] /\ known \in [Cameras -> BOOLEAN]
  /\ enabled \in [Cameras -> BOOLEAN] /\ resized \in [Cameras -> BOOLEAN]
  /\ changes \in 0..MaxChanges
  /\ tracker \in [Cameras -> {"on", "off", "stopped"}]
  /\ seen \in [Cameras -> SUBSET Objects]
  /\ used \in [Cameras -> Nat]
  /\ batches \in Seq(Cameras \X SUBSET Objects) /\ Len(batches) <= MaxBatches
  /\ updates \in Seq(Updates) /\ orders \in Seq(Updates)
  /\ processor \in {"config", "frame", "finished", "dead"}
  /\ states \subseteq Cameras
  /\ prev \in [Cameras -> BOOLEAN]
  /\ tracked \in [Cameras -> [Objects -> {"absent", "active", "ended"}]]
  /\ kept \in [Cameras -> SUBSET Objects]
  /\ takenBack \in [Cameras -> SUBSET Objects]
  /\ mail \in [Cameras -> [Objects -> Seq(Message)]]
  /\ inProcess \in [Cameras -> [Objects -> Event \cup {None}]]
  /\ row \in [Cameras -> [Objects -> {"none", "open", "ended"}]]
  /\ cleaning \in [Cameras -> BOOLEAN]
  /\ finished \in [Cameras -> [Objects -> Nat]]
  /\ disturbed \in [Cameras -> BOOLEAN]

All(x) == [c \in Cameras |-> x]
PerObject(x) == All([n \in Objects |-> x])

Init ==
  /\ configured \in {f \in [Cameras -> BOOLEAN] : \A c \in Cameras \ Changeable : f[c]}
  /\ known = configured /\ enabled = All(TRUE)
  /\ resized = All(FALSE) /\ changes = 0
  /\ tracker = [c \in Cameras |-> IF configured[c] THEN "on" ELSE "stopped"]
  /\ seen = All({}) /\ used = All(0)
  /\ batches = <<>> /\ updates = <<>> /\ orders = <<>>
  /\ processor = "config" /\ prev = All(TRUE)
  /\ states = {c \in Cameras : configured[c]}
  /\ tracked = PerObject("absent") /\ kept = All({}) /\ takenBack = All({})
  /\ mail = PerObject(<<>>)
  /\ inProcess = PerObject(None) /\ row = PerObject("none")
  /\ cleaning = All(FALSE) /\ finished = PerObject(0)
  /\ disturbed = All(FALSE)

-----------------------------------------------------------------------------
(* The detect process of a camera *)

(* Mutant: the queue takes a batch also when it is full. *)
FrameOverfills(c) ==
  /\ tracker[c] = "on"
  /\ batches' = Append(batches, <<c, seen[c]>>)
  /\ UNCHANGED <<userVars, known, resized, trackerVars, updates, orders, processor,
                 objectVars, mail, eventVars, cleaning, finished, disturbed>>

(* A frame: some objects are gone, at most one is new. The batch is lost   *)
(* when the queue is full.                                                 *)
Frame(c) ==
  /\ tracker[c] = "on"
  /\ \E stay \in SUBSET seen[c], new \in {{}, {used[c] + 1}} :
       /\ new = {} \/ (used[c] < MaxObjects[c] /\ new \subseteq Objects)
       /\ used' = [used EXCEPT ![c] = IF new = {} THEN @ ELSE @ + 1]
       /\ seen' = [seen EXCEPT ![c] = stay \cup new]
       /\ batches' = IF Len(batches) < MaxBatches
                       THEN Append(batches, <<c, stay \cup new>>) ELSE batches
  /\ UNCHANGED <<userVars, known, resized, tracker, updates, orders, processor,
                 objectVars, mail, eventVars, cleaning, finished, disturbed>>

(* Disabled: the tracker is cleared, unless frames wait in the process's   *)
(* queue, which nobody takes as long as it is disabled. Enabled: it goes on.*)
NoticeEnabled(c) ==
  /\ tracker[c] # "stopped" /\ (tracker[c] = "on") # enabled[c]
  /\ tracker' = [tracker EXCEPT ![c] = IF enabled[c] THEN "on" ELSE "off"]
  /\ \/ seen' = seen
     \/ ~enabled[c] /\ seen' = [seen EXCEPT ![c] = {}]
  /\ UNCHANGED <<userVars, known, resized, used, batches, updates, orders, processor,
                 objectVars, mail, eventVars, cleaning, finished, disturbed>>

(* The camera maintainer stops and starts the processes of a camera. It    *)
(* shares config.cameras with the processors.                              *)
MaintainCamera ==
  /\ orders # <<>>
  /\ orders' = Tail(orders)
  /\ LET c == Head(orders)[2]
         add == Head(orders)[1] = "add"
     IN /\ known' = [known EXCEPT ![c] = add]
        /\ tracker' = [tracker EXCEPT ![c] = IF add THEN "on" ELSE "stopped"]
        /\ seen' = [seen EXCEPT ![c] = {}]
  /\ UNCHANGED <<userVars, resized, used, batches, updates, processor,
                 objectVars, mail, eventVars, cleaning, finished, disturbed>>

-----------------------------------------------------------------------------
(* The object processor: TrackedObjectProcessor.run, one round of its loop *)

Post(c, messages) ==
  mail' = [mail EXCEPT ![c] = [n \in Objects |-> mail[c][n] \o messages[n]]]

Ended(c, objs) ==
  [n \in Objects |-> IF n \in objs THEN "ended" ELSE tracked[c][n]]

Active(c) == {n \in Objects : tracked[c][n] = "active"}

Touched(kind) == {c \in Cameras : \E i \in 1..Len(updates) : updates[i] = <<kind, c>>}

LastUpdate(c) ==
  LET mine == {i \in 1..Len(updates) : updates[i][2] = c}
  IN updates[CHOOSE i \in mine : \A j \in mine : j <= i][1]

(* check_for_updates: all updates that wait, in their order. *)
DrainedConfig ==
  [c \in Cameras |-> IF c \in Touched("add") \cup Touched("remove")
                       THEN LastUpdate(c) = "add" ELSE known[c]]

(* A camera that was added, and removed before the updates were drained:   *)
(* its configuration is looked up, KeyError.                               *)
FailToAdd ==
  /\ processor = "config"
  /\ \E c \in Touched("add") : ~DrainedConfig[c]
  /\ processor' = "dead"
  /\ known' = DrainedConfig
  /\ updates' = <<>>
  /\ UNCHANGED <<userVars, resized, trackerVars, batches, orders, objectVars, mail,
                 eventVars, cleaning, finished, disturbed>>

(* force_end_all_events: the active objects of a camera that was disabled. *)
Disabled(c) ==
  /\ c \in states \ (Touched("add") \cup Touched("remove"))
  /\ known[c] /\ prev[c] /\ ~enabled[c]

(* First all cameras that were added get a new state, then all that were   *)
(* removed lose theirs; then cameras that were disabled end their events.  *)
ApplyUpdates ==
  LET fresh == Touched("add")
      gone == Touched("remove")
  IN /\ processor = "config"
     /\ \A c \in fresh : DrainedConfig[c]
     /\ processor' = "frame"
     /\ known' = DrainedConfig
     /\ updates' = <<>>
     /\ resized' = [c \in Cameras |-> resized[c] /\ c \notin fresh]
     /\ states' = (states \cup fresh) \ gone
     /\ prev' = [c \in Cameras |->
                   IF c \in states' /\ known'[c] THEN enabled[c] ELSE prev[c]]
     /\ \E worth \in [Cameras -> SUBSET Objects] :
          /\ \A c \in Cameras : worth[c] \subseteq IF Disabled(c) THEN Active(c) ELSE {}
          /\ kept' = [c \in Cameras |->
                        IF c \in fresh \cup gone THEN {}
                        ELSE IF Disabled(c) THEN (kept[c] \ Active(c)) \cup worth[c]
                        ELSE kept[c]]
          /\ takenBack' = [c \in Cameras |-> takenBack[c] \ worth[c]]
          /\ mail' = [c \in Cameras |-> [n \in Objects |->
                        IF Disabled(c) /\ n \in Active(c)
                          THEN Append(mail[c][n],
                                 [type |-> "end", kept |-> n \in worth[c], over |-> TRUE])
                          ELSE mail[c][n]]]
     /\ tracked' = [c \in Cameras |->
                      IF c \in fresh \cup gone THEN [n \in Objects |-> "absent"]
                      ELSE IF Disabled(c) THEN Ended(c, Active(c))
                      ELSE tracked[c]]
     /\ UNCHANGED <<userVars, trackerVars, batches, orders, eventVars, cleaning,
                    finished, disturbed>>

(* No frame within a second. *)
NoFrame ==
  /\ processor = "frame" /\ batches = <<>>
  /\ processor' = "config"
  /\ UNCHANGED <<userVars, known, resized, trackerVars, batches, updates, orders,
                 objectVars, mail, eventVars, cleaning, finished, disturbed>>

(* Mutant: frames of a disabled camera are processed. *)
ProcessesDisabled(c) == known[c] /\ c \in states

Processes(c) == known[c] /\ enabled[c] /\ c \in states

SkipFrame ==
  /\ processor = "frame" /\ batches # <<>>
  /\ ~Processes(Head(batches)[1])
  /\ batches' = Tail(batches)
  /\ processor' = "config"
  /\ UNCHANGED <<userVars, known, resized, trackerVars, updates, orders, objectVars,
                 mail, eventVars, cleaning, finished, disturbed>>

(* Mutant: an object is deleted when it ends. *)
UpdateForgets(c, ids, before) ==
  LET new == {n \in ids : before[n] = "absent"}
      removed == {n \in Objects \ ids : before[n] = "active"}
  IN /\ tracked' = [tracked EXCEPT ![c] = [n \in Objects |->
                      IF n \in ids THEN "active" ELSE "absent"]]
     /\ UNCHANGED <<kept, takenBack>>
     /\ Post(c, [n \in Objects |->
          IF n \in new THEN <<[type |-> "start", kept |-> FALSE, over |-> FALSE]>>
          ELSE IF n \in removed THEN
            <<[type |-> "end", kept |-> FALSE, over |-> TRUE]>>
          ELSE <<>>])

(* CameraState.update: objects start, some of those in the frame send an   *)
(* update, those no longer in it end; an object that has ended stays until *)
(* the event processor has finished with it. What is worth keeping is      *)
(* asked for each message (should_save_snapshot, should_retain_recording). *)
UpdateObjects(c, ids, before) ==
  LET new == {n \in ids : before[n] = "absent"}
      removed == {n \in Objects \ ids : before[n] = "active"}
  IN \E update \in SUBSET {n \in ids \ new : Len(mail[c][n]) < MaxMail} :
     \E worth \in SUBSET (update \cup removed) :
       /\ tracked' = [tracked EXCEPT ![c] = [n \in Objects |->
                        IF n \in new THEN "active"
                        ELSE IF n \in removed THEN "ended" ELSE before[n]]]
       /\ kept' = [kept EXCEPT ![c] = (@ \ (new \cup update \cup removed)) \cup worth]
       /\ takenBack' = [takenBack EXCEPT ![c] = (@ \cup (update \cap kept[c])) \ worth]
       /\ Post(c, [n \in Objects |->
            IF n \in new THEN <<[type |-> "start", kept |-> FALSE, over |-> FALSE]>>
            ELSE IF n \in update THEN
              <<[type |-> "update", kept |-> n \in worth, over |-> before[n] = "ended"]>>
            ELSE IF n \in removed THEN
              <<[type |-> "end", kept |-> n \in worth, over |-> TRUE]>>
            ELSE <<>>])

(* With a new detect resolution the tracked objects are dropped first, and *)
(* a batch that does not fit it is dropped as well.                        *)
TakeFrame ==
  /\ processor = "frame" /\ batches # <<>>
  /\ LET c == Head(batches)[1]
         ids == Head(batches)[2]
         before == IF resized[c] THEN [n \in Objects |-> "absent"] ELSE tracked[c]
     IN /\ Processes(c)
        /\ resized' = [resized EXCEPT ![c] = FALSE]
        /\ \/ UpdateObjects(c, ids, before)
           \/ /\ resized[c]
              /\ tracked' = [tracked EXCEPT ![c] = before]
              /\ UNCHANGED <<kept, takenBack, mail>>
  /\ batches' = Tail(batches)
  /\ processor' = "finished"
  /\ UNCHANGED <<userVars, known, trackerVars, updates, orders, states, prev,
                 eventVars, cleaning, finished, disturbed>>

(* Mutant: the report is taken and nothing done. *)
ForgetNothing(c, n) ==
  /\ processor = "finished" /\ finished[c][n] > 0
  /\ finished' = [finished EXCEPT ![c][n] = @ - 1]
  /\ UNCHANGED <<userVars, known, resized, trackerVars, batches, updates, orders,
                 processor, objectVars, mail, eventVars, cleaning, disturbed>>

(* A finished event: its object is deleted. The state may be gone; when    *)
(* only the object is, the deletion fails and ends the thread.             *)
ForgetObject(c, n) ==
  /\ processor = "finished" /\ finished[c][n] > 0
  /\ finished' = [finished EXCEPT ![c][n] = @ - 1]
  /\ \/ c \notin states /\ UNCHANGED <<processor, tracked>>
     \/ /\ c \in states /\ tracked[c][n] # "absent"
        /\ tracked' = [tracked EXCEPT ![c][n] = "absent"]
        /\ UNCHANGED processor
     \/ /\ c \in states /\ tracked[c][n] = "absent"
        /\ processor' = "dead"
        /\ UNCHANGED tracked
  /\ UNCHANGED <<userVars, known, resized, trackerVars, batches, updates, orders,
                 states, prev, kept, takenBack, mail, eventVars, cleaning, disturbed>>

NoneFinished ==
  /\ processor = "finished" /\ finished = PerObject(0)
  /\ processor' = "config"
  /\ UNCHANGED <<userVars, known, resized, trackerVars, batches, updates, orders,
                 objectVars, mail, eventVars, cleaning, finished, disturbed>>

-----------------------------------------------------------------------------
(* The event processor: EventProcessor.run, one message *)

(* Mutant: only the first time that something is kept. *)
DbUpdateOnce(old, m) == m.kept /\ ~old.kept

(* should_update_db: what calls for it whatever else the message says. *)
DbUpdateDue(old, m) ==
  \/ ~old.over /\ m.over /\ old.kept
  \/ m.kept /\ (~old.kept \/ old.over # m.over)

(* The first message about an event is only stored. *)
StoreEvent(c, n, m) ==
  /\ m.type = "start" \/ inProcess[c][n] = None
  /\ inProcess' = [inProcess EXCEPT ![c][n] = [kept |-> m.kept, over |-> m.over]]
  /\ UNCHANGED <<row, finished>>

(* The row is written (a score or a zone may call for that too), but not   *)
(* that of a camera that is gone: the event is left as it is.              *)
WriteEvent(c, n, m) ==
  /\ DbUpdateDue(inProcess[c][n], m) \/ m.kept
  /\ \/ ~known[c] /\ UNCHANGED <<inProcess, row, finished>>
     \/ /\ known[c]
        /\ row' = [row EXCEPT ![c][n] = IF m.over THEN "ended" ELSE "open"]
        /\ inProcess' = [inProcess EXCEPT ![c][n] =
             IF m.type = "end" THEN None
             ELSE [kept |-> m.kept \/ @.kept, over |-> m.over]]
        /\ finished' = [finished EXCEPT ![c][n] = IF m.type = "end" THEN @ + 1 ELSE @]

(* Mutant: events_in_process keeps an event that has ended. *)
KeepRowAndEvent(c, n, m) ==
  /\ ~DbUpdateDue(inProcess[c][n], m)
  /\ finished' = [finished EXCEPT ![c][n] = IF m.type = "end" THEN @ + 1 ELSE @]
  /\ UNCHANGED <<inProcess, row>>

(* The row is not written; the event is stored when its state changed. *)
KeepRow(c, n, m) ==
  /\ ~DbUpdateDue(inProcess[c][n], m)
  /\ \/ m.type = "end" /\ inProcess' = [inProcess EXCEPT ![c][n] = None]
     \/ m.type # "end" /\ UNCHANGED inProcess
     \/ /\ m.type # "end"
        /\ inProcess' = [inProcess EXCEPT ![c][n] = [kept |-> m.kept, over |-> m.over]]
  /\ finished' = [finished EXCEPT ![c][n] = IF m.type = "end" THEN @ + 1 ELSE @]
  /\ UNCHANGED row

HandleEvent(c, n) ==
  /\ mail[c][n] # <<>>
  /\ mail' = [mail EXCEPT ![c][n] = Tail(@)]
  /\ LET m == Head(mail[c][n])
     IN \/ StoreEvent(c, n, m)
        \/ /\ m.type # "start" /\ inProcess[c][n] # None
           /\ WriteEvent(c, n, m) \/ KeepRow(c, n, m)
  /\ UNCHANGED <<userVars, known, resized, trackerVars, batches, updates, orders,
                 processor, objectVars, cleaning, disturbed>>

-----------------------------------------------------------------------------
(* What users do, and a restart *)

Change(c) ==
  /\ c \in Changeable /\ changes < MaxChanges
  /\ changes' = changes + 1

DisableCamera(c) ==
  /\ Change(c) /\ configured[c] /\ enabled[c]
  /\ enabled' = [enabled EXCEPT ![c] = FALSE]
  /\ UNCHANGED <<configured, known, resized, trackerVars, batches, updates, orders,
                 processor, objectVars, mail, eventVars, cleaning, finished, disturbed>>

(* Enabled in haste: the events of the camera have been ended, but its     *)
(* objects are still tracked, or in frames on the queue.                   *)
Hasty(c) ==
  /\ ~prev[c]
  /\ seen[c] # {} \/ \E i \in 1..Len(batches) : batches[i][1] = c /\ batches[i][2] # {}

EnableCamera(c) ==
  /\ Change(c) /\ configured[c] /\ ~enabled[c]
  /\ enabled' = [enabled EXCEPT ![c] = TRUE]
  /\ disturbed' = [disturbed EXCEPT ![c] = @ \/ Hasty(c)]
  /\ UNCHANGED <<configured, known, resized, trackerVars, batches, updates, orders,
                 processor, objectVars, mail, eventVars, cleaning, finished>>

(* delete_camera publishes the removal, then deletes the camera's rows. *)
RemoveCamera(c) ==
  /\ Change(c) /\ configured[c]
  /\ configured' = [configured EXCEPT ![c] = FALSE]
  /\ cleaning' = [cleaning EXCEPT ![c] = TRUE]
  /\ disturbed' = [disturbed EXCEPT ![c] = TRUE]
  /\ updates' = Append(updates, <<"remove", c>>)
  /\ orders' = Append(orders, <<"remove", c>>)
  /\ UNCHANGED <<known, enabled, resized, trackerVars, batches, processor,
                 objectVars, mail, eventVars, finished>>

CleanCamera(c) ==
  /\ cleaning[c]
  /\ cleaning' = [cleaning EXCEPT ![c] = FALSE]
  /\ row' = [row EXCEPT ![c] = [n \in Objects |-> "none"]]
  /\ UNCHANGED <<userVars, known, resized, trackerVars, batches, updates, orders,
                 processor, objectVars, mail, inProcess, finished, disturbed>>

AddCamera(c) ==
  /\ Change(c) /\ ~configured[c]
  /\ configured' = [configured EXCEPT ![c] = TRUE]
  /\ enabled' = [enabled EXCEPT ![c] = TRUE]
  /\ updates' = Append(updates, <<"add", c>>)
  /\ orders' = Append(orders, <<"add", c>>)
  /\ UNCHANGED <<known, resized, trackerVars, batches, processor, objectVars, mail,
                 eventVars, cleaning, finished, disturbed>>

(* The detect settings of a replay camera: its process is recycled. *)
ResizeCamera(c) ==
  /\ Change(c) /\ configured[c] /\ known[c] /\ tracker[c] # "stopped"
  /\ resized' = [resized EXCEPT ![c] = TRUE]
  /\ seen' = [seen EXCEPT ![c] = {}]
  /\ disturbed' = [disturbed EXCEPT ![c] = TRUE]
  /\ UNCHANGED <<configured, enabled, known, tracker, used, batches, updates, orders,
                 processor, objectVars, mail, eventVars, cleaning, finished>>

(* All of Frigate starts again; events without an end get one. *)
Restart ==
  /\ changes < MaxChanges /\ changes' = changes + 1
  /\ known' = configured
  /\ resized' = All(FALSE)
  /\ tracker' = [c \in Cameras |-> IF ~configured[c] THEN "stopped"
                                   ELSE IF enabled[c] THEN "on" ELSE "off"]
  /\ seen' = All({})
  /\ batches' = <<>> /\ updates' = <<>> /\ orders' = <<>>
  /\ processor' = "config"
  /\ states' = {c \in Cameras : configured[c]}
  /\ prev' = enabled
  /\ tracked' = PerObject("absent") /\ kept' = All({}) /\ takenBack' = All({})
  /\ mail' = PerObject(<<>>) /\ inProcess' = PerObject(None)
  /\ row' = [c \in Cameras |-> [n \in Objects |->
               IF row[c][n] = "open" THEN "ended" ELSE row[c][n]]]
  /\ cleaning' = All(FALSE) /\ finished' = PerObject(0)
  /\ disturbed' = All(FALSE)
  /\ UNCHANGED <<configured, enabled, used>>

-----------------------------------------------------------------------------
ObjectProcessor ==
  \/ FailToAdd \/ ApplyUpdates \/ NoFrame \/ SkipFrame \/ TakeFrame \/ NoneFinished
  \/ \E c \in Cameras, n \in Objects : ForgetObject(c, n)

Detect(c) == Frame(c) \/ NoticeEnabled(c)

Next ==
  \/ ObjectProcessor
  \/ \E c \in Cameras : Detect(c) \/ CleanCamera(c)
  \/ \E c \in Cameras, n \in Objects : HandleEvent(c, n)
  \/ MaintainCamera
  \/ \E c \in Cameras :
       \/ DisableCamera(c) \/ EnableCamera(c)
       \/ RemoveCamera(c) \/ AddCamera(c) \/ ResizeCamera(c)
  \/ Restart

Spec == Init /\ [][Next]_vars

(* The threads and the detect processes go on; users need do nothing. *)
FairSpec ==
  /\ Spec
  /\ WF_vars(ObjectProcessor)
  /\ \A c \in Cameras : WF_vars(Frame(c)) /\ WF_vars(NoticeEnabled(c))
  /\ \A c \in Cameras, n \in Objects : WF_vars(HandleEvent(c, n))

-----------------------------------------------------------------------------
(* Properties *)

Ending(c, n) == \E i \in 1..Len(mail[c][n]) : mail[c][n][i].type = "end"

(* No event stays open for ever: as long as its camera was not disturbed,  *)
(* an event without an end in the database is that of an object that is    *)
(* still tracked, or its end is on the way.  The exception is an object    *)
(* whose clip and snapshot were given up while it was tracked, and which   *)
(* did not earn them again by its end: its event is passed over.           *)
OpenEventIsTracked ==
  \A c \in Cameras, n \in Objects :
    row[c][n] = "open" /\ ~disturbed[c] /\ n \notin takenBack[c]
      => tracked[c][n] = "active" \/ Ending(c, n)

(* events_in_process holds no event that nobody will end. *)
EventsInProcessWillEnd ==
  \A c \in Cameras, n \in Objects :
    inProcess[c][n] # None /\ ~disturbed[c]
      => tracked[c][n] = "active" \/ Ending(c, n)

(* An event that has ended is not opened again. *)
EndedEventsAreFinal ==
  [][\A c \in Cameras, n \in Objects :
       row[c][n] = "ended" /\ ~disturbed'[c] => row'[c][n] = "ended"]_vars

(* The object processor deletes only objects that it has: its thread lives *)
(* as long as no camera is disturbed.                                      *)
ProcessorSurvives == (\A c \in Cameras : ~disturbed[c]) => processor # "dead"

(* The object processor's thread lives, whatever users do.  TLC refutes it *)
(* (README, section 6). *)
ProcessorRuns == processor # "dead"

(* An object that has ended is forgotten, as long as some camera sends     *)
(* frames and its own is not disturbed.                                    *)
EndedObjectsAreForgotten ==
  \A c \in Cameras : \A n \in {i \in Objects : i <= MaxObjects[c]} :
    tracked[c][n] = "ended"
      ~> (tracked[c][n] # "ended" \/ disturbed[c] \/ processor = "dead")
=============================================================================
