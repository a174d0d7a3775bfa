--------------------------- MODULE ReviewSegments ---------------------------
(***************************************************************************)
(* The review segment maintainer (src/frigate/review/maintainer.py): one   *)
(* thread that turns the detection messages of all cameras (video frames   *)
(* with their tracked objects, audio detections, manual and license plate  *)
(* events) into review segments, and publishes each segment as a database  *)
(* row, as MQTT messages and as the camera's review_status.                *)
(*                                                                         *)
(* The thread handles one message at a time, so a message is one action.   *)
(* The interleaving is between the senders: the object processor, the      *)
(* audio processes, the API, the configuration publisher, the watchdog.    *)
(*                                                                         *)
(* Abstractions: an object is its label and whether ActiveObjects keeps    *)
(* it; zones and sub labels only matter as "something new was recognised"; *)
(* identifiers of segments are counted instead of drawn at random; time is *)
(* a counter. Audio and manual messages are stamped when they are sent and *)
(* delivered within the unit of time; video waits behind detection, so a   *)
(* frame may be up to MaxLag old.                                          *)
(***************************************************************************)
EXTENDS Integers, FiniteSets

CONSTANTS
  Cameras,             \* names of cameras
  Events,              \* ids of manual and license plate events
  Labels,              \* object and audio labels
  AlertLabels,         \* review.alerts.labels
  DetectionLabels,     \* review.detections.labels when it is a list
  EveryLabelDetects,   \* TRUE when review.detections.labels is None
  Scenes,              \* what a frame shows: sets of [label, active] records
  Sounds,              \* what an audio message lists: non-empty sets of labels
  Durations,           \* durations of the manual events created with one
  PlateEvents,         \* TRUE when the cameras are dedicated LPR cameras too
  Settable,            \* bound: the settings that are changed at run time
  AlertCutoff,         \* review.alerts.cutoff_time
  DetectionCutoff,     \* review.detections.cutoff_time
  Forever,             \* sys.maxsize
  Crashes,             \* bound: FALSE where the process is not killed
  MaxTime,             \* bound: the clock
  MaxLag,              \* bound: age of a frame when it is handled
  MaxSegments,         \* bound: segments per camera
  NoSegment            \* no pending segment

ASSUME TimeAssumption ==
  /\ AlertCutoff \in Nat /\ DetectionCutoff \in Nat
  /\ MaxTime \in Nat /\ MaxLag \in Nat /\ MaxSegments \in Nat
  /\ Durations \subseteq Nat
  /\ Forever \in Nat
  /\ \A d \in Durations : MaxTime + d < Forever
  /\ MaxTime < Forever

NoTime == -1

ASSUME LabelAssumption ==
  /\ AlertLabels \subseteq Labels /\ DetectionLabels \subseteq Labels
  /\ EveryLabelDetects \in BOOLEAN /\ PlateEvents \in BOOLEAN
  /\ Crashes \in BOOLEAN
  /\ Scenes \subseteq SUBSET [label : Labels, active : BOOLEAN]
  /\ \A objs \in Scenes : IsFiniteSet(objs)
  /\ Sounds \subseteq SUBSET Labels

VARIABLES
  now,          \* wall clock
  lastVideo,    \* per camera: frame time of the last frame handled
  config,       \* per camera: the settings that are on, as this process knows
  segment,      \* active_review_segments
  indefinite,   \* indefinite_events: manual events with no set duration
  created,      \* per camera: segments created so far (gives their ids)
  rows,         \* per camera and segment: what was stored and published of it
  status,       \* per camera: the last review_status published
  manual,       \* the sender's ongoing_manual_events, and which ids were used
  overwritten,  \* history: a later message has set the times of a segment
                \* that manual events hold open
  thread        \* the maintainer thread

reviewVars == <<segment, indefinite, created, rows, status>>
vars == <<now, lastVideo, config, segment, indefinite, created, rows, status,
          manual, overwritten, thread>>

SegmentIds == 1..MaxSegments
Severities == {"alert", "detection"}
Times == Nat \cup {NoTime}

Segment == [id : SegmentIds, start_time : Nat, severity : Severities,
            last_alert_time : Times, last_detection_time : Nat,
            has_frame : BOOLEAN, frame_active_count : Nat]

ASSUME NoSegmentAssumption == NoSegment \notin Segment

(* A stored review item and the type of the last message sent about it;    *)
(* "cleared" is an item closed for a maintainer that died.                 *)
Row == [last : {"none", "new", "update", "end", "cleared"}, start_time : Nat,
        end_time : Times, severity : Severities]

NoRow == [last |-> "none", start_time |-> 0, end_time |-> NoTime,
          severity |-> "detection"]

Stored(c, i) == rows[c][i].last # "none"
Open(c, i) == rows[c][i].last \in {"new", "update"}
Ended(c, i) == rows[c][i].last \in {"end", "cleared"}

(* The camera is configured; it is enabled; record, review.alerts and      *)
(* review.detections are enabled.                                          *)
Settings == {"known", "enabled", "record", "alerts", "detections"}

(* Every field of the state has the shape the code gives it. *)
TypeOK ==
  /\ now \in 0..MaxTime
  /\ lastVideo \in [Cameras -> 0..MaxTime]
  /\ config \in [Cameras -> SUBSET Settings]
  /\ segment \in [Cameras -> Segment \cup {NoSegment}]
  /\ indefinite \in [Cameras -> SUBSET Events]
  /\ created \in [Cameras -> 0..MaxSegments]
  /\ rows \in [Cameras -> [SegmentIds -> Row]]
  /\ status \in [Cameras -> {"NONE", "ALERT", "DETECTION"}]
  /\ manual \in [Events -> Cameras \cup {"unused", "closed"}]
  /\ overwritten \in [Cameras -> BOOLEAN]
  /\ thread \in {"running", "dead", "killed"}

Init ==
  /\ now = 0
  /\ lastVideo = [c \in Cameras |-> 0]
  /\ config = [c \in Cameras |-> Settings]
  /\ segment = [c \in Cameras |-> NoSegment]
  /\ indefinite = [c \in Cameras |-> {}]
  /\ created = [c \in Cameras |-> 0]
  /\ rows = [c \in Cameras |-> [i \in SegmentIds |-> NoRow]]
  /\ status = [c \in Cameras |-> "NONE"]
  /\ manual = [e \in Events |-> "unused"]
  /\ overwritten = [c \in Cameras |-> FALSE]
  /\ thread = "running"

-----------------------------------------------------------------------------
(* Categories *)

IsDetectionLabel(l) == EveryLabelDetects \/ l \in DetectionLabels

(* ActiveObjects: the objects of a frame that count, by category. *)
AlertObjects(c, objs) ==
  {o \in objs : o.active /\ o.label \in AlertLabels /\ "alerts" \in config[c]}
DetectionObjects(c, objs) ==
  {o \in objs \ AlertObjects(c, objs) :
     o.active /\ IsDetectionLabel(o.label) /\ "detections" \in config[c]}
Activity(c, objs) == AlertObjects(c, objs) \cup DetectionObjects(c, objs)

(* The sounds of an audio message, by category. *)
AlertSounds(c, sounds) ==
  IF "alerts" \in config[c] THEN sounds \cap AlertLabels ELSE {}
DetectionSounds(c, sounds) ==
  {l \in sounds \ AlertSounds(c, sounds) :
     IsDetectionLabel(l) /\ "detections" \in config[c]}

(* get_manual_event_severity; "none" stands for its None. *)
ManualSeverity(c, l) ==
  IF "alerts" \in config[c] /\ l \in AlertLabels THEN "alert"
  ELSE IF /\ "detections" \in config[c]
          /\ ~EveryLabelDetects /\ l \in DetectionLabels THEN "detection"
  ELSE IF "alerts" \in config[c] THEN "alert" ELSE "none"

-----------------------------------------------------------------------------
(* Segments and what is published of them *)

(* Mutant: ids counted from zero. *)
NewSegmentIdOff(c, t, severity) ==
  [id |-> created[c], start_time |-> t, severity |-> severity,
   last_alert_time |-> IF severity = "alert" THEN t ELSE NoTime,
   last_detection_time |-> t, has_frame |-> FALSE, frame_active_count |-> 0]

NewSegment(c, t, severity) ==
  [id |-> created[c] + 1, start_time |-> t, severity |-> severity,
   last_alert_time |-> IF severity = "alert" THEN t ELSE NoTime,
   last_detection_time |-> t, has_frame |-> FALSE, frame_active_count |-> 0]

(* get_data(ended=True) *)
EndTime(seg) ==
  IF seg.severity = "alert" THEN seg.last_alert_time ELSE seg.last_detection_time

(* Upsert the row of a segment, send a message of that type and the status. *)
Publish(c, seg, type) ==
  /\ rows' = [rows EXCEPT ![c][seg.id] =
       [last |-> type, start_time |-> seg.start_time, severity |-> seg.severity,
        end_time |-> IF type = "end" THEN EndTime(seg) ELSE NoTime]]
  /\ status' = [status EXCEPT ![c] =
       CASE type = "end" -> "NONE"
         [] type # "end" /\ seg.severity = "alert" -> "ALERT"
         [] OTHER -> "DETECTION"]

Keep(c, seg) == segment' = [segment EXCEPT ![c] = seg]

(* Mutant: the segment stays in active_review_segments. *)
PublishEndKeeps(c, seg) == Publish(c, seg, "end") /\ Keep(c, seg)

(* _publish_segment_end *)
PublishEnd(c, seg) ==
  /\ Publish(c, seg, "end")
  /\ Keep(c, NoSegment)

(* A new pending segment that has not been published. *)
Pend(c, seg) ==
  /\ created[c] < MaxSegments
  /\ created' = [created EXCEPT ![c] = @ + 1]
  /\ Keep(c, seg)

(* Mutant: only the place holder of the alert time is replaced. *)
EndPendingHeld(c) ==
  \/ segment[c] = NoSegment /\ UNCHANGED <<segment, rows, status>>
  \/ /\ segment[c] # NoSegment
     /\ LET stop(t) == IF indefinite[c] # {} /\ t = Forever THEN now ELSE t
        IN PublishEnd(c, [segment[c] EXCEPT !.last_alert_time = stop(@)])

(* Mutant: the segment is dropped, not ended. *)
EndPendingSilent(c) == Keep(c, NoSegment) /\ UNCHANGED <<rows, status>>

(* The pending segment ends now; one held by manual events ends at "now". *)
EndPending(c) ==
  \/ segment[c] = NoSegment /\ UNCHANGED <<segment, rows, status>>
  \/ /\ segment[c] # NoSegment
     /\ LET stop(t) == IF indefinite[c] # {} /\ t = Forever THEN now ELSE t
        IN PublishEnd(c, [segment[c] EXCEPT !.last_alert_time = stop(@),
                                            !.last_detection_time = stop(@)])

ForciblyEndSegment(c) ==
  /\ EndPending(c)
  /\ indefinite' = [indefinite EXCEPT ![c] = IF segment[c] = NoSegment THEN @ ELSE {}]
  /\ UNCHANGED created

-----------------------------------------------------------------------------
(* What happens to a message before it reaches the handler of its topic *)

Accepts(c) == {"known", "enabled", "record"} \subseteq config[c]

SeverityDisabled(c) ==
  /\ segment[c] # NoSegment
  /\ (IF segment[c].severity = "alert" THEN "alerts" ELSE "detections") \notin config[c]

(* The message is dropped: nobody runs, or the camera does not record. *)
Drop(c) ==
  /\ ~(thread = "running" /\ Accepts(c))
  /\ UNCHANGED <<reviewVars, overwritten, thread>>

(* The segment's severity has been switched off: it ends, the message is lost. *)
EndDisabled(c) ==
  /\ thread = "running" /\ Accepts(c) /\ SeverityDisabled(c)
  /\ ForciblyEndSegment(c)
  /\ UNCHANGED <<overwritten, thread>>

Pending(c) ==
  thread = "running" /\ Accepts(c) /\ segment[c] # NoSegment /\ ~SeverityDisabled(c)
Idle(c) == thread = "running" /\ Accepts(c) /\ segment[c] = NoSegment

-----------------------------------------------------------------------------
(* Video frames *)

(* What becomes of the image of a frame: no longer in shared memory, there *)
(* but with no 16:9 region around the objects, or stored as thumbnail.     *)
Images == {"missing", "unfit", "stored"}

FrameTimes(c) == {t \in lastVideo[c]..now : now - t <= MaxLag}

(* update_existing_segment, activity in the frame: the segment is extended *)
(* and upgraded; an update goes out when something changed, unless the     *)
(* image it needs is no longer in shared memory.                           *)
ExtendSegment(c, t, objs, image, recognised) ==
  LET old == segment[c]
      count == Cardinality(Activity(c, objs))
      alert == AlertObjects(c, objs) # {}
      upgraded == alert /\ old.severity # "alert"
      reframe == upgraded \/ count > old.frame_active_count
      publish == (reframe \/ recognised) /\ (reframe => image # "missing")
      framed == reframe /\ image = "stored"
      seg == [old EXCEPT
        !.severity = IF alert THEN "alert" ELSE @,
        !.last_alert_time = IF alert /\ (@ = NoTime \/ t > @) THEN t ELSE @,
        !.last_detection_time =
           IF DetectionObjects(c, objs) # {} /\ t > @ THEN t ELSE @,
        !.has_frame = @ \/ framed,
        !.frame_active_count = IF framed THEN count ELSE @]
  IN /\ Activity(c, objs) # {}
     /\ Keep(c, seg)
     /\ \/ publish /\ Publish(c, seg, "update")
        \/ ~publish /\ UNCHANGED <<rows, status>>

(* Mutant: the cutoff is not waited for. *)
CutoffIgnored(seg, t) ==
  IF seg.severity = "alert"
    THEN seg.last_alert_time # NoTime /\ t >= seg.last_alert_time
    ELSE t >= seg.last_detection_time

CutoffPassed(seg, t) ==
  IF seg.severity = "alert"
    THEN seg.last_alert_time # NoTime /\ t > seg.last_alert_time + AlertCutoff
    ELSE t > seg.last_detection_time + DetectionCutoff

(* Mutant: a frame that is gone is not looked at, image or no image. *)
SettleNeedsFrame(c, t, objs, image) ==
  LET seg == [segment[c] EXCEPT !.has_frame = TRUE]
  IN /\ Activity(c, objs) = {}
     /\ \/ image # "missing" /\ CutoffPassed(seg, t) /\ PublishEnd(c, seg)
        \/ ~(image # "missing" /\ CutoffPassed(seg, t))
           /\ UNCHANGED <<segment, rows, status>>

(* update_existing_segment, no activity: a segment that has no image yet   *)
(* gets one (or waits for a frame that is still in shared memory), and the *)
(* segment ends once its cutoff has passed. The detection segment the code *)
(* would then start is never started: it is built from the active          *)
(* detections of a frame that has no activity.                             *)
SettleSegment(c, t, objs, image) ==
  LET first == ~segment[c].has_frame
      seg == [segment[c] EXCEPT !.has_frame = TRUE]
  IN /\ Activity(c, objs) = {}
     /\ \/ first /\ image = "missing" /\ UNCHANGED <<segment, rows, status>>
        \/ /\ first => image # "missing"
           /\ CutoffPassed(seg, t)
           /\ PublishEnd(c, seg)
        \/ /\ first /\ image # "missing"
           /\ ~CutoffPassed(seg, t)
           /\ Keep(c, seg)
           /\ Publish(c, seg, "update")
        \/ /\ ~first /\ ~CutoffPassed(seg, t)
           /\ UNCHANGED <<segment, rows, status>>

(* check_if_new_segment: the segment is pending from here on, and is       *)
(* published as new only if the frame is still in shared memory.           *)
CheckIfNewSegment(c, t, objs, image) ==
  LET severity == IF AlertObjects(c, objs) # {} THEN "alert" ELSE "detection"
      framed == image = "stored"
      seg == [NewSegment(c, t, severity) EXCEPT
                !.has_frame = framed,
                !.frame_active_count =
                   IF framed THEN Cardinality(Activity(c, objs)) ELSE 0]
  IN \/ /\ Activity(c, objs) = {}
        /\ UNCHANGED <<segment, created, rows, status>>
     \/ /\ Activity(c, objs) # {}
        /\ Pend(c, seg)
        /\ \/ image # "missing" /\ Publish(c, seg, "new")
           \/ image = "missing" /\ UNCHANGED <<rows, status>>

VideoFrame(c, t, objs, image) ==
  /\ lastVideo' = [lastVideo EXCEPT ![c] = t]
  /\ UNCHANGED <<now, config, manual, overwritten>>
  /\ \/ Drop(c)
     \/ EndDisabled(c)
     \/ /\ Pending(c)
        /\ \/ \E recognised \in BOOLEAN :
                ExtendSegment(c, t, objs, image, recognised)
           \/ SettleSegment(c, t, objs, image)
        /\ UNCHANGED <<indefinite, created, thread>>
     \/ /\ Idle(c)
        /\ CheckIfNewSegment(c, t, objs, image)
        /\ UNCHANGED <<indefinite, thread>>

Video(c, t) ==
  \E objs \in Scenes, image \in Images : VideoFrame(c, t, objs, image)

-----------------------------------------------------------------------------
(* Audio messages *)

(* Mutant: the segment becomes an alert without the time of an alert. *)
AudioUpgradesOnly(c, sounds) ==
  /\ Keep(c, [segment[c] EXCEPT
        !.severity = IF AlertSounds(c, sounds) # {} THEN "alert" ELSE @])
  /\ UNCHANGED <<created, overwritten>>

(* A message that sets the times of the pending segment: a hold is lost.   *)
Overwrite(c, sets) ==
  overwritten' = [overwritten EXCEPT ![c] = @ \/ (sets /\ indefinite[c] # {})]

(* The pending segment takes the time of the message, whatever it had. *)
AudioExtends(c, sounds) ==
  /\ Keep(c, [segment[c] EXCEPT
        !.severity = IF AlertSounds(c, sounds) # {} THEN "alert" ELSE @,
        !.last_alert_time = IF AlertSounds(c, sounds) # {} THEN now ELSE @,
        !.last_detection_time = IF DetectionSounds(c, sounds) # {} THEN now ELSE @])
  /\ Overwrite(c, AlertSounds(c, sounds) \cup DetectionSounds(c, sounds) # {})
  /\ UNCHANGED created

AudioStarts(c, sounds) ==
  LET heard == AlertSounds(c, sounds) \cup DetectionSounds(c, sounds)
      severity == IF AlertSounds(c, sounds) # {} THEN "alert" ELSE "detection"
  IN /\ \/ heard = {} /\ UNCHANGED <<segment, created>>
        \/ heard # {} /\ Pend(c, NewSegment(c, now, severity))
     /\ UNCHANGED overwritten

Audio(c, sounds) ==
  /\ UNCHANGED <<now, lastVideo, config, manual>>
  /\ \/ Drop(c)
     \/ EndDisabled(c)
     \/ /\ \/ Pending(c) /\ AudioExtends(c, sounds)
           \/ Idle(c) /\ AudioStarts(c, sounds)
        /\ UNCHANGED <<indefinite, rows, status, thread>>

-----------------------------------------------------------------------------
(* Manual (api) and license plate (lpr) events. The sender's part is in    *)
(* src/frigate/track/object_processing.py: an event is remembered in       *)
(* ongoing_manual_events until its end is asked for.                       *)

(* Mutant: only the alert time is held. *)
HoldAlert(seg) == [seg EXCEPT !.last_alert_time = Forever]

Hold(seg) ==
  [seg EXCEPT !.last_alert_time = Forever, !.last_detection_time = Forever]

(* An event with no set duration: the segment is held until it is ended.   *)
Holds(e, c) ==
  /\ indefinite' = [indefinite EXCEPT ![c] = @ \cup {e}]
  /\ overwritten' = [overwritten EXCEPT ![c] = FALSE]

EventStartsIn(e, c, seg) == Keep(c, Hold(seg)) /\ Holds(e, c)

ApiStart(e, c, l) ==
  LET severity == ManualSeverity(c, l)
  IN \/ /\ Pending(c)
        /\ EventStartsIn(e, c, [segment[c] EXCEPT
             !.severity = IF severity = "alert" THEN "alert" ELSE @])
        /\ UNCHANGED created
     \/ /\ Idle(c) /\ severity # "none"
        /\ Pend(c, Hold(NewSegment(c, now, severity)))
        /\ Holds(e, c)
     \/ /\ Idle(c) /\ severity = "none"
        /\ UNCHANGED <<segment, indefinite, created, overwritten>>

PlateStart(e, c) ==
  \/ /\ Pending(c)
     /\ EventStartsIn(e, c, [segment[c] EXCEPT
          !.severity = IF "detections" \in config[c] THEN "detection" ELSE @])
     /\ UNCHANGED created
  \/ /\ Idle(c) /\ "detections" \in config[c]
     /\ Pend(c, Hold(NewSegment(c, now, "detection")))
     /\ Holds(e, c)
  \/ /\ Idle(c) /\ "detections" \notin config[c]
     /\ UNCHANGED <<segment, indefinite, created, overwritten>>

(* An event created with a duration. *)
ApiComplete(c, l, end) ==
  LET severity == ManualSeverity(c, l)
  IN /\ \/ /\ Pending(c)
           /\ Keep(c, [segment[c] EXCEPT
                !.severity = IF severity = "alert" THEN "alert" ELSE @,
                !.last_alert_time = IF severity = "alert" THEN end ELSE @,
                !.last_detection_time = IF severity = "detection" THEN end ELSE @])
           /\ Overwrite(c, severity # "none")
           /\ UNCHANGED created
        \/ /\ Idle(c) /\ severity # "none"
           /\ Pend(c, [NewSegment(c, now, severity) EXCEPT
                !.last_alert_time = end, !.last_detection_time = end])
           /\ UNCHANGED overwritten
        \/ /\ Idle(c) /\ severity = "none"
           /\ UNCHANGED <<segment, created, overwritten>>
     /\ UNCHANGED indefinite

(* create_manual_event and create_lpr_event, and what the maintainer does  *)
(* with the message.                                                       *)
CreateManualEvent(e, c) ==
  /\ manual[e] = "unused" /\ "known" \in config[c]
  /\ manual' = [manual EXCEPT ![e] = c]
  /\ UNCHANGED <<now, lastVideo, config>>
  /\ \/ Drop(c)
     \/ EndDisabled(c)
     \/ /\ \/ \E l \in Labels : ApiStart(e, c, l)
           \/ \E l \in Labels, d \in Durations : ApiComplete(c, l, now + d)
           \/ PlateEvents /\ PlateStart(e, c)
        /\ UNCHANGED <<rows, status, thread>>

(* end_manual_event: the message goes to the camera the event was created  *)
(* on, and carries no label. With a pending segment it releases the event; *)
(* without one the thread looks the label up and dies of the KeyError.     *)
EndManualEvent(e, c) ==
  /\ manual[e] = c
  /\ manual' = [manual EXCEPT ![e] = "closed"]
  /\ UNCHANGED <<now, lastVideo, config, overwritten>>
  /\ \/ Drop(c)
     \/ EndDisabled(c)
     \/ /\ Pending(c) /\ e \in indefinite[c]
        /\ indefinite' = [indefinite EXCEPT ![c] = @ \ {e}]
        /\ \/ /\ indefinite[c] = {e}
              /\ Keep(c, [segment[c] EXCEPT !.last_alert_time = now,
                                            !.last_detection_time = now])
           \/ indefinite[c] # {e} /\ UNCHANGED segment
        /\ UNCHANGED <<created, rows, status, thread>>
     \/ /\ Pending(c) /\ e \notin indefinite[c]
        /\ UNCHANGED <<reviewVars, thread>>
     \/ /\ Idle(c)
        /\ thread' = "dead"
        /\ UNCHANGED reviewVars

-----------------------------------------------------------------------------
(* Configuration updates, applied at the top of the thread's loop *)

(* The settings of one topic: on becomes off, off becomes on. *)
Toggle(c, topic) ==
  /\ thread = "running"
  /\ \E f \in Settable \cap topic :
       config' = [config EXCEPT ![c] = IF f \in @ THEN @ \ {f} ELSE @ \cup {f}]
  /\ UNCHANGED <<now, lastVideo, manual, overwritten, thread>>

(* Topics enabled and record: the segment is ended. *)
ToggleCamera(c) ==
  /\ "known" \in config[c]
  /\ Toggle(c, {"enabled", "record"})
  /\ ForciblyEndSegment(c)

(* Topic review: the next message finds out. *)
ToggleSeverity(c) ==
  /\ "known" \in config[c]
  /\ Toggle(c, {"alerts", "detections"})
  /\ UNCHANGED reviewVars

(* Topic remove: _handle_camera_removed. *)
RemoveCamera(c) ==
  /\ "known" \in config[c]
  /\ Toggle(c, {"known"})
  /\ EndPending(c)
  /\ indefinite' = [indefinite EXCEPT ![c] = {}]
  /\ UNCHANGED created

(* Topic add: a camera of that name is back. *)
AddCamera(c) ==
  /\ "known" \notin config[c]
  /\ Toggle(c, {"known"})
  /\ UNCHANGED reviewVars

-----------------------------------------------------------------------------
(* Time, and the life of the process *)

Tick ==
  /\ now < MaxTime
  /\ now' = now + 1
  /\ UNCHANGED <<lastVideo, config, reviewVars, manual, overwritten, thread>>

(* The process is killed, alone or with all of Frigate. *)
Kill ==
  /\ Crashes /\ thread = "running"
  /\ thread' = "killed"
  /\ UNCHANGED <<now, lastVideo, config, reviewVars, manual, overwritten>>

(* Mutant: the rows of the last maintainer are left alone. *)
StartUncleared ==
  /\ thread' = "running"
  /\ segment' = [c \in Cameras |-> NoSegment]
  /\ indefinite' = [c \in Cameras |-> {}]
  /\ UNCHANGED <<now, lastVideo, config, created, rows, status, overwritten>>

(* A new maintainer starts with empty tables and has the dispatcher close  *)
(* the open rows of the last one (CLEAR_ONGOING_REVIEW_SEGMENTS).          *)
StartMaintainer ==
  /\ thread' = "running"
  /\ segment' = [c \in Cameras |-> NoSegment]
  /\ indefinite' = [c \in Cameras |-> {}]
  /\ rows' = [c \in Cameras |-> [i \in SegmentIds |->
                IF Open(c, i)
                  THEN [rows[c][i] EXCEPT !.last = "cleared", !.end_time = now]
                  ELSE rows[c][i]]]
  /\ UNCHANGED <<now, lastVideo, config, created, status, overwritten>>

(* The watchdog replaces a process that failed. One whose only thread died *)
(* of an exception exits with code 0 and is left alone.                    *)
WatchdogRestart == thread = "killed" /\ StartMaintainer /\ UNCHANGED manual

(* All of Frigate is restarted: the object processor forgets its events.   *)
FrigateRestart ==
  /\ thread # "running" /\ StartMaintainer
  /\ manual' = [e \in Events |-> IF manual[e] \in Cameras THEN "closed" ELSE manual[e]]

(* Everything but video. *)
Elsewhere ==
  \/ Tick
  \/ Kill \/ WatchdogRestart \/ FrigateRestart
  \/ \E c \in Cameras :
       \/ \E sounds \in Sounds : Audio(c, sounds)
       \/ \E e \in Events : CreateManualEvent(e, c) \/ EndManualEvent(e, c)
       \/ ToggleCamera(c) \/ ToggleSeverity(c)
       \/ RemoveCamera(c) \/ AddCamera(c)

Next == Elsewhere \/ \E c \in Cameras : \E t \in FrameTimes(c) : Video(c, t)

Spec == Init /\ [][Next]_vars

-----------------------------------------------------------------------------
(* Properties *)

(* A running maintainer answers for every open review item: the only item  *)
(* of a camera without an end is that of its pending segment, so none is   *)
(* forgotten when segments end, are replaced, or a maintainer dies.        *)
OpenItemIsPending ==
  thread = "running" =>
    \A c \in Cameras, i \in SegmentIds :
      Open(c, i) => segment[c] # NoSegment /\ segment[c].id = i

(* No stored item ends at sys.maxsize: whichever way a segment that manual *)
(* events hold open is ended, the place holder is replaced by a time.      *)
NoItemEndsAtForever ==
  \A c \in Cameras, i \in SegmentIds : rows[c][i].end_time # Forever

(* Every alert can end: it knows when it was last active (the cutoff of an *)
(* alert without that time is never passed).                               *)
AlertsCanEnd ==
  \A c \in Cameras :
    segment[c] # NoSegment /\ segment[c].severity = "alert"
      => segment[c].last_alert_time # NoTime

(* Once an item has ended nothing touches it again: no late message, no    *)
(* second end, no segment that takes over its id.                          *)
EndedItemsAreFinal ==
  [][\A c \in Cameras, i \in SegmentIds :
       Ended(c, i) => rows'[c][i] = rows[c][i]]_vars

(* While an event with no set duration is ongoing, its segment cannot end  *)
(* by itself ("temporarily make it so this event can not end"), unless a   *)
(* sound that counts or an event with a duration has set its times since   *)
(* the last event that holds it began: these two overwrite the hold.       *)
IndefiniteEventsHold ==
  \A c \in Cameras :
    indefinite[c] # {} /\ thread = "running" /\ ~overwritten[c]
      => /\ segment[c] # NoSegment
         /\ segment[c].last_alert_time = Forever
         /\ segment[c].last_detection_time = Forever

(* Items of one camera do not overlap.  TLC refutes it (README, section 6). *)
ItemsDoNotOverlap ==
  \A c \in Cameras, i, j \in SegmentIds :
    i < j /\ Ended(c, i) /\ Stored(c, j)
      => rows[c][i].end_time <= rows[c][j].start_time

(* Items ended by their cutoff are in the past when they end, so that they *)
(* cannot overlap what comes next on their camera.                         *)
CutoffEndsInThePast ==
  [][\A c \in Cameras, i \in SegmentIds :
       (/\ rows[c][i].last # "end" /\ rows'[c][i].last = "end"
        /\ ~SeverityDisabled(c) /\ config' = config)
       => rows'[c][i].end_time < lastVideo'[c]]_vars

(* No message that the senders can produce kills the thread. *)
ThreadSurvives == thread # "dead"

(* What readers see of the items. *)
Items ==
  [c \in Cameras |-> [i \in SegmentIds |->
     IF Open(c, i) THEN "open" ELSE IF Ended(c, i) THEN "ended" ELSE "absent"]]

(* The maintainer implements the timeline its readers rely on. *)
Timeline == INSTANCE ReviewTimeline WITH items <- Items
TimelineSpec == Timeline!TimelineSpec
=============================================================================
