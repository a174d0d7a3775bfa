------------------------ MODULE ReviewSegments_proofs ------------------------
(***************************************************************************)
(* Proofs about ReviewSegments for any cameras, labels, events, cutoffs    *)
(* and bounds.                                                             *)
(*                                                                         *)
(* Whatever the message, it does one of four things to the segments of its *)
(* camera: nothing, revise the pending segment, begin one, or finish the   *)
(* pending one. The handlers are shown to do one of these (section 1), and *)
(* the invariants are shown to survive each of them (section 2).           *)
(***************************************************************************)
EXTENDS ReviewSegments, FiniteSetTheorems, TLAPS

-----------------------------------------------------------------------------
(* 1. What a message can do *)

(* A pending segment that is sound: an alert knows when it was last active, *)
(* and only manual events hold a segment open.                             *)
SoundSegment(seg, events) ==
  /\ seg \in Segment
  /\ seg.severity = "alert" => seg.last_alert_time # NoTime
  /\ Forever \in {seg.last_alert_time, seg.last_detection_time} => events # {}

PendingInv ==
  \A c \in Cameras :
    segment[c] # NoSegment => SoundSegment(segment[c], indefinite[c])

Same == UNCHANGED <<segment, created, rows, status>>

Revise(c, seg) ==
  /\ segment[c] # NoSegment /\ seg.id = segment[c].id
  /\ SoundSegment(seg, indefinite'[c])
  /\ Keep(c, seg)
  /\ Publish(c, seg, "update") \/ UNCHANGED <<rows, status>>
  /\ UNCHANGED created

Begin(c, seg) ==
  /\ segment[c] = NoSegment /\ seg.id = created[c] + 1
  /\ SoundSegment(seg, indefinite'[c])
  /\ Pend(c, seg)
  /\ Publish(c, seg, "new") \/ UNCHANGED <<rows, status>>

Finish(c, seg) ==
  /\ segment[c] # NoSegment /\ seg.id = segment[c].id
  /\ seg \in Segment /\ EndTime(seg) # Forever
  /\ PublishEnd(c, seg)
  /\ UNCHANGED created

Effect(c) ==
  /\ indefinite' \in [Cameras -> SUBSET Events]
  /\ \A b \in Cameras : b # c => indefinite'[b] = indefinite[b]
  /\ \/ Same /\ (segment[c] # NoSegment /\ indefinite[c] # {} => indefinite'[c] # {})
     \/ \E seg \in Segment : Revise(c, seg) \/ Begin(c, seg) \/ Finish(c, seg)

(* The end that get_data gives a segment is a time.                        *)
LEMMA EndTimeType == ASSUME NEW seg \in Segment PROVE EndTime(seg) \in Times
  BY DEF EndTime, Segment, Times, NoTime

(* forcibly_end_segment, also for a camera that goes away: no pending      *)
(* segment, or one that finishes at a time.                                *)
LEMMA EndPendingEffect ==
  ASSUME TypeOK, PendingInv, NEW c \in Cameras, EndPending(c), UNCHANGED created,
         indefinite' = [indefinite EXCEPT ![c] = {}] \/ UNCHANGED indefinite,
         segment[c] = NoSegment \/ indefinite'[c] = {}
  PROVE  Effect(c)
<1>1. /\ indefinite' \in [Cameras -> SUBSET Events]
      /\ \A b \in Cameras : b # c => indefinite'[b] = indefinite[b]
  BY DEF TypeOK
<1>2. CASE segment[c] = NoSegment
  <2>1. Same
    BY <1>2 DEF EndPending, Same
  <2> QED
    BY <1>1, <1>2, <2>1 DEF Effect
<1>3. CASE segment[c] # NoSegment
  <2> DEFINE stop(t) == IF indefinite[c] # {} /\ t = Forever THEN now ELSE t
             seg == [segment[c] EXCEPT !.last_alert_time = stop(@),
                                       !.last_detection_time = stop(@)]
  <2>1. segment[c] \in Segment /\ SoundSegment(segment[c], indefinite[c])
    BY <1>3 DEF TypeOK, PendingInv
  <2>2. now \in Nat /\ now # Forever
    BY TimeAssumption DEF TypeOK
  <2>3. seg \in Segment /\ seg.id = segment[c].id
    BY <2>1, <2>2 DEF Segment, Times
  <2>4. /\ seg.last_alert_time = stop(segment[c].last_alert_time)
        /\ seg.last_detection_time = stop(segment[c].last_detection_time)
    BY <2>1 DEF Segment
  <2>5. EndTime(seg) # Forever
    BY <2>1, <2>2, <2>4 DEF SoundSegment, EndTime
  <2>6. PublishEnd(c, seg)
    BY <1>3 DEF EndPending
  <2>7. Finish(c, seg)
    BY <1>3, <2>3, <2>5, <2>6 DEF Finish
  <2> QED
    BY <1>1, <2>3, <2>7 DEF Effect
<1> QED
  BY <1>2, <1>3

(* The same when the camera's events are forgotten with the segment.       *)
LEMMA ForciblyEndEffect ==
  ASSUME TypeOK, PendingInv, NEW c \in Cameras, ForciblyEndSegment(c)
  PROVE  Effect(c)
<1>1. EndPending(c) /\ UNCHANGED created
  BY DEF ForciblyEndSegment
<1>2. CASE segment[c] = NoSegment
  <2>1. UNCHANGED indefinite
    BY <1>2 DEF ForciblyEndSegment, TypeOK
  <2> QED
    BY <1>1, <1>2, <2>1, EndPendingEffect
<1>3. CASE segment[c] # NoSegment
  <2>1. indefinite' = [indefinite EXCEPT ![c] = {}]
    BY <1>3 DEF ForciblyEndSegment
  <2>2. indefinite'[c] = {}
    BY <2>1 DEF TypeOK
  <2> QED
    BY <1>1, <2>1, <2>2, EndPendingEffect
<1> QED
  BY <1>2, <1>3

(* A step that leaves the segments and the events alone.                   *)
LEMMA SameEffect ==
  ASSUME TypeOK, NEW c \in Cameras, UNCHANGED reviewVars
  PROVE  Effect(c)
  BY DEF TypeOK, reviewVars, Effect, Same

(* A step that revises, begins or finishes a segment with the events of no *)
(* other camera changed.                                                   *)
LEMMA SegmentEffect ==
  ASSUME TypeOK, NEW c \in Cameras, NEW seg \in Segment,
         Revise(c, seg) \/ Begin(c, seg) \/ Finish(c, seg),
         \/ UNCHANGED indefinite
         \/ \E e \in Events : \/ indefinite' = [indefinite EXCEPT ![c] = @ \cup {e}]
                             \/ indefinite' = [indefinite EXCEPT ![c] = @ \ {e}]
  PROVE  Effect(c)
<1>1. /\ indefinite' \in [Cameras -> SUBSET Events]
      /\ \A b \in Cameras : b # c => indefinite'[b] = indefinite[b]
  BY DEF TypeOK
<1> QED
  BY <1>1 DEF Effect

(* The objects of a frame that count are finitely many.                    *)
LEMMA ActivityCount ==
  ASSUME NEW c \in Cameras, NEW objs \in Scenes
  PROVE  Cardinality(Activity(c, objs)) \in Nat
<1>1. Activity(c, objs) \subseteq objs
  BY DEF Activity, AlertObjects, DetectionObjects
<1>2. IsFiniteSet(objs)
  BY LabelAssumption DEF LabelAssumption
<1> QED
  BY <1>1, <1>2, FS_Subset, FS_CardinalityType

(* A new segment is sound; with the place holders it needs an event.       *)
LEMMA NewSegmentSound ==
  ASSUME NEW c \in Cameras, NEW t \in Nat, t # Forever,
         NEW severity \in Severities,
         created[c] \in 0..MaxSegments, created[c] < MaxSegments,
         NEW events
  PROVE  /\ NewSegment(c, t, severity) \in Segment
         /\ NewSegment(c, t, severity).id = created[c] + 1
         /\ SoundSegment(NewSegment(c, t, severity), events)
<1> USE TimeAssumption DEF NewSegment, Segment, SegmentIds, Times, NoTime
<1>1. NewSegment(c, t, severity) \in Segment
  BY DEF Severities
<1> QED
  BY <1>1 DEF SoundSegment

(* update_existing_segment with activity.                                  *)
LEMMA ExtendEffect ==
  ASSUME TypeOK, PendingInv, NEW c \in Cameras, NEW t \in 0..MaxTime,
         segment[c] # NoSegment,
         NEW objs \in Scenes, NEW image \in Images, NEW recognised \in BOOLEAN,
         ExtendSegment(c, t, objs, image, recognised),
         UNCHANGED <<indefinite, created>>
  PROVE  Effect(c)
<1> DEFINE old == segment[c]
           count == Cardinality(Activity(c, objs))
           alert == AlertObjects(c, objs) # {}
           upgraded == alert /\ old.severity # "alert"
           reframe == upgraded \/ count > old.frame_active_count
           publish == (reframe \/ recognised) /\ (reframe => image # "missing")
           framed == reframe /\ image = "stored"
           seg == [old EXCEPT
             !.severity = IF alert THEN "alert" ELSE @,
             !.last_alert_time = IF alert /\ (@ = NoTime \/ t > @) THEN t ELSE @,
             !.last_detection_time =
                IF DetectionObjects(c, objs) # {} /\ t > @ THEN t ELSE @,
             !.has_frame = @ \/ framed,
             !.frame_active_count = IF framed THEN count ELSE @]
<1>1. /\ Keep(c, seg)
      /\ Publish(c, seg, "update") \/ UNCHANGED <<rows, status>>
  BY DEF ExtendSegment
<1>2. old \in Segment /\ SoundSegment(old, indefinite[c])
  BY DEF TypeOK, PendingInv
<1>3. count \in Nat
  BY ActivityCount
<1>4. framed \in BOOLEAN /\ t \in Nat /\ t # Forever
  BY TimeAssumption
<1> HIDE DEF count, alert, framed
<1>5. seg \in Segment /\ seg.id = old.id
  BY <1>2, <1>3, <1>4 DEF Segment, Times, Severities
<1>6. /\ seg.last_alert_time \in {t, old.last_alert_time}
      /\ seg.last_detection_time \in {t, old.last_detection_time}
      /\ seg.last_alert_time = NoTime =>
           seg.severity = old.severity /\ old.last_alert_time = NoTime
  BY <1>2, <1>4 DEF Segment, NoTime
<1> HIDE DEF seg
<1>7. SoundSegment(seg, indefinite[c])
  BY <1>2, <1>4, <1>5, <1>6 DEF SoundSegment
<1>8. Revise(c, seg)
  BY <1>1, <1>5, <1>7 DEF Revise
<1> QED
  BY <1>5, <1>8, SegmentEffect

(* update_existing_segment without activity.                               *)
LEMMA SettleEffect ==
  ASSUME TypeOK, PendingInv, NEW c \in Cameras, NEW t \in 0..MaxTime,
         segment[c] # NoSegment, NEW objs, NEW image,
         SettleSegment(c, t, objs, image),
         UNCHANGED <<indefinite, created>>
  PROVE  Effect(c)
<1> DEFINE old == segment[c]
           seg == [old EXCEPT !.has_frame = TRUE]
<1>1. old \in Segment /\ SoundSegment(old, indefinite[c])
  BY DEF TypeOK, PendingInv
<1>2. /\ seg \in Segment /\ seg.id = old.id /\ seg.severity = old.severity
      /\ seg.last_alert_time = old.last_alert_time
      /\ seg.last_detection_time = old.last_detection_time
  BY <1>1 DEF Segment
<1>3. SoundSegment(seg, indefinite[c])
  BY <1>1, <1>2 DEF SoundSegment
<1>4. \A s \in Segment : CutoffPassed(s, t) => EndTime(s) # Forever
  BY TimeAssumption DEF CutoffPassed, EndTime, Segment, Times, NoTime
<1>5. \/ UNCHANGED <<segment, rows, status>>
      \/ \E s \in {old, seg} : CutoffPassed(s, t) /\ PublishEnd(c, s)
      \/ \E s \in {old, seg} : Keep(c, s) /\ Publish(c, s, "update")
  BY DEF SettleSegment
<1>6. CASE UNCHANGED <<segment, rows, status>>
  BY <1>6, SameEffect DEF reviewVars
<1>7. CASE \E s \in {old, seg} : CutoffPassed(s, t) /\ PublishEnd(c, s)
  <2>1. PICK s \in {old, seg} : CutoffPassed(s, t) /\ PublishEnd(c, s)
    BY <1>7
  <2>2. s \in Segment /\ Finish(c, s)
    BY <1>1, <1>2, <1>4, <2>1 DEF Finish
  <2> QED
    BY <2>2, SegmentEffect
<1>8. CASE \E s \in {old, seg} : Keep(c, s) /\ Publish(c, s, "update")
  <2>1. PICK s \in {old, seg} : Keep(c, s) /\ Publish(c, s, "update")
    BY <1>8
  <2>2. s \in Segment /\ Revise(c, s)
    BY <1>1, <1>2, <1>3, <2>1 DEF Revise
  <2> QED
    BY <2>2, SegmentEffect
<1> QED
  BY <1>5, <1>6, <1>7, <1>8

(* check_if_new_segment.                                                   *)
LEMMA CheckIfNewEffect ==
  ASSUME TypeOK, NEW c \in Cameras, NEW t \in 0..MaxTime,
         segment[c] = NoSegment, NEW objs \in Scenes, NEW image,
         CheckIfNewSegment(c, t, objs, image),
         UNCHANGED indefinite
  PROVE  Effect(c)
<1> DEFINE severity == IF AlertObjects(c, objs) # {} THEN "alert" ELSE "detection"
           framed == image = "stored"
           new == NewSegment(c, t, severity)
           seg == [new EXCEPT
                     !.has_frame = framed,
                     !.frame_active_count =
                        IF framed THEN Cardinality(Activity(c, objs)) ELSE 0]
<1>1. CASE UNCHANGED <<segment, created, rows, status>>
  BY <1>1, SameEffect DEF reviewVars
<1>2. CASE /\ Pend(c, seg)
           /\ Publish(c, seg, "new") \/ UNCHANGED <<rows, status>>
  <2>1. created[c] \in 0..MaxSegments /\ created[c] < MaxSegments
    BY <1>2 DEF Pend, TypeOK
  <2>2. /\ new \in Segment /\ new.id = created[c] + 1
        /\ SoundSegment(new, indefinite[c])
    <3>1. severity \in Severities /\ t \in Nat /\ t # Forever
      BY TimeAssumption DEF Severities
    <3> QED
      BY <2>1, <3>1, NewSegmentSound
  <2>3. Cardinality(Activity(c, objs)) \in Nat
    BY ActivityCount
  <2> HIDE DEF new
  <2>4. /\ seg \in Segment /\ seg.id = new.id /\ seg.severity = new.severity
        /\ seg.last_alert_time = new.last_alert_time
        /\ seg.last_detection_time = new.last_detection_time
    BY <2>2, <2>3 DEF Segment
  <2> HIDE DEF seg
  <2>5. Begin(c, seg)
    BY <1>2, <2>2, <2>4 DEF Begin, SoundSegment
  <2> QED
    BY <2>4, <2>5, SegmentEffect
<1> QED
  BY <1>1, <1>2 DEF CheckIfNewSegment

(* An audio message, with and without a pending segment.                   *)
LEMMA AudioEffect ==
  ASSUME TypeOK, PendingInv, NEW c \in Cameras, NEW sounds,
         UNCHANGED <<indefinite, rows, status>>,
         \/ segment[c] # NoSegment /\ AudioExtends(c, sounds)
         \/ segment[c] = NoSegment /\ AudioStarts(c, sounds)
  PROVE  Effect(c)
<1>1. now \in Nat /\ now # Forever
  BY TimeAssumption DEF TypeOK
<1>2. CASE segment[c] # NoSegment /\ AudioExtends(c, sounds)
  <2> DEFINE old == segment[c]
             loud == AlertSounds(c, sounds) # {}
             heard == DetectionSounds(c, sounds) # {}
             seg == [old EXCEPT
               !.severity = IF loud THEN "alert" ELSE @,
               !.last_alert_time = IF loud THEN now ELSE @,
               !.last_detection_time = IF heard THEN now ELSE @]
  <2>1. old \in Segment /\ SoundSegment(old, indefinite[c])
    BY <1>2 DEF TypeOK, PendingInv
  <2>2. Keep(c, seg) /\ UNCHANGED created
    BY <1>2 DEF AudioExtends
  <2> HIDE DEF loud, heard
  <2>3. seg \in Segment /\ seg.id = old.id
    BY <1>1, <2>1 DEF Segment, Times, Severities
  <2>4. /\ seg.severity = IF loud THEN "alert" ELSE old.severity
        /\ seg.last_alert_time = IF loud THEN now ELSE old.last_alert_time
        /\ seg.last_detection_time = IF heard THEN now ELSE old.last_detection_time
    BY <2>1 DEF Segment
  <2> HIDE DEF seg
  <2>5. SoundSegment(seg, indefinite[c])
    BY <1>1, <2>1, <2>3, <2>4 DEF SoundSegment, NoTime
  <2>6. Revise(c, seg)
    BY <1>2, <2>2, <2>3, <2>5 DEF Revise
  <2> QED
    BY <2>3, <2>6, SegmentEffect
<1>3. CASE segment[c] = NoSegment /\ AudioStarts(c, sounds)
  <2> DEFINE severity == IF AlertSounds(c, sounds) # {} THEN "alert" ELSE "detection"
             seg == NewSegment(c, now, severity)
  <2>1. CASE UNCHANGED <<segment, created>>
    <3>1. UNCHANGED reviewVars
      BY <2>1 DEF reviewVars
    <3> QED
      BY <3>1, SameEffect
  <2>2. CASE Pend(c, seg)
    <3>1. /\ created[c] \in 0..MaxSegments /\ created[c] < MaxSegments
          /\ severity \in Severities
      BY <2>2 DEF Pend, TypeOK, Severities
    <3>2. /\ seg \in Segment /\ seg.id = created[c] + 1
          /\ SoundSegment(seg, indefinite[c])
      BY <1>1, <3>1, NewSegmentSound
    <3> HIDE DEF seg
    <3>3. Begin(c, seg)
      BY <1>3, <2>2, <3>2 DEF Begin
    <3> QED
      BY <3>2, <3>3, SegmentEffect
  <2> QED
    BY <1>3, <2>1, <2>2 DEF AudioStarts
<1> QED
  BY <1>2, <1>3

(* The severity of a manual event is a severity or none.                   *)
LEMMA ManualSeverityType ==
  ASSUME NEW c \in Cameras, NEW l
  PROVE  ManualSeverity(c, l) \in Severities \cup {"none"}
  BY DEF ManualSeverity, Severities

(* An event that holds the pending segment, or a new one that it holds:    *)
(* the place holders come with the event that will replace them.           *)
LEMMA HoldEffect ==
  ASSUME TypeOK, PendingInv, NEW c \in Cameras, NEW e \in Events,
         NEW seg \in Segment,
         indefinite' = [indefinite EXCEPT ![c] = @ \cup {e}],
         UNCHANGED <<rows, status>>,
         \/ segment[c] # NoSegment /\ seg.id = segment[c].id
            /\ Keep(c, Hold(seg)) /\ UNCHANGED created
         \/ segment[c] = NoSegment /\ seg.id = created[c] + 1
            /\ Pend(c, Hold(seg))
  PROVE  Effect(c)
<1>1. e \in indefinite'[c]
  BY DEF TypeOK
<1>2. /\ Hold(seg) \in Segment /\ Hold(seg).id = seg.id
      /\ Hold(seg).last_alert_time = Forever
  BY TimeAssumption DEF Hold, Segment, Times
<1>3. SoundSegment(Hold(seg), indefinite'[c])
  BY <1>1, <1>2, TimeAssumption DEF SoundSegment, NoTime
<1>4. Revise(c, Hold(seg)) \/ Begin(c, Hold(seg))
  BY <1>2, <1>3 DEF Revise, Begin
<1> QED
  BY <1>2, <1>4, SegmentEffect

(* The start of an event with no set duration.                             *)
LEMMA StartEffect ==
  ASSUME TypeOK, PendingInv, NEW c \in Cameras, NEW e \in Events,
         UNCHANGED <<rows, status>>,
         (\E l \in Labels : ApiStart(e, c, l)) \/ PlateStart(e, c)
  PROVE  Effect(c)
<1>1. now \in Nat /\ now # Forever
  BY TimeAssumption DEF TypeOK
<1>2. ASSUME NEW severity \in Severities, segment[c] # NoSegment,
             EventStartsIn(e, c, [segment[c] EXCEPT !.severity = severity]),
             UNCHANGED created
      PROVE  Effect(c)
  <2> DEFINE seg == [segment[c] EXCEPT !.severity = severity]
  <2>1. segment[c] \in Segment
    BY <1>2 DEF TypeOK
  <2>2. seg \in Segment /\ seg.id = segment[c].id
    BY <2>1 DEF Segment
  <2>3. /\ Keep(c, Hold(seg))
        /\ indefinite' = [indefinite EXCEPT ![c] = @ \cup {e}]
    BY <1>2 DEF EventStartsIn, Holds
  <2> HIDE DEF seg
  <2> QED
    BY <1>2, <2>2, <2>3, HoldEffect
<1>3. ASSUME NEW severity \in Severities, segment[c] = NoSegment,
             Pend(c, Hold(NewSegment(c, now, severity))),
             indefinite' = [indefinite EXCEPT ![c] = @ \cup {e}]
      PROVE  Effect(c)
  <2> DEFINE seg == NewSegment(c, now, severity)
  <2>1. created[c] \in 0..MaxSegments /\ created[c] < MaxSegments
    BY <1>3 DEF Pend, TypeOK
  <2>2. seg \in Segment /\ seg.id = created[c] + 1
    BY <1>1, <2>1, NewSegmentSound
  <2> HIDE DEF seg
  <2> QED
    BY <1>3, <2>2, HoldEffect DEF seg
<1>4. ASSUME NEW l \in Labels, ApiStart(e, c, l)
      PROVE  Effect(c)
  <2> DEFINE severity == ManualSeverity(c, l)
  <2>1. severity \in Severities \cup {"none"}
    BY ManualSeverityType
  <2>2. CASE Pending(c)
    <3>1. segment[c] # NoSegment /\ ~Idle(c)
      BY <2>2 DEF Pending, Idle
    <3>2. PICK s \in Severities :
             EventStartsIn(e, c, [segment[c] EXCEPT !.severity = s]) /\ UNCHANGED created
      <4>1. segment[c].severity \in Severities
        BY <3>1 DEF TypeOK, Segment
      <4>2. EventStartsIn(e, c, [segment[c] EXCEPT
               !.severity = IF severity = "alert" THEN "alert" ELSE @]) /\ UNCHANGED created
        BY <1>4, <3>1 DEF ApiStart
      <4> QED
        BY <4>1, <4>2 DEF Severities
    <3> QED
      BY <1>2, <3>1, <3>2
  <2>3. CASE Idle(c)
    <3>1. segment[c] = NoSegment /\ ~Pending(c)
      BY <2>3 DEF Pending, Idle
    <3>2. CASE severity = "none"
      <4>1. UNCHANGED reviewVars
        BY <1>4, <3>1, <3>2 DEF ApiStart, reviewVars
      <4> QED
        BY <4>1, SameEffect
    <3>3. CASE severity # "none"
      <4>1. severity \in Severities
        BY <2>1, <3>3
      <4> QED
        BY <1>3, <1>4, <3>1, <3>3, <4>1 DEF ApiStart, Holds
    <3> QED
      BY <3>2, <3>3
  <2> QED
    BY <1>4, <2>2, <2>3 DEF ApiStart
<1>5. CASE PlateStart(e, c)
  <2>1. CASE Pending(c)
    <3>1. segment[c] # NoSegment /\ ~Idle(c)
      BY <2>1 DEF Pending, Idle
    <3>2. PICK s \in Severities :
             EventStartsIn(e, c, [segment[c] EXCEPT !.severity = s]) /\ UNCHANGED created
      <4>1. segment[c].severity \in Severities
        BY <3>1 DEF TypeOK, Segment
      <4>2. EventStartsIn(e, c, [segment[c] EXCEPT
               !.severity = IF "detections" \in config[c] THEN "detection" ELSE @])
            /\ UNCHANGED created
        BY <1>5, <3>1 DEF PlateStart
      <4> QED
        BY <4>1, <4>2 DEF Severities
    <3> QED
      BY <1>2, <3>1, <3>2
  <2>2. CASE Idle(c)
    <3>1. segment[c] = NoSegment /\ ~Pending(c)
      BY <2>2 DEF Pending, Idle
    <3>2. CASE "detections" \in config[c]
      <4>1. "detection" \in Severities
        BY DEF Severities
      <4> QED
        BY <1>3, <1>5, <3>1, <3>2, <4>1 DEF PlateStart, Holds
    <3>3. CASE "detections" \notin config[c]
      <4>1. UNCHANGED reviewVars
        BY <1>5, <3>1, <3>3 DEF PlateStart, reviewVars
      <4> QED
        BY <4>1, SameEffect
    <3> QED
      BY <3>2, <3>3
  <2> QED
    BY <1>5, <2>1, <2>2 DEF PlateStart
<1> QED
  BY <1>4, <1>5

(* An event created with a duration.                                       *)
LEMMA CompleteEffect ==
  ASSUME TypeOK, PendingInv, NEW c \in Cameras, NEW l \in Labels,
         NEW end \in Nat, end # Forever,
         ApiComplete(c, l, end), UNCHANGED <<rows, status>>
  PROVE  Effect(c)
<1> DEFINE severity == ManualSeverity(c, l)
<1>1. severity \in Severities \cup {"none"} /\ UNCHANGED indefinite
  BY ManualSeverityType DEF ApiComplete
<1>2. now \in Nat /\ now # Forever
  BY TimeAssumption DEF TypeOK
<1> HIDE DEF severity
<1>3. CASE Pending(c)
  <2> DEFINE old == segment[c]
             seg == [old EXCEPT
               !.severity = IF severity = "alert" THEN "alert" ELSE @,
               !.last_alert_time = IF severity = "alert" THEN end ELSE @,
               !.last_detection_time = IF severity = "detection" THEN end ELSE @]
  <2>1. segment[c] # NoSegment /\ ~Idle(c)
    BY <1>3 DEF Pending, Idle
  <2>2. Keep(c, seg) /\ UNCHANGED created
    BY <2>1 DEF ApiComplete, severity
  <2>3. old \in Segment /\ SoundSegment(old, indefinite[c])
    BY <2>1 DEF TypeOK, PendingInv
  <2>4. seg \in Segment /\ seg.id = old.id
    BY <2>3 DEF Segment, Times, Severities
  <2>5. /\ seg.severity = IF severity = "alert" THEN "alert" ELSE old.severity
        /\ seg.last_alert_time = IF severity = "alert" THEN end ELSE old.last_alert_time
        /\ seg.last_detection_time =
             IF severity = "detection" THEN end ELSE old.last_detection_time
    BY <2>3 DEF Segment
  <2> HIDE DEF seg
  <2>6. SoundSegment(seg, indefinite[c])
    BY <2>3, <2>4, <2>5 DEF SoundSegment, NoTime
  <2>7. Revise(c, seg)
    BY <1>1, <2>1, <2>2, <2>4, <2>6 DEF Revise
  <2> QED
    BY <1>1, <2>4, <2>7, SegmentEffect
<1>4. CASE Idle(c) /\ severity # "none"
  <2> DEFINE new == NewSegment(c, now, severity)
             seg == [new EXCEPT !.last_alert_time = end, !.last_detection_time = end]
  <2>1. segment[c] = NoSegment /\ ~Pending(c)
    BY <1>4 DEF Pending, Idle
  <2>2. Pend(c, seg)
    BY <1>4, <2>1 DEF ApiComplete, severity
  <2>3. created[c] \in 0..MaxSegments /\ created[c] < MaxSegments
    BY <2>2 DEF Pend, TypeOK
  <2>4. new \in Segment /\ new.id = created[c] + 1
    BY <1>1, <1>2, <1>4, <2>3, NewSegmentSound
  <2> HIDE DEF new
  <2>5. /\ seg \in Segment /\ seg.id = new.id
        /\ seg.last_alert_time = end /\ seg.last_detection_time = end
    BY <2>4 DEF Segment, Times
  <2> HIDE DEF seg
  <2>6. SoundSegment(seg, indefinite[c])
    BY <2>5 DEF SoundSegment, NoTime
  <2>7. Begin(c, seg)
    BY <1>1, <2>1, <2>2, <2>4, <2>5, <2>6 DEF Begin
  <2> QED
    BY <1>1, <2>5, <2>7, SegmentEffect
<1>5. CASE Idle(c) /\ severity = "none"
  <2>1. segment[c] = NoSegment /\ ~Pending(c)
    BY <1>5 DEF Pending, Idle
  <2>2. UNCHANGED reviewVars
    BY <1>1, <1>5, <2>1 DEF ApiComplete, reviewVars, severity
  <2> QED
    BY <2>2, SameEffect
<1> QED
  BY <1>3, <1>4, <1>5 DEF ApiComplete

(* The end of an event: the last one to hold the segment takes the place   *)
(* holders with it.                                                        *)
LEMMA ReleaseEffect ==
  ASSUME TypeOK, PendingInv, NEW c \in Cameras, NEW e \in indefinite[c],
         segment[c] # NoSegment,
         indefinite' = [indefinite EXCEPT ![c] = @ \ {e}],
         UNCHANGED <<created, rows, status>>,
         \/ indefinite[c] = {e}
            /\ Keep(c, [segment[c] EXCEPT !.last_alert_time = now,
                                          !.last_detection_time = now])
         \/ indefinite[c] # {e} /\ UNCHANGED segment
  PROVE  Effect(c)
<1>1. e \in Events /\ segment[c] \in Segment
  BY DEF TypeOK
<1>2. now \in Nat /\ now # Forever
  BY TimeAssumption DEF TypeOK
<1>3. CASE indefinite[c] = {e}
  <2> DEFINE seg == [segment[c] EXCEPT !.last_alert_time = now,
                                       !.last_detection_time = now]
  <2>1. Keep(c, seg)
    BY <1>3
  <2>2. /\ seg \in Segment /\ seg.id = segment[c].id
        /\ seg.last_alert_time = now /\ seg.last_detection_time = now
    BY <1>1, <1>2 DEF Segment, Times
  <2> HIDE DEF seg
  <2>3. SoundSegment(seg, indefinite'[c])
    BY <1>2, <2>2 DEF SoundSegment, NoTime
  <2>4. Revise(c, seg)
    BY <2>1, <2>2, <2>3 DEF Revise
  <2> QED
    BY <1>1, <2>2, <2>4, SegmentEffect
<1>4. CASE indefinite[c] # {e}
  <2>1. /\ indefinite' \in [Cameras -> SUBSET Events]
        /\ \A b \in Cameras : b # c => indefinite'[b] = indefinite[b]
        /\ indefinite'[c] # {}
    BY <1>1, <1>4 DEF TypeOK
  <2> QED
    BY <1>4, <2>1 DEF Effect, Same
<1> QED
  BY <1>3, <1>4

ReviewStep ==
  \/ UNCHANGED reviewVars
  \/ \E c \in Cameras : Effect(c)
  \/ StartMaintainer

(* The end of a severity that has been switched off is a forced end.       *)
LEMMA EndDisabledEffect ==
  ASSUME TypeOK, PendingInv, NEW c \in Cameras, EndDisabled(c)
  PROVE  Effect(c)
  BY ForciblyEndEffect DEF EndDisabled

(* Each message has one of the effects: a frame,                           *)
LEMMA VideoStep ==
  ASSUME TypeOK, PendingInv, NEW c \in Cameras, NEW t \in FrameTimes(c),
         NEW objs \in Scenes, NEW image \in Images,
         VideoFrame(c, t, objs, image)
  PROVE  ReviewStep
<1>1. t \in 0..MaxTime
  BY TimeAssumption DEF FrameTimes, TypeOK
<1>2. CASE Drop(c)
  BY <1>2 DEF Drop, ReviewStep
<1>3. CASE EndDisabled(c)
  BY <1>3, EndDisabledEffect DEF ReviewStep
<1>4. CASE /\ Pending(c)
           /\ \/ \E recognised \in BOOLEAN :
                   ExtendSegment(c, t, objs, image, recognised)
              \/ SettleSegment(c, t, objs, image)
           /\ UNCHANGED <<indefinite, created, thread>>
  <2>1. segment[c] # NoSegment /\ UNCHANGED <<indefinite, created>>
    BY <1>4 DEF Pending
  <2>2. CASE \E recognised \in BOOLEAN : ExtendSegment(c, t, objs, image, recognised)
    BY <1>1, <2>1, <2>2, ExtendEffect DEF ReviewStep
  <2>3. CASE SettleSegment(c, t, objs, image)
    BY <1>1, <2>1, <2>3, SettleEffect DEF ReviewStep
  <2> QED
    BY <1>4, <2>2, <2>3
<1>5. CASE /\ Idle(c)
           /\ CheckIfNewSegment(c, t, objs, image)
           /\ UNCHANGED <<indefinite, thread>>
  <2>1. segment[c] = NoSegment /\ UNCHANGED indefinite
    BY <1>5 DEF Idle
  <2> QED
    BY <1>1, <1>5, <2>1, CheckIfNewEffect DEF ReviewStep
<1> QED
  BY <1>2, <1>3, <1>4, <1>5 DEF VideoFrame

(* an audio message,                                                       *)
LEMMA AudioStep ==
  ASSUME TypeOK, PendingInv, NEW c \in Cameras, NEW sounds \in Sounds,
         Audio(c, sounds)
  PROVE  ReviewStep
<1>1. CASE Drop(c)
  BY <1>1 DEF Drop, ReviewStep
<1>2. CASE EndDisabled(c)
  BY <1>2, EndDisabledEffect DEF ReviewStep
<1>3. CASE /\ \/ Pending(c) /\ AudioExtends(c, sounds)
              \/ Idle(c) /\ AudioStarts(c, sounds)
           /\ UNCHANGED <<indefinite, rows, status, thread>>
  <2>1. /\ \/ segment[c] # NoSegment /\ AudioExtends(c, sounds)
           \/ segment[c] = NoSegment /\ AudioStarts(c, sounds)
        /\ UNCHANGED <<indefinite, rows, status>>
    BY <1>3 DEF Pending, Idle
  <2> QED
    BY <2>1, AudioEffect DEF ReviewStep
<1> QED
  BY <1>1, <1>2, <1>3 DEF Audio

(* the start of a manual or a plate event,                                 *)
LEMMA CreateStep ==
  ASSUME TypeOK, PendingInv, NEW c \in Cameras, NEW e \in Events,
         CreateManualEvent(e, c)
  PROVE  ReviewStep
<1>1. CASE Drop(c)
  BY <1>1 DEF Drop, ReviewStep
<1>2. CASE EndDisabled(c)
  BY <1>2, EndDisabledEffect DEF ReviewStep
<1>3. CASE /\ (\E l \in Labels : ApiStart(e, c, l)) \/ PlateStart(e, c)
           /\ UNCHANGED <<rows, status>>
  BY <1>3, StartEffect DEF ReviewStep
<1>4. CASE /\ \E l \in Labels, d \in Durations : ApiComplete(c, l, now + d)
           /\ UNCHANGED <<rows, status>>
  <2>1. PICK l \in Labels, d \in Durations : ApiComplete(c, l, now + d)
    BY <1>4
  <2>2. now + d \in Nat /\ now + d # Forever
    BY TimeAssumption DEF TypeOK
  <2> QED
    BY <1>4, <2>1, <2>2, CompleteEffect DEF ReviewStep
<1> QED
  BY <1>1, <1>2, <1>3, <1>4 DEF CreateManualEvent

(* its end,                                                                *)
LEMMA EndStep ==
  ASSUME TypeOK, PendingInv, NEW c \in Cameras, NEW e \in Events,
         EndManualEvent(e, c)
  PROVE  ReviewStep
<1>1. CASE Drop(c)
  BY <1>1 DEF Drop, ReviewStep
<1>2. CASE EndDisabled(c)
  BY <1>2, EndDisabledEffect DEF ReviewStep
<1>3. CASE /\ Pending(c) /\ e \in indefinite[c]
           /\ indefinite' = [indefinite EXCEPT ![c] = @ \ {e}]
           /\ \/ /\ indefinite[c] = {e}
                 /\ Keep(c, [segment[c] EXCEPT !.last_alert_time = now,
                                               !.last_detection_time = now])
              \/ indefinite[c] # {e} /\ UNCHANGED segment
           /\ UNCHANGED <<created, rows, status, thread>>
  <2>1. segment[c] # NoSegment
    BY <1>3 DEF Pending
  <2> QED
    BY <1>3, <2>1, ReleaseEffect DEF ReviewStep
<1>4. CASE UNCHANGED reviewVars
  BY <1>4 DEF ReviewStep
<1> QED
  BY <1>1, <1>2, <1>3, <1>4 DEF EndManualEvent

(* and an update of the configuration.                                     *)
LEMMA ToggleStep ==
  ASSUME TypeOK, PendingInv, NEW c \in Cameras,
         ToggleCamera(c) \/ ToggleSeverity(c) \/ RemoveCamera(c) \/ AddCamera(c)
  PROVE  ReviewStep
<1>1. CASE ToggleCamera(c)
  BY <1>1, ForciblyEndEffect DEF ToggleCamera, ReviewStep
<1>2. CASE ToggleSeverity(c)
  BY <1>2 DEF ToggleSeverity, ReviewStep
<1>3. CASE RemoveCamera(c)
  <2>1. /\ EndPending(c) /\ UNCHANGED created
        /\ indefinite' = [indefinite EXCEPT ![c] = {}]
    BY <1>3 DEF RemoveCamera
  <2>2. indefinite'[c] = {}
    BY <2>1 DEF TypeOK
  <2> QED
    BY <2>1, <2>2, EndPendingEffect DEF ReviewStep
<1>4. CASE AddCamera(c)
  BY <1>4 DEF AddCamera, ReviewStep
<1> QED
  BY <1>1, <1>2, <1>3, <1>4

(* So has each step.                                                       *)
LEMMA NextIsReviewStep ==
  ASSUME TypeOK, PendingInv, [Next]_vars
  PROVE  ReviewStep
<1>1. CASE Tick \/ Kill \/ UNCHANGED vars
  BY <1>1 DEF Tick, Kill, vars, reviewVars, ReviewStep
<1>2. CASE WatchdogRestart \/ FrigateRestart
  BY <1>2 DEF WatchdogRestart, FrigateRestart, ReviewStep
<1>3. CASE \E c \in Cameras :
             \/ \E t \in FrameTimes(c) : Video(c, t)
             \/ \E sounds \in Sounds : Audio(c, sounds)
             \/ \E e \in Events : CreateManualEvent(e, c) \/ EndManualEvent(e, c)
             \/ ToggleCamera(c) \/ ToggleSeverity(c)
             \/ RemoveCamera(c) \/ AddCamera(c)
  BY <1>3, VideoStep, AudioStep, CreateStep, EndStep, ToggleStep DEF Video
<1> QED
  BY <1>1, <1>2, <1>3 DEF Next, Elsewhere

-----------------------------------------------------------------------------
(* 2. What survives each effect *)

(* The part of the types the messages change.                              *)
ReviewTypeOK ==
  /\ segment \in [Cameras -> Segment \cup {NoSegment}]
  /\ indefinite \in [Cameras -> SUBSET Events]
  /\ created \in [Cameras -> 0..MaxSegments]
  /\ rows \in [Cameras -> [SegmentIds -> Row]]
  /\ status \in [Cameras -> {"NONE", "ALERT", "DETECTION"}]

(* The rest.                                                               *)
OtherTypeOK ==
  /\ now \in 0..MaxTime
  /\ lastVideo \in [Cameras -> 0..MaxTime]
  /\ config \in [Cameras -> SUBSET Settings]
  /\ manual \in [Events -> Cameras \cup {"unused", "closed"}]
  /\ overwritten \in [Cameras -> BOOLEAN]
  /\ thread \in {"running", "dead", "killed"}

(* What is published of a segment is a row.                                *)
LEMMA PublishType ==
  ASSUME TypeOK, NEW c \in Cameras, NEW seg \in Segment,
         NEW type \in {"new", "update", "end"}, Publish(c, seg, type)
  PROVE  /\ rows' \in [Cameras -> [SegmentIds -> Row]]
         /\ status' \in [Cameras -> {"NONE", "ALERT", "DETECTION"}]
<1> DEFINE row == [last |-> type, start_time |-> seg.start_time,
                   severity |-> seg.severity,
                   end_time |-> IF type = "end" THEN EndTime(seg) ELSE NoTime]
<1>1. EndTime(seg) \in Times
  BY EndTimeType
<1>2. row \in Row
  BY <1>1 DEF Row, Segment, Times
<1>3. rows' = [rows EXCEPT ![c][seg.id] = row]
  BY DEF Publish
<1> HIDE DEF row
<1>4. rows' \in [Cameras -> [SegmentIds -> Row]]
  BY <1>2, <1>3 DEF TypeOK
<1>5. status' \in [Cameras -> {"NONE", "ALERT", "DETECTION"}]
  BY DEF Publish, TypeOK
<1> QED
  BY <1>4, <1>5

(* An effect keeps the types and the pending segments sound.               *)
LEMMA EffectTypes ==
  ASSUME TypeOK, PendingInv, NEW c \in Cameras, Effect(c)
  PROVE  ReviewTypeOK' /\ PendingInv'
<1>1. /\ indefinite' \in [Cameras -> SUBSET Events]
      /\ \A b \in Cameras : b # c => indefinite'[b] = indefinite[b]
  BY DEF Effect
<1>2. CASE Same /\ (segment[c] # NoSegment /\ indefinite[c] # {} => indefinite'[c] # {})
  <2>1. ReviewTypeOK'
    BY <1>1, <1>2 DEF Same, TypeOK, ReviewTypeOK
  <2>2. PendingInv'
    BY <1>1, <1>2 DEF Same, PendingInv, SoundSegment
  <2> QED
    BY <2>1, <2>2
<1>3. ASSUME NEW seg \in Segment, Keep(c, seg), SoundSegment(seg, indefinite'[c])
      PROVE  segment' \in [Cameras -> Segment \cup {NoSegment}] /\ PendingInv'
  <2>1. segment' = [segment EXCEPT ![c] = seg]
    BY <1>3 DEF Keep
  <2>2. segment' \in [Cameras -> Segment \cup {NoSegment}]
    BY <2>1 DEF TypeOK
  <2>3. segment'[c] = seg /\ \A b \in Cameras : b # c => segment'[b] = segment[b]
    BY <2>1 DEF TypeOK
  <2>4. PendingInv'
    BY <1>1, <1>3, <2>3 DEF PendingInv
  <2> QED
    BY <2>2, <2>4
<1>4. ASSUME NEW seg \in Segment, Revise(c, seg)
      PROVE  ReviewTypeOK' /\ PendingInv'
  <2>1. segment' \in [Cameras -> Segment \cup {NoSegment}] /\ PendingInv'
    BY <1>3, <1>4 DEF Revise
  <2>2. created' \in [Cameras -> 0..MaxSegments]
    BY <1>4 DEF Revise, TypeOK
  <2>3. /\ rows' \in [Cameras -> [SegmentIds -> Row]]
        /\ status' \in [Cameras -> {"NONE", "ALERT", "DETECTION"}]
    BY <1>4, PublishType DEF Revise, TypeOK
  <2> QED
    BY <1>1, <2>1, <2>2, <2>3 DEF ReviewTypeOK
<1>5. ASSUME NEW seg \in Segment, Begin(c, seg)
      PROVE  ReviewTypeOK' /\ PendingInv'
  <2>1. segment' \in [Cameras -> Segment \cup {NoSegment}] /\ PendingInv'
    BY <1>3, <1>5 DEF Begin, Pend
  <2>2. created' \in [Cameras -> 0..MaxSegments]
    BY <1>5, TimeAssumption DEF Begin, Pend, TypeOK
  <2>3. /\ rows' \in [Cameras -> [SegmentIds -> Row]]
        /\ status' \in [Cameras -> {"NONE", "ALERT", "DETECTION"}]
    BY <1>5, PublishType DEF Begin, TypeOK
  <2> QED
    BY <1>1, <2>1, <2>2, <2>3 DEF ReviewTypeOK
<1>6. ASSUME NEW seg \in Segment, Finish(c, seg)
      PROVE  ReviewTypeOK' /\ PendingInv'
  <2>1. segment' = [segment EXCEPT ![c] = NoSegment]
    BY <1>6 DEF Finish, PublishEnd, Keep
  <2>2. segment' \in [Cameras -> Segment \cup {NoSegment}] /\ PendingInv'
    BY <1>1, <2>1 DEF TypeOK, PendingInv
  <2>3. created' \in [Cameras -> 0..MaxSegments]
    BY <1>6 DEF Finish, TypeOK
  <2>4. /\ rows' \in [Cameras -> [SegmentIds -> Row]]
        /\ status' \in [Cameras -> {"NONE", "ALERT", "DETECTION"}]
    BY <1>6, PublishType DEF Finish, PublishEnd
  <2> QED
    BY <1>1, <2>2, <2>3, <2>4 DEF ReviewTypeOK
<1> QED
  BY <1>2, <1>4, <1>5, <1>6 DEF Effect

(* So does a new maintainer.                                               *)
LEMMA StartTypes ==
  ASSUME TypeOK, PendingInv, StartMaintainer
  PROVE  ReviewTypeOK' /\ PendingInv'
<1>1. \A c \in Cameras, i \in SegmentIds :
        [rows[c][i] EXCEPT !.last = "cleared", !.end_time = now] \in Row
  <2>1. now \in Times
    BY TimeAssumption DEF TypeOK, Times
  <2>2. ASSUME NEW row \in Row
        PROVE  [row EXCEPT !.last = "cleared", !.end_time = now] \in Row
    <3> DEFINE cleared == [row EXCEPT !.last = "cleared"]
    <3>1. cleared \in Row
      BY DEF Row
    <3>2. [cleared EXCEPT !.end_time = now] \in Row
      BY <2>1, <3>1 DEF Row
    <3> QED
      BY <3>2
  <2>3. \A c \in Cameras, i \in SegmentIds : rows[c][i] \in Row
    BY DEF TypeOK
  <2> QED
    BY <2>2, <2>3
<1>2. rows' \in [Cameras -> [SegmentIds -> Row]]
  BY <1>1 DEF StartMaintainer, TypeOK
<1>3. PendingInv'
  BY DEF StartMaintainer, PendingInv
<1> QED
  BY <1>2, <1>3 DEF StartMaintainer, TypeOK, ReviewTypeOK

(* The clock, the configuration, the sender's events and the process.      *)
LEMMA OtherTypes ==
  ASSUME TypeOK, [Next]_vars
  PROVE  OtherTypeOK'
<1> USE DEF TypeOK, OtherTypeOK
<1>1. CASE UNCHANGED vars
  BY <1>1 DEF vars
<1>2. CASE Tick
  BY <1>2, TimeAssumption DEF Tick
<1>3. CASE Kill
  BY <1>3 DEF Kill
<1>4. CASE WatchdogRestart
  BY <1>4 DEF WatchdogRestart, StartMaintainer
<1>5. CASE FrigateRestart
  BY <1>5 DEF FrigateRestart, StartMaintainer
<1>6. ASSUME NEW c \in Cameras, NEW t \in FrameTimes(c), Video(c, t)
      PROVE  OtherTypeOK'
  <2>1. t \in 0..MaxTime
    BY TimeAssumption DEF FrameTimes
  <2>2. /\ lastVideo' \in [Cameras -> 0..MaxTime]
        /\ UNCHANGED <<now, config, manual, overwritten>>
    BY <1>6, <2>1 DEF Video, VideoFrame
  <2>3. UNCHANGED thread
    BY <1>6 DEF Video, VideoFrame, Drop, EndDisabled
  <2> QED
    BY <2>2, <2>3
<1>7. ASSUME NEW c \in Cameras, NEW sounds \in Sounds, Audio(c, sounds)
      PROVE  OtherTypeOK'
  <2>1. overwritten' \in [Cameras -> BOOLEAN]
    BY <1>7 DEF Audio, Drop, EndDisabled, AudioExtends, AudioStarts, Overwrite
  <2>2. UNCHANGED <<now, lastVideo, config, manual, thread>>
    BY <1>7 DEF Audio, Drop, EndDisabled
  <2> QED
    BY <2>1, <2>2
<1>8. ASSUME NEW c \in Cameras, NEW e \in Events, CreateManualEvent(e, c)
      PROVE  OtherTypeOK'
  <2>1. overwritten' \in [Cameras -> BOOLEAN]
    BY <1>8 DEF CreateManualEvent, Drop, EndDisabled, ApiStart, ApiComplete,
                PlateStart, EventStartsIn, Holds, Overwrite
  <2>2. UNCHANGED <<now, lastVideo, config, thread>>
    BY <1>8 DEF CreateManualEvent, Drop, EndDisabled
  <2>3. manual' \in [Events -> Cameras \cup {"unused", "closed"}]
    BY <1>8 DEF CreateManualEvent
  <2> QED
    BY <2>1, <2>2, <2>3
<1>9. ASSUME NEW c \in Cameras, NEW e \in Events, EndManualEvent(e, c)
      PROVE  OtherTypeOK'
  <2>1. thread' \in {"running", "dead", "killed"}
    BY <1>9 DEF EndManualEvent, Drop, EndDisabled
  <2>2. manual' \in [Events -> Cameras \cup {"unused", "closed"}]
    BY <1>9 DEF EndManualEvent
  <2>3. UNCHANGED <<now, lastVideo, config, overwritten>>
    BY <1>9 DEF EndManualEvent
  <2> QED
    BY <2>1, <2>2, <2>3
<1>10. ASSUME NEW c \in Cameras,
              ToggleCamera(c) \/ ToggleSeverity(c) \/ RemoveCamera(c) \/ AddCamera(c)
       PROVE  OtherTypeOK'
  <2>1. PICK topic \in SUBSET Settings : Toggle(c, topic)
    BY <1>10 DEF ToggleCamera, ToggleSeverity, RemoveCamera, AddCamera, Settings
  <2>2. config' \in [Cameras -> SUBSET Settings]
    BY <2>1 DEF Toggle
  <2> QED
    BY <2>1, <2>2 DEF Toggle
<1> QED
  BY <1>1, <1>2, <1>3, <1>4, <1>5, <1>6, <1>7, <1>8, <1>9, <1>10 DEF Next, Elsewhere

TypeInv == TypeOK /\ PendingInv

(* The types and the soundness of pending segments carry each other.       *)
LEMMA InitTypeInv == Init => TypeInv
<1>1. NoRow \in Row
  BY DEF NoRow, Row, Times, Severities
<1> QED
  BY <1>1, TimeAssumption DEF Init, TypeInv, TypeOK, PendingInv

(* No step breaks them.                                                    *)
LEMMA NextTypeInv == TypeInv /\ [Next]_vars => TypeInv'
<1> SUFFICES ASSUME TypeOK, PendingInv, [Next]_vars PROVE TypeInv'
  BY DEF TypeInv
<1>1. OtherTypeOK'
  BY OtherTypes
<1>2. ReviewStep
  BY NextIsReviewStep
<1>3. ReviewTypeOK' /\ PendingInv'
  <2>1. CASE UNCHANGED reviewVars
    BY <2>1 DEF reviewVars, TypeOK, ReviewTypeOK, PendingInv
  <2> QED
    BY <1>2, <2>1, EffectTypes, StartTypes DEF ReviewStep
<1> QED
  BY <1>1, <1>3 DEF TypeInv, TypeOK, ReviewTypeOK, OtherTypeOK

(* Type correctness of the maintainer, whatever is sent to it.             *)
THEOREM Types == Spec => []TypeOK
<1>1. TypeInv => TypeOK
  BY DEF TypeInv
<1> QED
  BY InitTypeInv, NextTypeInv, <1>1, PTL DEF Spec

(* Every alert knows when it was last active, whichever message made it    *)
(* one: no alert is left without a cutoff.                                 *)
THEOREM AlertsEnd == Spec => []AlertsCanEnd
<1>1. TypeInv => AlertsCanEnd
  BY DEF TypeInv, PendingInv, SoundSegment, AlertsCanEnd
<1> QED
  BY InitTypeInv, NextTypeInv, <1>1, PTL DEF Spec

-----------------------------------------------------------------------------
(* 3. Review items *)

(* The pending segment is the last one created and its item has not ended; *)
(* items are stored only of segments that were created; an open item is    *)
(* that of the pending segment.                                            *)
ItemsOf(c) ==
  /\ segment[c] # NoSegment =>
       segment[c].id = created[c] /\ ~Ended(c, segment[c].id)
  /\ \A i \in SegmentIds : i > created[c] => ~Stored(c, i)
  /\ \A i \in SegmentIds :
       Open(c, i) => segment[c] # NoSegment /\ segment[c].id = i

ItemInv == \A c \in Cameras : ItemsOf(c)

(* A message is about one item of one camera.                              *)
LEMMA PublishRow ==
  ASSUME TypeOK, NEW c \in Cameras, NEW seg \in Segment,
         NEW type \in {"new", "update", "end"}, Publish(c, seg, type)
  PROVE  /\ rows'[c][seg.id].last = type
         /\ rows'[c][seg.id].end_time = IF type = "end" THEN EndTime(seg) ELSE NoTime
         /\ \A b \in Cameras, i \in SegmentIds :
              b # c \/ i # seg.id => rows'[b][i] = rows[b][i]
<1> DEFINE row == [last |-> type, start_time |-> seg.start_time,
                   severity |-> seg.severity,
                   end_time |-> IF type = "end" THEN EndTime(seg) ELSE NoTime]
<1>1. rows' = [rows EXCEPT ![c][seg.id] = row]
  BY DEF Publish
<1>2. row.last = type /\ row.end_time = IF type = "end" THEN EndTime(seg) ELSE NoTime
  OBVIOUS
<1>3. seg.id \in SegmentIds /\ rows \in [Cameras -> [SegmentIds -> Row]]
  BY DEF Segment, TypeOK
<1> HIDE DEF row
<1>4. rows'[c][seg.id] = row
  BY <1>1, <1>3
<1>5. \A b \in Cameras, i \in SegmentIds :
        b # c \/ i # seg.id => rows'[b][i] = rows[b][i]
  BY <1>1, <1>3
<1> QED
  BY <1>2, <1>4, <1>5

(* What a step does to the items of a camera: nothing; the pending         *)
(* segment's, not yet ended, or a new one is opened or stays open; it      *)
(* ends; a new maintainer clears those that are open.                      *)
ItemStep(c, i, type) ==
  /\ ~Ended(c, i)
  /\ rows'[c][i].last = type
  /\ type = "end" => rows'[c][i].end_time # Forever
  /\ type # "end" => rows'[c][i].end_time = NoTime
  /\ \A b \in Cameras, j \in SegmentIds : b # c \/ j # i => rows'[b][j] = rows[b][j]
  /\ \A j \in SegmentIds : Open(c, j) => j = i

RowsStep ==
  \/ UNCHANGED rows
  \/ \E c \in Cameras, i \in SegmentIds, type \in {"new", "update", "end"} :
       ItemStep(c, i, type)
  \/ StartMaintainer

(* Nothing changes for the other cameras.                                  *)
LEMMA OtherItems ==
  ASSUME TypeOK, ItemInv, NEW b \in Cameras,
         segment'[b] = segment[b], created'[b] = created[b],
         \A i \in SegmentIds : rows'[b][i] = rows[b][i]
  PROVE  ItemsOf(b)'
<1>1. segment[b] # NoSegment => segment[b].id \in SegmentIds
  BY DEF TypeOK, Segment
<1>2. ItemsOf(b)
  BY DEF ItemInv
<1> QED
  BY <1>1, <1>2 DEF ItemsOf, Stored, Open, Ended

(* The effect of a message on the items keeps the invariant.               *)
LEMMA EffectItems ==
  ASSUME TypeOK, ItemInv, NEW c \in Cameras, Effect(c)
  PROVE  ItemInv' /\ RowsStep
<1> USE DEF Stored, Open, Ended, ItemsOf
<1>1. CASE Same
  BY <1>1 DEF Same, ItemInv, RowsStep
<1>2. ASSUME NEW seg \in Segment, Keep(c, seg)
      PROVE  /\ segment'[c] = seg
             /\ seg # NoSegment
             /\ \A b \in Cameras : b # c => segment'[b] = segment[b]
  BY <1>2, NoSegmentAssumption DEF Keep, TypeOK
<1>3. ASSUME NEW seg \in Segment, Revise(c, seg)
      PROVE  ItemInv' /\ RowsStep
  <2>1. /\ segment'[c] = seg /\ seg # NoSegment /\ seg.id = segment[c].id
        /\ \A b \in Cameras : b # c => segment'[b] = segment[b]
        /\ segment[c] # NoSegment /\ UNCHANGED created
        /\ seg.id \in SegmentIds
    BY <1>2, <1>3 DEF Revise, Segment
  <2>2. seg.id = created[c] /\ ~Ended(c, seg.id)
    BY <2>1 DEF ItemInv
  <2>3. CASE UNCHANGED rows
    BY <2>1, <2>2, <2>3 DEF ItemInv, RowsStep
  <2>4. CASE Publish(c, seg, "update")
    <3>1. /\ rows'[c][seg.id].last = "update" /\ rows'[c][seg.id].end_time = NoTime
          /\ \A b \in Cameras, i \in SegmentIds :
               b # c \/ i # seg.id => rows'[b][i] = rows[b][i]
      BY <2>4, PublishRow
    <3>2. ItemsOf(c)'
      <4>1. created[c] \in Nat /\ ItemsOf(c)
        BY DEF TypeOK, ItemInv
      <4> QED
        BY <2>1, <2>2, <3>1, <4>1 DEF SegmentIds
    <3>3. \A b \in Cameras : b # c => ItemsOf(b)'
      BY <2>1, <3>1, OtherItems
    <3>4. ItemInv'
      BY <3>2, <3>3 DEF ItemInv
    <3>5. ItemStep(c, seg.id, "update")
      BY <2>1, <2>2, <3>1 DEF ItemInv, ItemStep
    <3> QED
      BY <2>1, <3>4, <3>5 DEF RowsStep
  <2> QED
    BY <1>3, <2>3, <2>4 DEF Revise
<1>4. ASSUME NEW seg \in Segment, Begin(c, seg)
      PROVE  ItemInv' /\ RowsStep
  <2>1. /\ segment'[c] = seg /\ seg # NoSegment /\ segment[c] = NoSegment
        /\ \A b \in Cameras : b # c => segment'[b] = segment[b]
        /\ seg.id \in SegmentIds /\ seg.id = created[c] + 1
    BY <1>2, <1>4 DEF Begin, Pend, Segment
  <2>2. /\ created[c] \in Nat /\ created'[c] = created[c] + 1
        /\ \A b \in Cameras : b # c => created'[b] = created[b]
    BY <1>4 DEF Begin, Pend, TypeOK
  <2>3. /\ ~Stored(c, seg.id)
        /\ \A i \in SegmentIds : ~Open(c, i)
    BY <2>1, <2>2 DEF ItemInv
  <2>4. CASE UNCHANGED rows
    BY <2>1, <2>2, <2>3, <2>4 DEF ItemInv, RowsStep, SegmentIds
  <2>5. CASE Publish(c, seg, "new")
    <3>1. /\ rows'[c][seg.id].last = "new" /\ rows'[c][seg.id].end_time = NoTime
          /\ \A b \in Cameras, i \in SegmentIds :
               b # c \/ i # seg.id => rows'[b][i] = rows[b][i]
      BY <2>5, PublishRow
    <3>2. ItemsOf(c)'
      <4>1. ItemsOf(c)
        BY DEF ItemInv
      <4> QED
        BY <2>1, <2>2, <2>3, <3>1, <4>1 DEF SegmentIds
    <3>3. \A b \in Cameras : b # c => ItemsOf(b)'
      BY <2>1, <2>2, <3>1, OtherItems
    <3>4. ItemInv'
      BY <3>2, <3>3 DEF ItemInv
    <3>5. ItemStep(c, seg.id, "new")
      BY <2>1, <2>3, <3>1 DEF ItemStep
    <3> QED
      BY <2>1, <3>4, <3>5 DEF RowsStep
  <2> QED
    BY <1>4, <2>4, <2>5 DEF Begin
<1>5. ASSUME NEW seg \in Segment, Finish(c, seg)
      PROVE  ItemInv' /\ RowsStep
  <2>1. /\ segment'[c] = NoSegment /\ segment[c] # NoSegment
        /\ \A b \in Cameras : b # c => segment'[b] = segment[b]
        /\ seg.id \in SegmentIds /\ seg.id = segment[c].id /\ UNCHANGED created
    BY <1>5 DEF Finish, PublishEnd, Keep, TypeOK, Segment
  <2>2. seg.id = created[c] /\ ~Ended(c, seg.id)
    BY <2>1 DEF ItemInv
  <2>3. /\ rows'[c][seg.id].last = "end" /\ rows'[c][seg.id].end_time # Forever
        /\ \A b \in Cameras, i \in SegmentIds :
             b # c \/ i # seg.id => rows'[b][i] = rows[b][i]
    BY <1>5, PublishRow DEF Finish, PublishEnd
  <2>4. ItemsOf(c)'
    <3>1. created[c] \in Nat /\ ItemsOf(c)
      BY DEF TypeOK, ItemInv
    <3> QED
      BY <2>1, <2>2, <2>3, <3>1 DEF SegmentIds
  <2>5. \A b \in Cameras : b # c => ItemsOf(b)'
    BY <2>1, <2>3, OtherItems
  <2>6. ItemInv'
    BY <2>4, <2>5 DEF ItemInv
  <2>7. ItemStep(c, seg.id, "end")
    BY <2>1, <2>2, <2>3 DEF ItemInv, ItemStep
  <2> QED
    BY <2>1, <2>6, <2>7 DEF RowsStep
<1> QED
  BY <1>1, <1>3, <1>4, <1>5 DEF Effect

(* A new maintainer: nothing pending, nothing open.                        *)
LEMMA StartItems ==
  ASSUME TypeOK, ItemInv, StartMaintainer
  PROVE  ItemInv'
<1> SUFFICES ASSUME NEW c \in Cameras PROVE ItemsOf(c)'
  BY DEF ItemInv
<1>1. segment'[c] = NoSegment /\ UNCHANGED created
  BY DEF StartMaintainer
<1>2. \A i \in SegmentIds :
        rows'[c][i] = IF Open(c, i)
                        THEN [rows[c][i] EXCEPT !.last = "cleared", !.end_time = now]
                        ELSE rows[c][i]
  BY DEF StartMaintainer
<1>3. \A i \in SegmentIds : rows[c][i] \in Row
  BY DEF TypeOK
<1>4. ASSUME NEW i \in SegmentIds
      PROVE  ~Open(c, i)' /\ (~Stored(c, i) => ~Stored(c, i)')
  <2>1. CASE Open(c, i)
    <3>1. rows'[c][i].last = "cleared"
      BY <1>2, <1>3, <2>1 DEF Row
    <3> QED
      BY <2>1, <3>1 DEF Open, Stored
  <2>2. CASE ~Open(c, i)
    BY <1>2, <2>2 DEF Open, Stored
  <2> QED
    BY <2>1, <2>2
<1>5. ItemsOf(c)
  BY DEF ItemInv
<1> QED
  BY <1>1, <1>4, <1>5 DEF ItemsOf

(* Nothing has been created.                                               *)
LEMMA InitItems == Init => ItemInv
<1> SUFFICES ASSUME Init, NEW c \in Cameras PROVE ItemsOf(c)
  BY DEF ItemInv
<1>1. segment[c] = NoSegment /\ \A i \in SegmentIds : rows[c][i].last = "none"
  BY DEF Init, NoRow
<1> QED
  BY <1>1 DEF ItemsOf, Stored, Open, Ended

(* Each step treats the items well.                                        *)
LEMMA NextItems ==
  TypeInv /\ ItemInv /\ [Next]_vars => ItemInv' /\ RowsStep
<1> SUFFICES ASSUME TypeOK, PendingInv, ItemInv, [Next]_vars
             PROVE  ItemInv' /\ RowsStep
  BY DEF TypeInv
<1>1. CASE UNCHANGED reviewVars
  BY <1>1 DEF reviewVars, RowsStep, ItemInv, ItemsOf, Stored, Open, Ended
<1>2. CASE \E c \in Cameras : Effect(c)
  BY <1>2, EffectItems
<1>3. CASE StartMaintainer
  BY <1>3, StartItems DEF RowsStep
<1> QED
  BY <1>1, <1>2, <1>3, NextIsReviewStep DEF ReviewStep

(* A running maintainer answers for every open item: whatever ends or      *)
(* replaces a segment, and whenever a maintainer dies, no item is left     *)
(* open that no pending segment will end.                                  *)
THEOREM OpenItems == Spec => []OpenItemIsPending
<1>1. ItemInv => OpenItemIsPending
  BY DEF ItemInv, ItemsOf, OpenItemIsPending
<1> QED
  BY InitTypeInv, NextTypeInv, InitItems, NextItems, <1>1, PTL DEF Spec

(* The rows a step leaves at Forever are those that were there.            *)
LEMMA StepNotForever ==
  ASSUME TypeOK, RowsStep, NoItemEndsAtForever
  PROVE  NoItemEndsAtForever'
<1>1. NoTime # Forever /\ now # Forever
  BY TimeAssumption DEF TypeOK, NoTime
<1>2. CASE UNCHANGED rows
  BY <1>2 DEF NoItemEndsAtForever
<1>3. ASSUME NEW c \in Cameras, NEW i \in SegmentIds,
             NEW type \in {"new", "update", "end"}, ItemStep(c, i, type)
      PROVE  NoItemEndsAtForever'
  BY <1>1, <1>3 DEF ItemStep, NoItemEndsAtForever
<1>4. CASE StartMaintainer
  <2> SUFFICES ASSUME NEW c \in Cameras, NEW i \in SegmentIds
               PROVE  rows'[c][i].end_time # Forever
    BY DEF NoItemEndsAtForever
  <2>1. rows[c][i] \in Row /\ rows[c][i].end_time # Forever
    BY DEF TypeOK, NoItemEndsAtForever
  <2>2. rows'[c][i] = IF Open(c, i)
                        THEN [rows[c][i] EXCEPT !.last = "cleared", !.end_time = now]
                        ELSE rows[c][i]
    BY <1>4 DEF StartMaintainer
  <2>3. [rows[c][i] EXCEPT !.last = "cleared", !.end_time = now].end_time = now
    BY <2>1 DEF Row
  <2> QED
    BY <1>1, <2>1, <2>2, <2>3
<1> QED
  BY <1>2, <1>3, <1>4 DEF RowsStep

(* No stored item ends at sys.maxsize: the cutoff is never past it, and    *)
(* each forced end replaces it while an event holds the segment.           *)
THEOREM NotForever == Spec => []NoItemEndsAtForever
<1>1. Init => NoItemEndsAtForever
  BY TimeAssumption DEF Init, NoRow, NoTime, NoItemEndsAtForever
<1>2. TypeInv /\ ItemInv /\ NoItemEndsAtForever /\ [Next]_vars
        => NoItemEndsAtForever'
  BY NextItems, StepNotForever DEF TypeInv
<1> QED
  BY InitTypeInv, NextTypeInv, InitItems, NextItems, <1>1, <1>2, PTL DEF Spec

(* An item that has ended is not touched again.                            *)
LEMMA StepFinal ==
  ASSUME RowsStep, NEW c \in Cameras, NEW i \in SegmentIds, Ended(c, i)
  PROVE  rows'[c][i] = rows[c][i]
<1>1. CASE UNCHANGED rows
  BY <1>1
<1>2. ASSUME NEW b \in Cameras, NEW j \in SegmentIds,
             NEW type \in {"new", "update", "end"}, ItemStep(b, j, type)
      PROVE  rows'[c][i] = rows[c][i]
  BY <1>2 DEF ItemStep
<1>3. CASE StartMaintainer
  <2>1. ~Open(c, i)
    BY DEF Open, Ended
  <2> QED
    BY <1>3, <2>1 DEF StartMaintainer
<1> QED
  BY <1>1, <1>2, <1>3 DEF RowsStep

(* Ended items stay as they are, whatever comes late, twice or after a     *)
(* restart.                                                                *)
THEOREM EndedFinal == Spec => EndedItemsAreFinal
<1>1. TypeInv /\ ItemInv /\ [Next]_vars =>
        [\A c \in Cameras, i \in SegmentIds :
           Ended(c, i) => rows'[c][i] = rows[c][i]]_vars
  BY NextItems, StepFinal
<1> QED
  BY InitTypeInv, NextTypeInv, InitItems, NextItems, <1>1, PTL
  DEF Spec, EndedItemsAreFinal

-----------------------------------------------------------------------------
(* 4. The maintainer implements ReviewTimeline *)

(* What readers see of one item.                                           *)
LEMMA ItemsValue ==
  ASSUME NEW c \in Cameras, NEW i \in SegmentIds
  PROVE  /\ Items[c][i] = "open" <=> Open(c, i)
         /\ Items[c][i] = "ended" <=> Ended(c, i)
         /\ Items[c][i] = "absent" <=> ~Open(c, i) /\ ~Ended(c, i)
  BY DEF Items, Open, Ended

(* An item that changes is the only one that does.                         *)
LEMMA ItemsStep ==
  ASSUME NEW c \in Cameras, NEW i \in SegmentIds,
         NEW type \in {"new", "update", "end"}, ItemStep(c, i, type)
  PROVE  Items' = [Items EXCEPT ![c][i] = IF type = "end" THEN "ended" ELSE "open"]
<1> DEFINE state == IF type = "end" THEN "ended" ELSE "open"
           State(b, j) == IF Open(b, j) THEN "open"
                          ELSE IF Ended(b, j) THEN "ended" ELSE "absent"
<1>1. State(c, i)' = state
  BY DEF ItemStep, Open, Ended
<1>2. \A b \in Cameras, j \in SegmentIds :
        b # c \/ j # i => State(b, j)' = State(b, j)
  BY DEF ItemStep, Open, Ended
<1>3. Items = [b \in Cameras |-> [j \in SegmentIds |-> State(b, j)]]
  BY DEF Items
<1>4. Items' = [b \in Cameras |-> [j \in SegmentIds |-> State(b, j)']]
  BY DEF Items
<1> HIDE DEF state, State
<1>5. Items \in [Cameras -> [SegmentIds -> {"open", "ended", "absent"}]]
  BY <1>3 DEF State
<1>6. [Items EXCEPT ![c][i] = state]
        = [b \in Cameras |-> [j \in SegmentIds |->
             IF b = c /\ j = i THEN state ELSE Items[b][j]]]
  BY <1>5
<1>7. \A b \in Cameras, j \in SegmentIds :
        State(b, j)' = IF b = c /\ j = i THEN state ELSE Items[b][j]
  BY <1>1, <1>2, <1>3
<1>8. Items' = [Items EXCEPT ![c][i] = state]
  BY <1>4, <1>6, <1>7
<1> QED
  BY <1>8 DEF state

(* A step on the items is one of the timeline.                             *)
LEMMA TimelineStep ==
  ASSUME TypeOK, RowsStep
  PROVE  Timeline!TimelineNext \/ Items' = Items
<1>1. CASE UNCHANGED rows
  BY <1>1 DEF Items, Open, Ended
<1>2. ASSUME NEW c \in Cameras, NEW i \in SegmentIds,
             NEW type \in {"new", "update", "end"}, ItemStep(c, i, type)
      PROVE  Timeline!TimelineNext \/ Items' = Items
  <2>1. /\ ~Ended(c, i)
        /\ \A j \in SegmentIds : Open(c, j) => j = i
    BY <1>2 DEF ItemStep
  <2>2. Items' = [Items EXCEPT ![c][i] = IF type = "end" THEN "ended" ELSE "open"]
    BY <1>2, ItemsStep
  <2>3. Timeline!OpenItems(c) \subseteq {i}
    BY <2>1, ItemsValue DEF Timeline!OpenItems, Timeline!SegmentIds, SegmentIds
  <2>4. CASE type = "end"
    <3>1. Items[c][i] # "ended"
      BY <2>1, ItemsValue
    <3>2. Timeline!EndItem(c, i)
      BY <2>2, <2>3, <2>4, <3>1 DEF Timeline!EndItem
    <3> QED
      BY <3>2 DEF Timeline!TimelineNext, Timeline!SegmentIds, SegmentIds
  <2>5. CASE type # "end" /\ Open(c, i)
    <3>1. Items[c][i] = "open"
      BY <2>5, ItemsValue
    <3>2. Items \in [Cameras -> [SegmentIds -> {"open", "ended", "absent"}]]
      BY DEF Items
    <3> QED
      BY <2>2, <2>5, <3>1, <3>2
  <2>6. CASE type # "end" /\ ~Open(c, i)
    <3>1. Items[c][i] = "absent"
      BY <2>1, <2>6, ItemsValue
    <3>2. Timeline!OpenItems(c) = {}
      BY <2>3, <3>1 DEF Timeline!OpenItems
    <3>3. Timeline!OpenItem(c, i)
      BY <2>2, <2>6, <3>1, <3>2 DEF Timeline!OpenItem
    <3> QED
      BY <3>3 DEF Timeline!TimelineNext, Timeline!SegmentIds, SegmentIds
  <2> QED
    BY <2>4, <2>5, <2>6
<1>3. CASE StartMaintainer
  <2> DEFINE State(b, j) == IF Open(b, j) THEN "open"
                            ELSE IF Ended(b, j) THEN "ended" ELSE "absent"
             Closed(b, j) == IF Items[b][j] = "open" THEN "ended" ELSE Items[b][j]
  <2>1. ASSUME NEW c \in Cameras, NEW i \in SegmentIds
        PROVE  State(c, i)' = Closed(c, i)
    <3>1. rows[c][i] \in Row
      BY DEF TypeOK
    <3>2. rows'[c][i] = IF Open(c, i)
                          THEN [rows[c][i] EXCEPT !.last = "cleared", !.end_time = now]
                          ELSE rows[c][i]
      BY <1>3 DEF StartMaintainer
    <3>3. Items[c][i] = State(c, i)
      BY DEF Items
    <3>4. CASE Open(c, i)
      <4>1. rows'[c][i].last = "cleared"
        BY <3>1, <3>2, <3>4 DEF Row
      <4> QED
        BY <3>3, <3>4, <4>1 DEF Open, Ended
    <3>5. CASE ~Open(c, i)
      BY <3>2, <3>3, <3>5 DEF Open, Ended
    <3> QED
      BY <3>4, <3>5
  <2>2. Items' = [c \in Cameras |-> [i \in SegmentIds |-> State(c, i)']]
    BY DEF Items
  <2> HIDE DEF State
  <2>3. Items' = [c \in Cameras |-> [i \in SegmentIds |-> Closed(c, i)]]
    BY <2>1, <2>2
  <2>4. Timeline!Recover
    BY <2>3 DEF Timeline!Recover, Timeline!SegmentIds, SegmentIds
  <2> QED
    BY <2>4 DEF Timeline!TimelineNext
<1> QED
  BY <1>1, <1>2, <1>3 DEF RowsStep

(* Readers of review items may rely on ReviewTimeline: at most one item of *)
(* a camera is open, items never change after their end, and what a dead   *)
(* maintainer left open is closed before another item is opened.           *)
THEOREM Refinement == Spec => TimelineSpec
<1>1. Init => Timeline!TimelineInit
  BY DEF Init, NoRow, Items, Open, Ended, Timeline!TimelineInit,
         Timeline!SegmentIds, SegmentIds
<1>2. TypeInv /\ ItemInv /\ [Next]_vars => [Timeline!TimelineNext]_Items
  BY NextItems, TimelineStep DEF TypeInv
<1> QED
  BY InitTypeInv, NextTypeInv, InitItems, NextItems, <1>1, <1>2, PTL
  DEF Spec, TimelineSpec, Timeline!TimelineSpec

-----------------------------------------------------------------------------
(* 5. Events with no set duration *)

HeldOpen(seg) ==
  /\ seg # NoSegment
  /\ seg.last_alert_time = Forever
  /\ seg.last_detection_time = Forever

AllHeld ==
  \A c \in Cameras : indefinite[c] # {} /\ ~overwritten[c] => HeldOpen(segment[c])
HeldInv == thread = "running" => AllHeld

(* The events of the other cameras are left alone.                         *)
OthersKept(c) ==
  \A b \in Cameras :
    b # c => indefinite'[b] = indefinite[b] /\ overwritten'[b] = overwritten[b]

(* A step on the segment and the events of one camera.                     *)
LEMMA KeepHeld ==
  ASSUME TypeOK, AllHeld, NEW c \in Cameras, NEW seg, Keep(c, seg), OthersKept(c),
         indefinite'[c] # {} /\ ~overwritten'[c] => HeldOpen(seg)
  PROVE  AllHeld'
<1>1. segment'[c] = seg /\ \A b \in Cameras : b # c => segment'[b] = segment[b]
  BY DEF Keep, TypeOK
<1> QED
  BY <1>1 DEF AllHeld, HeldOpen, OthersKept

(* One that leaves them alone.                                             *)
LEMMA SameHeld ==
  ASSUME AllHeld, UNCHANGED <<segment, indefinite, overwritten>>
  PROVE  AllHeld'
  BY DEF AllHeld, HeldOpen

(* A forced end releases the events of its camera.                         *)
LEMMA EndPendingReleases ==
  ASSUME TypeOK, AllHeld, NEW c \in Cameras, EndPending(c), UNCHANGED overwritten,
         indefinite' = [indefinite EXCEPT ![c] = {}] \/ UNCHANGED indefinite,
         segment[c] = NoSegment \/ indefinite'[c] = {}
  PROVE  AllHeld'
<1>1. CASE segment[c] = NoSegment
  <2>1. UNCHANGED segment
    BY <1>1 DEF EndPending
  <2>2. \A b \in Cameras : indefinite'[b] # {} => indefinite'[b] = indefinite[b]
    BY DEF TypeOK
  <2> QED
    BY <2>1, <2>2 DEF AllHeld, HeldOpen
<1>2. CASE segment[c] # NoSegment
  <2>1. Keep(c, NoSegment)
    BY <1>2 DEF EndPending, PublishEnd
  <2>2. OthersKept(c)
    BY DEF TypeOK, OthersKept
  <2> QED
    BY <1>2, <2>1, <2>2, KeepHeld
<1> QED
  BY <1>1, <1>2

(* One that finds no segment leaves them as they are.                      *)
LEMMA ForciblyEndHeld ==
  ASSUME TypeOK, AllHeld, NEW c \in Cameras, ForciblyEndSegment(c),
         UNCHANGED overwritten
  PROVE  AllHeld'
<1>1. EndPending(c)
  BY DEF ForciblyEndSegment
<1>2. CASE segment[c] = NoSegment
  <2>1. UNCHANGED indefinite
    BY <1>2 DEF ForciblyEndSegment, TypeOK
  <2> QED
    BY <1>1, <1>2, <2>1, EndPendingReleases
<1>3. CASE segment[c] # NoSegment
  <2>1. indefinite' = [indefinite EXCEPT ![c] = {}]
    BY <1>3 DEF ForciblyEndSegment
  <2>2. indefinite'[c] = {}
    BY <2>1 DEF TypeOK
  <2> QED
    BY <1>1, <2>1, <2>2, EndPendingReleases
<1> QED
  BY <1>2, <1>3

(* No frame is late enough to pass the cutoff of a held segment, and none  *)
(* lowers its times.                                                       *)
LEMMA VideoHeld ==
  ASSUME TypeOK, AllHeld, NEW c \in Cameras, NEW t \in FrameTimes(c),
         NEW objs \in Scenes, NEW image \in Images, VideoFrame(c, t, objs, image)
  PROVE  AllHeld'
<1>1. t \in 0..MaxTime /\ MaxTime < Forever /\ Forever \in Nat /\ MaxTime \in Nat
  BY TimeAssumption DEF FrameTimes, TypeOK
<1>0. UNCHANGED overwritten
  BY DEF VideoFrame
<1>2. CASE Drop(c)
  BY <1>0, <1>2, SameHeld DEF Drop, reviewVars
<1>3. CASE EndDisabled(c)
  BY <1>0, <1>3, ForciblyEndHeld DEF EndDisabled
<1>4. ASSUME Pending(c), UNCHANGED indefinite,
             NEW recognised \in BOOLEAN,
             ExtendSegment(c, t, objs, image, recognised)
      PROVE  AllHeld'
  <2> DEFINE old == segment[c]
             count == Cardinality(Activity(c, objs))
             alert == AlertObjects(c, objs) # {}
             upgraded == alert /\ old.severity # "alert"
             reframe == upgraded \/ count > old.frame_active_count
             framed == reframe /\ image = "stored"
             seg == [old EXCEPT
               !.severity = IF alert THEN "alert" ELSE @,
               !.last_alert_time = IF alert /\ (@ = NoTime \/ t > @) THEN t ELSE @,
               !.last_detection_time =
                  IF DetectionObjects(c, objs) # {} /\ t > @ THEN t ELSE @,
               !.has_frame = @ \/ framed,
               !.frame_active_count = IF framed THEN count ELSE @]
  <2>1. Keep(c, seg)
    BY <1>4 DEF ExtendSegment
  <2>2. old \in Segment /\ old # NoSegment
    BY <1>4 DEF Pending, TypeOK
  <2> HIDE DEF count, alert, framed
  <2>3. /\ HeldOpen(old) => seg.last_alert_time = Forever
        /\ HeldOpen(old) => seg.last_detection_time = Forever
    BY <1>1, <2>2 DEF Segment, HeldOpen, NoTime
  <2>4. count \in Nat /\ framed \in BOOLEAN /\ t \in Nat
    BY <1>1, ActivityCount DEF count, framed
  <2>5. seg \in Segment
    BY <2>2, <2>4 DEF Segment, Times, Severities
  <2> HIDE DEF seg
  <2> QED
    BY <1>0, <1>4, <2>1, <2>3, <2>5, KeepHeld, NoSegmentAssumption
    DEF AllHeld, HeldOpen, OthersKept
<1>5. ASSUME Pending(c), UNCHANGED indefinite,
             SettleSegment(c, t, objs, image)
      PROVE  AllHeld'
  <2> DEFINE old == segment[c]
             seg == [old EXCEPT !.has_frame = TRUE]
  <2>1. old \in Segment
    BY <1>5 DEF Pending, TypeOK
  <2>2. /\ seg \in Segment /\ seg.severity = old.severity
        /\ seg.last_alert_time = old.last_alert_time
        /\ seg.last_detection_time = old.last_detection_time
    BY <2>1 DEF Segment
  <2>3. seg # NoSegment
    BY <2>2, NoSegmentAssumption
  <2>4. HeldOpen(old) => ~CutoffPassed(seg, t)
    BY <1>1, <2>2, TimeAssumption DEF HeldOpen, CutoffPassed
  <2>5. \/ UNCHANGED segment
        \/ CutoffPassed(seg, t) /\ PublishEnd(c, seg)
        \/ Keep(c, seg)
    BY <1>5 DEF SettleSegment
  <2>6. CASE UNCHANGED segment
    BY <1>0, <1>5, <2>6, SameHeld
  <2>7. CASE CutoffPassed(seg, t) /\ PublishEnd(c, seg)
    <3>1. (indefinite'[c] = {} \/ overwritten'[c]) /\ Keep(c, NoSegment)
      BY <1>0, <1>5, <2>4, <2>7 DEF AllHeld, PublishEnd
    <3> QED
      BY <1>0, <1>5, <3>1, KeepHeld DEF OthersKept
  <2>8. CASE Keep(c, seg)
    <3>1. indefinite'[c] # {} /\ ~overwritten'[c] => HeldOpen(seg)
      BY <1>0, <1>5, <2>2, <2>3 DEF AllHeld, HeldOpen
    <3> QED
      BY <1>0, <1>5, <2>8, <3>1, KeepHeld DEF OthersKept
  <2> QED
    BY <2>5, <2>6, <2>7, <2>8
<1>6. ASSUME Idle(c), UNCHANGED indefinite,
             CheckIfNewSegment(c, t, objs, image)
      PROVE  AllHeld'
  <2>1. indefinite'[c] = {} \/ overwritten'[c]
    BY <1>0, <1>6 DEF Idle, AllHeld, HeldOpen
  <2>2. UNCHANGED segment \/ \E seg : Keep(c, seg)
    BY <1>6 DEF CheckIfNewSegment, Pend
  <2> QED
    BY <1>0, <1>6, <2>1, <2>2, SameHeld, KeepHeld DEF OthersKept
<1> QED
  BY <1>2, <1>3, <1>4, <1>5, <1>6 DEF VideoFrame

(* A sound that counts overwrites a held segment; one that does not        *)
(* changes nothing.                                                        *)
LEMMA AudioHeld ==
  ASSUME TypeOK, AllHeld, NEW c \in Cameras, NEW sounds \in Sounds, Audio(c, sounds)
  PROVE  AllHeld'
<1> DEFINE loud == AlertSounds(c, sounds) # {}
           heard == DetectionSounds(c, sounds) # {}
<1>1. CASE Drop(c)
  BY <1>1, SameHeld DEF Drop, reviewVars
<1>2. CASE EndDisabled(c)
  BY <1>2, ForciblyEndHeld DEF EndDisabled
<1>3. CASE Pending(c) /\ AudioExtends(c, sounds) /\ UNCHANGED indefinite
  <2> DEFINE old == segment[c]
             seg == [old EXCEPT
               !.severity = IF loud THEN "alert" ELSE @,
               !.last_alert_time = IF loud THEN now ELSE @,
               !.last_detection_time = IF heard THEN now ELSE @]
  <2>1. old \in Segment /\ old # NoSegment
    BY <1>3 DEF Pending, TypeOK
  <2>2. Keep(c, seg) /\ Overwrite(c, loud \/ heard)
    BY <1>3 DEF AudioExtends
  <2>3. /\ overwritten'[c] = (overwritten[c] \/ ((loud \/ heard) /\ indefinite[c] # {}))
        /\ OthersKept(c)
    BY <1>3, <2>2 DEF Overwrite, TypeOK, OthersKept
  <2> HIDE DEF loud, heard
  <2>4. ~loud /\ ~heard => seg = old
    BY <2>1 DEF Segment
  <2>5. indefinite'[c] # {} /\ ~overwritten'[c] => HeldOpen(old) /\ ~loud /\ ~heard
    BY <1>3, <2>3 DEF AllHeld
  <2> HIDE DEF seg
  <2> QED
    BY <2>2, <2>3, <2>4, <2>5, KeepHeld
<1>4. CASE Idle(c) /\ AudioStarts(c, sounds) /\ UNCHANGED indefinite
  <2>1. (indefinite'[c] = {} \/ overwritten'[c]) /\ OthersKept(c)
    BY <1>4 DEF AudioStarts, Idle, AllHeld, HeldOpen, OthersKept
  <2>2. UNCHANGED segment \/ \E seg : Keep(c, seg)
    BY <1>4 DEF AudioStarts, Pend
  <2>3. UNCHANGED overwritten
    BY <1>4 DEF AudioStarts
  <2> QED
    BY <1>4, <2>1, <2>2, <2>3, SameHeld, KeepHeld
<1> QED
  BY <1>1, <1>2, <1>3, <1>4 DEF Audio

(* So does an event with a duration.                                       *)
LEMMA CompleteHeld ==
  ASSUME TypeOK, AllHeld, NEW c \in Cameras, NEW l, NEW end, ApiComplete(c, l, end)
  PROVE  AllHeld'
<1> DEFINE severity == ManualSeverity(c, l)
<1>1. UNCHANGED indefinite
  BY DEF ApiComplete
<1>2. CASE Pending(c)
  <2> DEFINE old == segment[c]
             seg == [old EXCEPT
               !.severity = IF severity = "alert" THEN "alert" ELSE @,
               !.last_alert_time = IF severity = "alert" THEN end ELSE @,
               !.last_detection_time = IF severity = "detection" THEN end ELSE @]
  <2>1. old \in Segment /\ old # NoSegment /\ ~Idle(c)
    BY <1>2 DEF Pending, Idle, TypeOK
  <2>2. Keep(c, seg) /\ Overwrite(c, severity # "none")
    BY <1>2, <2>1 DEF ApiComplete
  <2>3. /\ overwritten'[c] = (overwritten[c] \/ (severity # "none" /\ indefinite[c] # {}))
        /\ OthersKept(c)
    BY <1>1, <2>2 DEF Overwrite, TypeOK, OthersKept
  <2> HIDE DEF severity
  <2>4. severity = "none" => seg = old
    BY <2>1 DEF Segment
  <2>5. indefinite'[c] # {} /\ ~overwritten'[c] => HeldOpen(old) /\ severity = "none"
    BY <1>1, <2>3 DEF AllHeld
  <2> HIDE DEF seg
  <2> QED
    BY <2>2, <2>3, <2>4, <2>5, KeepHeld
<1>3. CASE Idle(c) /\ ~Pending(c)
  <2>1. UNCHANGED overwritten /\ (UNCHANGED segment \/ \E seg : Keep(c, seg))
    BY <1>3 DEF ApiComplete, Pend
  <2>2. (indefinite'[c] = {} \/ overwritten'[c]) /\ OthersKept(c)
    BY <1>1, <1>3, <2>1 DEF Idle, AllHeld, HeldOpen, OthersKept
  <2> QED
    BY <1>1, <2>1, <2>2, SameHeld, KeepHeld
<1> QED
  BY <1>2, <1>3 DEF ApiComplete

(* The start of an event holds the segment, if there is one.               *)
LEMMA CreateHeld ==
  ASSUME TypeOK, AllHeld, NEW c \in Cameras, NEW e \in Events, CreateManualEvent(e, c)
  PROVE  AllHeld'
<1>1. ASSUME NEW seg \in Segment, Keep(c, Hold(seg)), Holds(e, c)
      PROVE  AllHeld'
  <2>1. Hold(seg) \in Segment /\ HeldOpen(Hold(seg))
    <3>1. Hold(seg) \in Segment
      BY TimeAssumption DEF Hold, Segment, Times
    <3>2. Hold(seg).last_alert_time = Forever /\ Hold(seg).last_detection_time = Forever
      BY DEF Hold, Segment
    <3> QED
      BY <3>1, <3>2, NoSegmentAssumption DEF HeldOpen
  <2>2. OthersKept(c)
    BY <1>1 DEF TypeOK, Holds, OthersKept
  <2> QED
    BY <1>1, <2>1, <2>2, KeepHeld
<1>2. ASSUME NEW severity \in Severities, Pend(c, Hold(NewSegment(c, now, severity))),
             Holds(e, c)
      PROVE  AllHeld'
  <2>1. NewSegment(c, now, severity) \in Segment
    <3>1. created[c] \in 0..MaxSegments /\ created[c] < MaxSegments
      BY <1>2 DEF Pend, TypeOK
    <3>2. now \in Nat /\ now # Forever
      BY TimeAssumption DEF TypeOK
    <3> QED
      BY <3>1, <3>2, NewSegmentSound
  <2> QED
    BY <1>1, <1>2, <2>1 DEF Pend
<1>3. ASSUME NEW severity \in Severities, Pending(c),
             EventStartsIn(e, c, [segment[c] EXCEPT !.severity = severity])
      PROVE  AllHeld'
  <2>1. segment[c] \in Segment
    BY <1>3 DEF Pending, TypeOK
  <2>2. [segment[c] EXCEPT !.severity = severity] \in Segment
    BY <2>1 DEF Segment
  <2> QED
    BY <1>1, <1>3, <2>2 DEF EventStartsIn
<1>4. Pending(c) => segment[c].severity \in Severities
  BY DEF Pending, TypeOK, Segment
<1>5. "alert" \in Severities /\ "detection" \in Severities
  BY DEF Severities
<1>6. ASSUME NEW l \in Labels, ApiStart(e, c, l) PROVE AllHeld'
  <2> DEFINE severity == ManualSeverity(c, l)
  <2>1. severity = "none" \/ severity \in Severities
    BY DEF ManualSeverity, Severities
  <2>2. CASE /\ Pending(c)
             /\ EventStartsIn(e, c, [segment[c] EXCEPT
                  !.severity = IF severity = "alert" THEN "alert" ELSE @])
    <3> DEFINE to == IF severity = "alert" THEN "alert" ELSE segment[c].severity
    <3>1. to \in Severities
      BY <1>4, <1>5, <2>2
    <3>2. EventStartsIn(e, c, [segment[c] EXCEPT !.severity = to])
      BY <2>2
    <3> HIDE DEF to
    <3> QED
      BY <1>3, <2>2, <3>1, <3>2
  <2>3. CASE /\ severity # "none"
             /\ Pend(c, Hold(NewSegment(c, now, severity)))
             /\ Holds(e, c)
    BY <1>2, <2>1, <2>3
  <2>4. CASE UNCHANGED <<segment, indefinite, overwritten>>
    BY <2>4, SameHeld
  <2> QED
    BY <1>6, <2>2, <2>3, <2>4 DEF ApiStart
<1>7. ASSUME PlateStart(e, c) PROVE AllHeld'
  <2>1. CASE /\ Pending(c)
             /\ EventStartsIn(e, c, [segment[c] EXCEPT
                  !.severity = IF "detections" \in config[c] THEN "detection" ELSE @])
    <3> DEFINE to == IF "detections" \in config[c] THEN "detection" ELSE segment[c].severity
    <3>1. to \in Severities
      BY <1>4, <1>5, <2>1
    <3>2. EventStartsIn(e, c, [segment[c] EXCEPT !.severity = to])
      BY <2>1
    <3> HIDE DEF to
    <3> QED
      BY <1>3, <2>1, <3>1, <3>2
  <2>2. CASE /\ Pend(c, Hold(NewSegment(c, now, "detection")))
             /\ Holds(e, c)
    BY <1>2, <1>5, <2>2
  <2>3. CASE UNCHANGED <<segment, indefinite, overwritten>>
    BY <2>3, SameHeld
  <2> QED
    BY <1>7, <2>1, <2>2, <2>3 DEF PlateStart
<1>8. CASE Drop(c)
  BY <1>8, SameHeld DEF Drop, reviewVars
<1>9. CASE EndDisabled(c)
  BY <1>9, ForciblyEndHeld DEF EndDisabled
<1> QED
  BY <1>6, <1>7, <1>8, <1>9, CompleteHeld DEF CreateManualEvent

(* The end of one releases the segment when it was the last.               *)
LEMMA EndHeld ==
  ASSUME TypeOK, AllHeld, NEW c \in Cameras, NEW e \in Events, EndManualEvent(e, c)
  PROVE  AllHeld'
<1>0. UNCHANGED overwritten
  BY DEF EndManualEvent
<1>1. CASE Drop(c)
  BY <1>0, <1>1, SameHeld DEF Drop, reviewVars
<1>2. CASE EndDisabled(c)
  BY <1>0, <1>2, ForciblyEndHeld DEF EndDisabled
<1>3. CASE UNCHANGED reviewVars
  BY <1>0, <1>3, SameHeld DEF reviewVars
<1>4. ASSUME indefinite' = [indefinite EXCEPT ![c] = @ \ {e}],
             indefinite[c] = {e}, NEW seg, Keep(c, seg)
      PROVE  AllHeld'
  <2>1. indefinite'[c] = {} /\ OthersKept(c)
    BY <1>0, <1>4 DEF TypeOK, OthersKept
  <2> QED
    BY <1>4, <2>1, KeepHeld
<1>5. ASSUME indefinite' = [indefinite EXCEPT ![c] = @ \ {e}], UNCHANGED segment
      PROVE  AllHeld'
  <2>1. \A b \in Cameras : indefinite'[b] \subseteq indefinite[b]
    BY <1>5 DEF TypeOK
  <2> QED
    BY <1>0, <1>5, <2>1 DEF AllHeld, HeldOpen
<1> QED
  BY <1>1, <1>2, <1>3, <1>4, <1>5 DEF EndManualEvent

(* Settings that change end the segment or leave it alone.                 *)
LEMMA ToggleHeld ==
  ASSUME TypeOK, AllHeld, NEW c \in Cameras,
         ToggleCamera(c) \/ ToggleSeverity(c) \/ RemoveCamera(c) \/ AddCamera(c)
  PROVE  AllHeld'
<1>1. CASE ToggleCamera(c)
  BY <1>1, ForciblyEndHeld DEF ToggleCamera, Toggle
<1>2. CASE ToggleSeverity(c) \/ AddCamera(c)
  BY <1>2, SameHeld DEF ToggleSeverity, AddCamera, Toggle, reviewVars
<1>3. CASE RemoveCamera(c)
  <2>1. /\ EndPending(c) /\ indefinite' = [indefinite EXCEPT ![c] = {}]
        /\ UNCHANGED overwritten
    BY <1>3 DEF RemoveCamera, Toggle
  <2>2. indefinite'[c] = {}
    BY <2>1 DEF TypeOK
  <2> QED
    BY <2>1, <2>2, EndPendingReleases
<1> QED
  BY <1>1, <1>2, <1>3

(* A maintainer that does not run is sent nothing it could handle; a new   *)
(* one holds no event.                                                     *)
LEMMA NextHeld ==
  ASSUME TypeOK, HeldInv, [Next]_vars
  PROVE  HeldInv'
<1>1. CASE Tick \/ Kill \/ UNCHANGED vars
  <2>1. /\ UNCHANGED <<segment, indefinite, overwritten>>
        /\ thread' = "running" => thread = "running"
    BY <1>1 DEF Tick, Kill, vars, reviewVars
  <2> QED
    BY <2>1, SameHeld DEF HeldInv
<1>2. CASE WatchdogRestart \/ FrigateRestart
  <2>1. \A c \in Cameras : indefinite'[c] = {}
    BY <1>2 DEF WatchdogRestart, FrigateRestart, StartMaintainer
  <2> QED
    BY <2>1 DEF HeldInv, AllHeld
<1>3. ASSUME NEW c \in Cameras,
             \/ \E t \in FrameTimes(c) : Video(c, t)
             \/ \E sounds \in Sounds : Audio(c, sounds)
             \/ \E e \in Events : CreateManualEvent(e, c) \/ EndManualEvent(e, c)
             \/ ToggleCamera(c) \/ ToggleSeverity(c)
             \/ RemoveCamera(c) \/ AddCamera(c)
      PROVE  HeldInv'
  <2>1. thread' = "running" => thread = "running"
    BY <1>3 DEF Video, VideoFrame, Audio, CreateManualEvent, EndManualEvent, Drop, EndDisabled,
                ToggleCamera, ToggleSeverity, RemoveCamera, AddCamera, Toggle
  <2>2. AllHeld => AllHeld'
    BY <1>3, VideoHeld, AudioHeld, CreateHeld, EndHeld, ToggleHeld DEF Video
  <2> QED
    BY <2>1, <2>2 DEF HeldInv
<1> QED
  BY <1>1, <1>2, <1>3 DEF Next, Elsewhere

(* "temporarily make it so this event can not end": a manual event with no *)
(* set duration keeps its segment open until it is ended, whatever frames  *)
(* come and settings change meanwhile; only a sound that counts or an      *)
(* event with a duration, received while it holds the segment, takes the   *)
(* hold away, and a later event gives it back.                             *)
THEOREM EventsHold == Spec => []IndefiniteEventsHold
<1>1. Init => HeldInv
  BY DEF Init, HeldInv, AllHeld
<1>2. TypeInv /\ HeldInv /\ [Next]_vars => HeldInv'
  BY NextHeld DEF TypeInv
<1>3. HeldInv => IndefiniteEventsHold
  BY DEF HeldInv, AllHeld, HeldOpen, IndefiniteEventsHold
<1> QED
  BY InitTypeInv, NextTypeInv, <1>1, <1>2, <1>3, PTL DEF Spec

-----------------------------------------------------------------------------
(* 6. Items that end by their cutoff *)

(* The item of one row ends in this step.                                  *)
Ends(c, i) == rows[c][i].last # "end" /\ rows'[c][i].last = "end"

(* An item ends when the end of its segment is published,                  *)
LEMMA EndsPublished ==
  ASSUME TypeOK, NEW b \in Cameras, NEW seg \in Segment,
         NEW type \in {"new", "update", "end"}, Publish(b, seg, type),
         NEW c \in Cameras, NEW i \in SegmentIds, Ends(c, i)
  PROVE  c = b /\ type = "end" /\ rows'[c][i].end_time = EndTime(seg)
  BY PublishRow DEF Ends

(* not when nothing is,                                                    *)
LEMMA EndsNothing ==
  ASSUME NEW c, NEW i, Ends(c, i), UNCHANGED rows
  PROVE  FALSE
  BY DEF Ends

(* and by force only on the camera that is told to end its segment.        *)
LEMMA EndsForced ==
  ASSUME TypeOK, NEW b \in Cameras, EndPending(b),
         NEW c \in Cameras, NEW i \in SegmentIds, Ends(c, i)
  PROVE  c = b
<1> DEFINE stop(t) == IF indefinite[b] # {} /\ t = Forever THEN now ELSE t
           seg == [segment[b] EXCEPT !.last_alert_time = stop(@),
                                     !.last_detection_time = stop(@)]
<1>1. segment[b] # NoSegment /\ PublishEnd(b, seg)
  BY EndsNothing DEF EndPending
<1>2. segment[b] \in Segment /\ now \in Nat
  BY <1>1, TimeAssumption DEF TypeOK
<1>3. seg \in Segment
  BY <1>2 DEF Segment, Times
<1> HIDE DEF seg
<1>4. Publish(b, seg, "end")
  BY <1>1 DEF PublishEnd
<1> QED
  BY <1>3, <1>4, EndsPublished

(* A frame that ends an item of a severity that is on has passed the       *)
(* cutoff, which the end of the item does not include.                     *)
LEMMA VideoEnds ==
  ASSUME TypeOK, NEW b \in Cameras, NEW t \in FrameTimes(b),
         NEW objs \in Scenes, NEW image \in Images, VideoFrame(b, t, objs, image),
         NEW c \in Cameras, NEW i \in SegmentIds, Ends(c, i), ~SeverityDisabled(c)
  PROVE  rows'[c][i].end_time < lastVideo'[c]
<1>1. t \in 0..MaxTime /\ MaxTime \in Nat /\ lastVideo'[b] = t
  BY TimeAssumption DEF FrameTimes, TypeOK, VideoFrame
<1>2. CASE Drop(b)
  BY <1>2, EndsNothing DEF Drop, reviewVars
<1>3. CASE EndDisabled(b)
  BY <1>3, EndsForced DEF EndDisabled, ForciblyEndSegment
<1>4. ASSUME Pending(b),
             NEW recognised \in BOOLEAN,
             ExtendSegment(b, t, objs, image, recognised)
      PROVE  FALSE
  <2> DEFINE old == segment[b]
             count == Cardinality(Activity(b, objs))
             alert == AlertObjects(b, objs) # {}
             upgraded == alert /\ old.severity # "alert"
             reframe == upgraded \/ count > old.frame_active_count
             framed == reframe /\ image = "stored"
             seg == [old EXCEPT
               !.severity = IF alert THEN "alert" ELSE @,
               !.last_alert_time = IF alert /\ (@ = NoTime \/ t > @) THEN t ELSE @,
               !.last_detection_time =
                  IF DetectionObjects(b, objs) # {} /\ t > @ THEN t ELSE @,
               !.has_frame = @ \/ framed,
               !.frame_active_count = IF framed THEN count ELSE @]
  <2>1. Publish(b, seg, "update")
    BY <1>4, EndsNothing DEF ExtendSegment
  <2>2. old \in Segment
    BY <1>4 DEF Pending, TypeOK
  <2> HIDE DEF count, alert, framed
  <2>3. count \in Nat /\ framed \in BOOLEAN /\ t \in Nat
    BY <1>1, ActivityCount DEF count, framed
  <2>4. seg \in Segment
    BY <2>2, <2>3 DEF Segment, Times, Severities
  <2> HIDE DEF seg
  <2> QED
    BY <2>1, <2>4, EndsPublished
<1>5. ASSUME Pending(b), SettleSegment(b, t, objs, image)
      PROVE  rows'[c][i].end_time < lastVideo'[c]
  <2> DEFINE seg == [segment[b] EXCEPT !.has_frame = TRUE]
  <2>1. segment[b] \in Segment
    BY <1>5 DEF Pending, TypeOK
  <2>2. seg \in Segment
    BY <2>1 DEF Segment
  <2>3. \/ CutoffPassed(seg, t) /\ PublishEnd(b, seg)
        \/ Publish(b, seg, "update")
    BY <1>5, EndsNothing DEF SettleSegment
  <2> HIDE DEF seg
  <2>4. CutoffPassed(seg, t) /\ c = b /\ rows'[c][i].end_time = EndTime(seg)
    BY <2>2, <2>3, EndsPublished DEF PublishEnd
  <2>5. EndTime(seg) < t
    BY <1>1, <2>2, <2>4, TimeAssumption DEF CutoffPassed, EndTime, Segment, Times, NoTime
  <2> QED
    BY <1>1, <2>4, <2>5
<1>6. ASSUME CheckIfNewSegment(b, t, objs, image)
      PROVE  FALSE
  <2> DEFINE severity == IF AlertObjects(b, objs) # {} THEN "alert" ELSE "detection"
             framed == image = "stored"
             new == NewSegment(b, t, severity)
             seg == [new EXCEPT
                       !.has_frame = framed,
                       !.frame_active_count =
                          IF framed THEN Cardinality(Activity(b, objs)) ELSE 0]
  <2>1. Pend(b, seg) /\ Publish(b, seg, "new")
    BY <1>6, EndsNothing DEF CheckIfNewSegment
  <2>2. created[b] \in 0..MaxSegments /\ created[b] < MaxSegments
    BY <2>1 DEF Pend, TypeOK
  <2>3. severity \in Severities /\ t \in Nat /\ t # Forever
    BY <1>1, TimeAssumption DEF Severities
  <2>4. new \in Segment
    BY <2>2, <2>3, NewSegmentSound
  <2>5. Cardinality(Activity(b, objs)) \in Nat
    BY ActivityCount
  <2> HIDE DEF new
  <2>6. seg \in Segment
    BY <2>4, <2>5 DEF Segment
  <2> HIDE DEF seg
  <2> QED
    BY <2>1, <2>6, EndsPublished
<1> QED
  BY <1>2, <1>3, <1>4, <1>5, <1>6 DEF VideoFrame

(* The other messages end an item only when its severity is off, and the   *)
(* settings only when the settings change.                                 *)
LEMMA MessageEnds ==
  ASSUME TypeOK, NEW b \in Cameras,
         \/ \E sounds \in Sounds : Audio(b, sounds)
         \/ \E e \in Events : CreateManualEvent(e, b) \/ EndManualEvent(e, b),
         NEW c \in Cameras, NEW i \in SegmentIds, Ends(c, i)
  PROVE  SeverityDisabled(c)
<1>1. UNCHANGED rows \/ EndDisabled(b)
  BY DEF Audio, CreateManualEvent, EndManualEvent, Drop, reviewVars
<1> QED
  BY <1>1, EndsNothing, EndsForced DEF EndDisabled, ForciblyEndSegment

(* A setting that is flipped is another setting.                           *)
LEMMA ToggleChanges ==
  ASSUME TypeOK, NEW b \in Cameras, NEW topic, Toggle(b, topic)
  PROVE  config' # config
<1>1. PICK f \in Settable \cap topic :
        config' = [config EXCEPT ![b] = IF f \in @ THEN @ \ {f} ELSE @ \cup {f}]
  BY DEF Toggle
<1>2. config'[b] = IF f \in config[b] THEN config[b] \ {f} ELSE config[b] \cup {f}
  BY <1>1 DEF TypeOK
<1>3. f \in config'[b] <=> f \notin config[b]
  BY <1>2
<1> QED
  BY <1>3

(* Items ended by their cutoff are in the past when they end, whichever of *)
(* video, audio and manual events was the last to extend them: they end    *)
(* before the frame that ends them, so what comes next on their camera     *)
(* cannot overlap them.                                                    *)
THEOREM EndsInThePast == Spec => CutoffEndsInThePast
<1>1. ASSUME TypeOK, [Next]_vars, NEW c \in Cameras, NEW i \in SegmentIds,
             Ends(c, i), ~SeverityDisabled(c), config' = config
      PROVE  rows'[c][i].end_time < lastVideo'[c]
  <2>1. CASE Tick \/ Kill \/ UNCHANGED vars
    BY <1>1, <2>1, EndsNothing DEF Tick, Kill, vars, reviewVars
  <2>2. CASE WatchdogRestart \/ FrigateRestart
    <3> DEFINE cleared(b, j) ==
          IF Open(b, j) THEN [rows[b][j] EXCEPT !.last = "cleared", !.end_time = now]
          ELSE rows[b][j]
    <3>1. rows'[c][i] = cleared(c, i)
      <4>1. rows' = [b \in Cameras |-> [j \in SegmentIds |-> cleared(b, j)]]
        BY <2>2 DEF WatchdogRestart, FrigateRestart, StartMaintainer
      <4> HIDE DEF cleared
      <4> QED
        BY <1>1, <4>1
    <3>2. rows[c][i] \in Row
      BY <1>1 DEF TypeOK
    <3>3. rows'[c][i].last \in {"cleared", rows[c][i].last}
      BY <3>1, <3>2 DEF Row
    <3> QED
      BY <1>1, <3>3 DEF Ends
  <2>3. ASSUME NEW b \in Cameras, NEW t \in FrameTimes(b), Video(b, t)
        PROVE  rows'[c][i].end_time < lastVideo'[c]
    BY <1>1, <2>3, VideoEnds DEF Video
  <2>4. ASSUME NEW b \in Cameras,
               \/ \E sounds \in Sounds : Audio(b, sounds)
               \/ \E e \in Events : CreateManualEvent(e, b) \/ EndManualEvent(e, b)
        PROVE  FALSE
    BY <1>1, <2>4, MessageEnds
  <2>5. ASSUME NEW b \in Cameras,
               ToggleCamera(b) \/ ToggleSeverity(b) \/ RemoveCamera(b) \/ AddCamera(b)
        PROVE  FALSE
    BY <1>1, <2>5, ToggleChanges
    DEF ToggleCamera, ToggleSeverity, RemoveCamera, AddCamera
  <2> QED
    BY <1>1, <2>1, <2>2, <2>3, <2>4, <2>5 DEF Next, Elsewhere
<1>2. TypeInv /\ [Next]_vars =>
        [\A c \in Cameras, i \in SegmentIds :
           (/\ rows[c][i].last # "end" /\ rows'[c][i].last = "end"
            /\ ~SeverityDisabled(c) /\ config' = config)
           => rows'[c][i].end_time < lastVideo'[c]]_vars
  BY <1>1 DEF TypeInv, Ends
<1> QED
  BY InitTypeInv, NextTypeInv, <1>2, PTL DEF Spec, CutoffEndsInThePast
=============================================================================
