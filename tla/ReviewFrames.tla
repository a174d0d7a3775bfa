---------------------------- MODULE ReviewFrames ----------------------------
(***************************************************************************)
(* The maintainer of ReviewSegments with what the cameras look at, which   *)
(* decides whether a segment ever ends: only a frame without activity ends *)
(* one, and a segment that has no image yet waits for a frame that is      *)
(* still in shared memory (update_existing_segment).                       *)
(***************************************************************************)
EXTENDS ReviewSegments

VARIABLE
  view  \* per camera, its frames of now: something that counts ("busy"),
        \* nothing that counts ("quiet"), or nothing that counts and gone
        \* from shared memory when the maintainer handles them ("lost")

watchedVars == <<vars, view>>

Views == {"busy", "quiet", "lost"}

WatchedInit == Init /\ view \in [Cameras -> Views]

(* A frame of now shows what the camera looks at; a late one may show      *)
(* anything.                                                               *)
FrameArrives(c, t) ==
  /\ \E objs \in Scenes, image \in Images :
       /\ t = now =>
            /\ view[c] = "busy" <=> Activity(c, objs) # {}
            /\ view[c] = "quiet" => image # "missing"
            /\ view[c] = "lost" => image = "missing"
       /\ VideoFrame(c, t, objs, image)
  /\ UNCHANGED view

(* The scene changes, or the maintainer falls behind or catches up.        *)
ViewChanges(c) ==
  /\ \E v \in Views : view' = [view EXCEPT ![c] = v]
  /\ UNCHANGED vars

WatchedNext ==
  \/ Elsewhere /\ UNCHANGED view
  \/ \E c \in Cameras :
       \/ ViewChanges(c)
       \/ \E t \in FrameTimes(c) : FrameArrives(c, t)

(* Cameras keep sending frames, and the maintainer gets to those of now.   *)
WatchedSpec ==
  /\ WatchedInit /\ [][WatchedNext]_watchedVars
  /\ \A c \in Cameras : WF_watchedVars(FrameArrives(c, now))

-----------------------------------------------------------------------------
Overdue(c) == Pending(c) /\ CutoffPassed(segment[c], now)

(* The frame that would end the segment is not there to give it an image.  *)
WaitsForImage(c) ==
  segment[c] # NoSegment /\ ~segment[c].has_frame /\ view[c] = "lost"

(* A segment does not stay overdue for ever: one whose cutoff has passed   *)
(* ends or is extended, whatever audio and late frames do to it, unless    *)
(* its camera shows activity again and again (of either severity: update_  *)
(* existing_segment looks at the cutoffs only when a frame has none), or   *)
(* the segment has no image and its camera's frames keep being gone. One   *)
(* that has its image ends whether or not the frames are there.            *)
OverdueSegmentsEnd ==
  \A c \in Cameras :
    \/ []<>~Overdue(c)
    \/ []<>(view[c] = "busy")
    \/ []<>WaitsForImage(c)
=============================================================================
