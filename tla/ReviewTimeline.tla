--------------------------- MODULE ReviewTimeline ---------------------------
(***************************************************************************)
(* What the review maintainer promises to everything that reads review     *)
(* items (the database, the web UI, MQTT): a camera has one item in        *)
(* progress at most, an item that has ended stays as it is, and the items  *)
(* a dead maintainer left open are closed before a new one is opened.      *)
(* ReviewSegments implements this specification.                           *)
(***************************************************************************)
EXTENDS Integers

CONSTANTS
  Cameras,       \* names of cameras
  MaxSegments    \* bound: items per camera

VARIABLE items   \* items[c][i]: what is stored of the i-th item of camera c

SegmentIds == 1..MaxSegments
ItemStates == {"absent", "open", "ended"}

TimelineTypeOK == items \in [Cameras -> [SegmentIds -> ItemStates]]

TimelineInit == items = [c \in Cameras |-> [i \in SegmentIds |-> "absent"]]

OpenItems(c) == {i \in SegmentIds : items[c][i] = "open"}

(* An item appears, and the camera had none in progress. *)
OpenItem(c, i) ==
  /\ items[c][i] = "absent"
  /\ OpenItems(c) = {}
  /\ items' = [items EXCEPT ![c][i] = "open"]

(* An item ends: the one in progress, or one nobody had heard of. *)
EndItem(c, i) ==
  /\ items[c][i] # "ended"
  /\ OpenItems(c) \subseteq {i}
  /\ items' = [items EXCEPT ![c][i] = "ended"]

(* A new maintainer closes whatever the last one left open. *)
Recover ==
  items' = [c \in Cameras |->
              [i \in SegmentIds |->
                 IF items[c][i] = "open" THEN "ended" ELSE items[c][i]]]

TimelineNext ==
  \/ \E c \in Cameras, i \in SegmentIds : OpenItem(c, i) \/ EndItem(c, i)
  \/ Recover

TimelineSpec == TimelineInit /\ [][TimelineNext]_items
=============================================================================
