-------------------------- MODULE MCReviewSegments --------------------------
(***************************************************************************)
(* ReviewSegments on small instances: one camera, a label of each kind.    *)
(***************************************************************************)
EXTENDS ReviewSegments, TLC

MCLabels == {"person", "dog", "bird"}
MCAlertLabels == {"person"}
MCDetectionLabels == {"dog"}

Object(l, a) == [label |-> l, active |-> a]

(* An active bird or dog or person, a person who does not move, nobody. *)
MCScenes == { {Object("bird", TRUE)}, {Object("person", FALSE)}, {},
              {Object("dog", TRUE)}, {Object("person", TRUE)} }

(* One frame of each category, where every label detects. *)
LateScenes == { {Object("person", FALSE)}, {Object("dog", TRUE)}, {Object("person", TRUE)} }

QuietScenes == { {}, {Object("dog", TRUE)} }
EmptyScenes == { {} }

MCSounds == { {"dog"}, {"person", "dog"} }
OneSound == { {"person"} }

(* Events are interchangeable. *)
EventSymmetry == Permutations(Events)
=============================================================================
