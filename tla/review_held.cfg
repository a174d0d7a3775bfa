SPECIFICATION Spec
CONSTANTS
  Cameras = {front}
  Events = {e1, e2}
  Labels <- MCLabels
  AlertLabels <- MCAlertLabels
  DetectionLabels <- MCDetectionLabels
  EveryLabelDetects = FALSE
  Scenes <- QuietScenes
  Sounds <- OneSound
  Durations = {1}
  PlateEvents = TRUE
  AlertCutoff = 1
  DetectionCutoff = 1
  Forever = 99
  MaxTime = 2
  MaxLag = 0
  MaxSegments = 2
  NoSegment = NoSegment
  Settable = {"enabled"}
  Crashes = TRUE
SYMMETRY EventSymmetry
INVARIANTS
  OpenItemIsPending
  IndefiniteEventsHold
PROPERTIES
  TimelineSpec
