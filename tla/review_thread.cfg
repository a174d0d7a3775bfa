SPECIFICATION Spec
CONSTANTS
  Cameras = {front}
  Events = {e1}
  Labels <- MCLabels
  AlertLabels <- MCAlertLabels
  DetectionLabels <- MCDetectionLabels
  EveryLabelDetects = FALSE
  Scenes <- QuietScenes
  Sounds = {}
  Durations = {1}
  PlateEvents = FALSE
  AlertCutoff = 1
  DetectionCutoff = 1
  Forever = 99
  MaxTime = 4
  MaxLag = 0
  MaxSegments = 2
  NoSegment = NoSegment
  Settable = {}
  Crashes = FALSE
INVARIANTS
  ThreadSurvives
