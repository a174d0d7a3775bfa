SPECIFICATION Spec
CONSTANTS
  Cameras = {front}
  Events = {e1}
  Labels <- MCLabels
  AlertLabels <- MCAlertLabels
  DetectionLabels <- MCDetectionLabels
  EveryLabelDetects = FALSE
  Scenes <- MCScenes
  Sounds <- OneSound
  Durations = {2}
  PlateEvents = TRUE
  AlertCutoff = 1
  DetectionCutoff = 1
  Forever = 99
  MaxTime = 3
  MaxLag = 0
  MaxSegments = 2
  NoSegment = NoSegment
  Settable = {"alerts", "detections", "known"}
  Crashes = FALSE
INVARIANTS
  NoItemEndsAtForever
  AlertsCanEnd
