SPECIFICATION WatchedSpec
CONSTANTS
  Cameras = {front}
  Events = {}
  Labels <- MCLabels
  AlertLabels <- MCAlertLabels
  DetectionLabels <- MCDetectionLabels
  EveryLabelDetects = TRUE
  Scenes <- LateScenes
  Sounds <- MCSounds
  Durations = {2}
  PlateEvents = TRUE
  AlertCutoff = 2
  DetectionCutoff = 1
  Forever = 99
  MaxTime = 3
  MaxLag = 1
  MaxSegments = 2
  NoSegment = NoSegment
  Settable = {"enabled", "known"}
  Crashes = FALSE
INVARIANTS
  TypeOK
PROPERTIES
  EndedItemsAreFinal
  CutoffEndsInThePast
  OverdueSegmentsEnd
