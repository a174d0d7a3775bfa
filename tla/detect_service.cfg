SPECIFICATION FairSpec
CONSTANTS
  Cameras = {c1}
  Detectors = {d1, d2}
  NoCamera = NoCamera
  Nobody = Nobody
  MaxRequests = 2
INVARIANTS
  TypeOK
  FreshUntilLate
  InputUntouchedUntilLate
PROPERTIES
  CallsReturn
  HangsEnd
CHECK_DEADLOCK FALSE
