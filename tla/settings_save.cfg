SPECIFICATION Spec
CONSTANTS
  detect = detect
  go2rtc = go2rtc
  c1 = c1
  c2 = c2
  NoCamera = NoCamera
  NoData = NoData
  NoJob = NoJob
  Nobody = Nobody
  Keys <- MCKeys
  Go2rtc = go2rtc
  Pages <- MCPages
  PageOf <- MCPageOf
  Cameras = {c1, c2}
  CameraOf <- MCCameraOf
  Values = {0, 1}
  Default <- MCDefault
  Slots = {s1, s2}
  s1 = s1
  s2 = s2
INVARIANTS TypeOK NothingIsLost StaleOnlyWhileWorking ButtonsAreNotStuck
SYMMETRY SlotSymmetry
