SPECIFICATION Spec
CONSTANTS
  c1 = c1
  NoCamera = NoCamera
  NoSource = NoSource
  NoFreeze = NoFreeze
  c2 = c2
  c3 = c3
  Cameras <- MCCameras
  Chunks <- MCChunks
  HasMain <- MCHasMain
  HasSub <- MCHasSub
  Codec <- MCCodec
  LowCodec <- MCLowCodec
  Bitrate <- MCBitrate
  Rates <- MCRates
  SlowStart = 12
  Stored = {0}
  HastyMoves = FALSE
  SeekGrace = 1
  SingleStall = 1
  GracedStall = 2
  CumulativeStall = 2
  StallWindow = 3
  Startup = 2
  MaxTime = 4
  PredictiveSamples = 2
  ProbeSamples = 1
  Pins <- MCPins
INVARIANTS TypeOK FreezesAreCut ChronicFreezesAreCut StartupIsCut
PROPERTIES UndecodableStaysLow AutomaticReturn
CHECK_DEADLOCK FALSE
