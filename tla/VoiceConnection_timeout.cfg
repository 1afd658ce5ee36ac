\* Two connections of one voice_connection, one frame; connect may time out.
CONSTANTS
  FrameSize = 1
  MaxSamples = 1
  MaxConnects = 2
  MaxTracks = 2
SPECIFICATION Spec
PROPERTY ConnectReturns
CHECK_DEADLOCK FALSE
