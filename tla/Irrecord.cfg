SPECIFICATION Spec
CONSTANTS
  resolution = 0
  dyncodes = FALSE
  MAX_INCLUDES = 2
  RBUF_SIZE = 60
  WBUF_SIZE = 60
  SAMPLES = 5
  MAX_SIGNALS = 40
  Cases <- MCCases
  Names = {"KEY_1", "KEY_2", "end"}
  BadNames = {"end"}
  TOGGLE_RETRIES = 3
  RETRIES = 2
  Idle = 700000
  HoldFrames = {2}
  MaxFrames = 2
  MaxNames = 3
  Noise <- MCNoise
INVARIANTS RecordedWorks ConvertedAlike ReadAsDefined RoundTrip UpdateKeeps
PROPERTY Ends
