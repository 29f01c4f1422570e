SPECIFICATION Spec
CONSTANTS
  resolution = 0
  dyncodes = FALSE
  RBUF_SIZE = 14
  WBUF_SIZE = 60
  Files <- MCFiles
  MaxPresses = 2
  MaxFrames = 3
  Idle = 400000
  Waits = {"plain", "lircd", "file"}
  Noises <- MCNoises
INVARIANTS AllDecoded GapsAgree
PROPERTY ReceiverAdvances
CHECK_DEADLOCK FALSE
