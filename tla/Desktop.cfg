CONSTANTS
  PACKET_SIZE = 5
  MaxEvents = 3
  CIRCLE = 10
  Missing = Missing
  TooLong = TooLong
  KeyCodes <- MCKeyCodes
  LircmdScenes <- MCLircmdScenes
  UinputScenes <- MCUinputScenes
SPECIFICATION Spec
CHECK_DEADLOCK FALSE
INVARIANTS
  NothingLost
  PointerFollows
  InactiveIsUp
  ReleasedWhenQuiet
