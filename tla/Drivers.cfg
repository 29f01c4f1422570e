CONSTANTS
  Fds <- MCFds
  Scenes <- MCScenes
  MaxRepeatCount = 3
  MaxOut = 6
SPECIFICATION Spec
INVARIANTS
  Framed
  OwnFd
  NothingLeaks
PROPERTY
  Reopened
