SPECIFICATION Spec
\* the bounded user may stop for ever, and the program may crash
CHECK_DEADLOCK FALSE
CONSTANTS
    rc = rc  a = a  b = b  prog = prog  other = other  tv = tv  web = web
    NULL = NULL  LIRC_ALL = LIRC_ALL
    Remotes = {rc}
    Buttons = {a, b}
    Names = {prog, other, tv, web}
    lirc_prog = prog
    Files <- FilesRead
    Disks <- AllDisks
    MAX_INCLUDES = 2
    Rejected <- RefusedStrings
    SetModes = {NULL, web}
    MaxCodes = 6
    MaxRep = 2
INVARIANTS
    SequenceTracksPresses
    NothingAfterQuit
    OncePerMode
    ReadAsMeant
