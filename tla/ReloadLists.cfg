SPECIFICATION Spec
\* the bounded environment may stop for ever
CHECK_DEADLOCK FALSE
CONSTANTS
    r1 = r1  r2 = r2  c1 = c1  c2 = c2  NULL = NULL
    Names = {r1, r2}
    Codes = {c1, c2}
    Configs <- ConfigsAll
    FileStates = {"good", "bad", "missing"}
    Repeats <- Two
    DecodeWaits = TRUE
    HupWindows = {"hupclear", "alarm"}
    MaxReloads = 2
    MaxSends = 1
INVARIANTS
    ListsAccounted
    RepeatLive
PROPERTIES
    RepeatKeepsRemote
