SPECIFICATION FairSpec
\* the bounded environment may stop for ever
CHECK_DEADLOCK FALSE
CONSTANTS
    r1 = r1  r2 = r2  c1 = c1  c2 = c2  NULL = NULL
    Names = {r1, r2}
    Codes = {c1}
    Configs <- ConfigsSame
    FileStates = {"good", "missing"}
    Repeats <- Once
    DecodeWaits = FALSE
    HupWindows = {"hupclear"}
    MaxReloads = 2
    MaxSends = 1
PROPERTIES
    ReReadOnHup
