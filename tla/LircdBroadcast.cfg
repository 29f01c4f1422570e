SPECIFICATION Spec
\* the loop may wait for ever once the bounded environment has stopped
CHECK_DEADLOCK FALSE
CONSTANTS
    r1 = r1  r2 = r2  c1 = c1  c2 = c2  NULL = NULL
    Fds = {3, 4}
    MaxClients = 2
    Remotes = {r1}
    Codes = {c1}
    MinRepeat <- MinRepeat1
    Links <- NoLinks
    Xmp = {}
    RepeatMax = 2
    Commands <- CommandsAll
    Listening = {"CT_LOCAL"}
    Pipelining = FALSE
    Hangups = TRUE
    FullSockets = TRUE
    Terminations = TRUE
    InitMayFail = FALSE
    SendMayFail = TRUE
    SignalWindows = TRUE
    MaxConns = 2
    MaxCmds = 1
    MaxEvents = 1
    MaxHups = 1
INVARIANTS
    AlarmHasRepeat
    HwMatchesUse
    TableMatchesSockets
