SPECIFICATION FairSpec
\* the loop may wait for ever once the bounded environment has stopped
CHECK_DEADLOCK FALSE
CONSTANTS
    r1 = r1  r2 = r2  c1 = c1  c2 = c2  NULL = NULL
    Fds = {3, 4}
    MaxClients = 2
    Remotes = {r1, r2}
    Codes = {c1, c2}
    MinRepeat <- MinRepeat20
    Links <- TwoLinks
    Xmp = {r2}
    RepeatMax = 3
    Commands <- CommandsCount
    Listening = {"CT_REMOTE"}
    Pipelining = FALSE
    Hangups = TRUE
    FullSockets = FALSE
    Terminations = FALSE
    InitMayFail = FALSE
    SendMayFail = TRUE
    SignalWindows = FALSE
    MaxConns = 2
    MaxCmds = 1
    MaxEvents = 1
    MaxHups = 0
INVARIANTS
    RepeatAccounting
PROPERTIES
    MinRepeatHonoured
    EveryCommandAnswered
