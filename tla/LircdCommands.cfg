SPECIFICATION Spec
\* the loop may wait for ever once the bounded environment has stopped
CHECK_DEADLOCK FALSE
CONSTANTS
    r1 = r1  r2 = r2  c1 = c1  c2 = c2  NULL = NULL
    Fds = {3, 4}
    MaxClients = 2
    Remotes = {r1}
    Codes = {c1}
    MinRepeat <- MinRepeat0
    Links <- NoLinks
    Xmp = {}
    RepeatMax = 2
    Commands <- CommandsSend
    Listening = {"CT_LOCAL"}
    Pipelining = FALSE
    Hangups = TRUE
    FullSockets = TRUE
    Terminations = FALSE
    InitMayFail = TRUE
    SendMayFail = FALSE
    SignalWindows = FALSE
    MaxConns = 3
    MaxCmds = 2
    MaxEvents = 0
    MaxHups = 0
INVARIANTS
    AnswersInOrder
    RepeatHasAlarm
