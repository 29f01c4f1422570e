CONSTANTS
    RemoteList <- MCRemoteList
    CodesOf <- MCCodesOf
    RepeatMax = 3
    SendMode = TRUE
    TxMax = 2
    AllowSimulate = TRUE
    Writable = {"f"}
    DriverOptions = {"k"}
    RcSlots = 2
    StartConfig <- MCStartConfig
    Engine <- MCEngine
    Clients = {"a", "b", "c"}
    Scenes <- MCRelayingRemote
    Daemons = {1, 2}
    MaxFailures = 2
SPECIFICATION Spec
INVARIANT RelayedLocally
