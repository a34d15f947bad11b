\* One master and an unknown CA.
SPECIFICATION EDSpec
CONSTANTS
    Conns = {c1}
    CAs = {1, 2, 3}
    IOAs = {1, 2, 3, 4, 5, 6, 7, 8, 9, 10}
    BroadcastCA = 65535
    QOIs = {20}
    Commands <- GoodCommands
    Readings <- Unknown
    DataPoints <- TwoStations
    MaxElements = 2
    AllowCmdWithTime = TRUE
    AllowCmdWithoutTime = TRUE
    CmdRecvTimeout = 5
    MsPerSecond = 2
    IntRange = 64
INVARIANTS
    UnknownCAIsRefused
