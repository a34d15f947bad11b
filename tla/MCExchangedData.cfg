\* A master, two stations and an unknown CA between them; every command; readings
\* for addresses that are not configured.
SPECIFICATION EDSpec
CONSTANTS
    Conns = {c1}
    CAs = {1, 2, 3}
    IOAs = {1, 2, 3, 4, 5, 6, 7, 8, 9, 10}
    BroadcastCA = 65535
    QOIs = {19, 20, 21}
    Commands <- AllCommands
    Readings <- UnknownAndMissing
    DataPoints <- TwoStations
    MaxElements = 2
    AllowCmdWithTime = TRUE
    AllowCmdWithoutTime = FALSE
    CmdRecvTimeout = 5
    MsPerSecond = 2
    IntRange = 64
INVARIANTS
    EDTypeOK
    BroadcastReachesAll
    InterrogationIsComplete
    AsdusAreWellFormed
    CommandsFollowConfiguration
