\* One redundant client; operations may fail and connection
\* objects are used again.
SPECIFICATION Spec
CONSTANTS
    ip1 = ip1
    ip2 = ip2
    IPs = {ip1, ip2}
    Ports = {p1}
    Conns = {c1, c2}
    None = None
    RedGroups <- OneClient
    MaxRedGroups = 2
    Keys = {k1, k2}
    CmdExecTimeout = 0
    MaxCmds = 2
    MaxAnswers = 4
    OperationMayFail = TRUE
SYMMETRY Symmetry
INVARIANTS
    CPTypeOK
    CommandsOnLiveConnections
PROPERTIES
    FeedbackReachesItsCommand
    ActTermFollowsActCon
    KeepsDialogue
