\* One connection, one command, which may fail; starts may fail too, and the
\* operation callback may be registered late.
SPECIFICATION ServerFairSpec
CONSTANTS
    ip1 = ip1
    IPs = {ip1}
    Ports = {p1}
    Conns = {c1}
    None = None
    RedGroups <- OneConnection
    MaxRedGroups = 1
    Keys = {k1}
    CmdExecTimeout = 0
    MaxCmds = 1
    MaxAnswers = 2
    OperationMayFail = TRUE
    Plugins = 1
    Faults = {"failing start", "late control"}
INVARIANTS
    StopLeavesNothing
PROPERTIES
    CommandsEnd
    StopEnds
CHECK_DEADLOCK FALSE
