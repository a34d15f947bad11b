\* Two clients command the same object, an operation fails.
SPECIFICATION Spec
CONSTANTS
    ip1 = ip1
    ip2 = ip2
    IPs = {ip1, ip2}
    Ports = {p1}
    Conns = {c1, c2}
    None = None
    RedGroups <- TwoGroups
    MaxRedGroups = 2
    Keys = {k1}
    CmdExecTimeout = 0
    MaxCmds = 2
    MaxAnswers = 4
    OperationMayFail = TRUE
SYMMETRY Symmetry
PROPERTIES
    RefusedIsNotAnswered
