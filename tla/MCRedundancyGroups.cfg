\* Clients connect as they like.
SPECIFICATION RGSpec
CONSTANTS
    ip1 = ip1
    ip2 = ip2
    ip3 = ip3
    IPs = {ip1, ip2, ip3}
    Ports = {p1, p2, p3}
    Conns = {c1, c2, c3}
    None = None
    RedGroups <- SharedAddress
    MaxRedGroups = 2
SYMMETRY Symmetry
INVARIANTS
    RGTypeOK
    SlotsFollowConnections
    PathAuditsAreTrue
    GlobalLossIsReported
    EveryConnectionIsBound
    ActiveIsReported
PROPERTIES
    LossIsTrueForKept
    PassiveBeforeActive
