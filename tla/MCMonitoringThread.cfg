\* Two south plugins, either mode, every combination of faults.
SPECIFICATION MTFairSpec
CONSTANTS
    Plugins = 2
    Faults = {"late control", "failing operation", "failing start"}
INVARIANTS
    MTTypeOK
    SlaveOutlivesThread
    ToldOncePerStart
PROPERTIES
    ServerFollowsMode
    SouthIsTold
CHECK_DEADLOCK FALSE
