\* Small configurations with every kind of mistake.
SPECIFICATION CFSpec
CONSTANTS
    Configurations <- AllConfigurations
INVARIANTS
    CFTypeOK
    ImportedAsConfigured
    PointsAreUsable
    GroupsAreNumbered
    TlsIsNotDropped
CHECK_DEADLOCK FALSE
