\* The instance of MCConfiguration.cfg, for gi_groups that are no string.
SPECIFICATION CFSpec
CONSTANTS
    Configurations <- AllConfigurations
INVARIANTS
    DefaultsToStation
CHECK_DEADLOCK FALSE
