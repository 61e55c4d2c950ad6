\* Two policy writes, and two faults at any points of the refreshes between.
CONSTANTS
    Plugins = {p1}
    MaxRev = 2
    MaxFaults = 2
SPECIFICATION FairSpec
INVARIANTS TypeOK VersionImpliesInSync
PROPERTIES NoRollback EventuallyInSync
CHECK_DEADLOCK FALSE
