\* Four events in batches of at most two, two failing calls and two crashes.
CONSTANTS
    MaxEvents = 4
    MaxBatch = 2
    MaxFaults = 2
    MaxCrashes = 2
    ConsumerParses = TRUE
SPECIFICATION Spec
INVARIANTS TypeOK NoSilentLoss
PROPERTIES ResendsAtMostOneLine ImplementsAuditSpool
\* A stopped spool, or one that has seen all its events, has nothing left to do.
CHECK_DEADLOCK FALSE
