\* Five events, batches of two, a queue of three, refusals and an exception.
CONSTANTS
    MaxEvents = 5
    MaxQueue = 3
    MaxBatch = 2
    Threshold = 80
    SpoolEnabled = TRUE
    MaxFaults = 2
    MaxThrows = 1
SPECIFICATION LiveSpec
INVARIANTS TypeOK DrainedBeforeExit LosesAtMostOne
PROPERTIES InOrder WaitCompletes
CHECK_DEADLOCK FALSE
