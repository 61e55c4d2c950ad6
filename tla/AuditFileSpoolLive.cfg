\* The destination takes the lines as they are, torn ones too.
CONSTANTS
    MaxEvents = 4
    MaxBatch = 2
    MaxFaults = 1
    MaxCrashes = 1
    ConsumerParses = FALSE
SPECIFICATION LiveSpec
PROPERTY EventuallySent
CHECK_DEADLOCK FALSE
