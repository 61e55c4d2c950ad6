\* An answer that comes after the user has gone elsewhere.
CONSTANTS
    MaxChanges = 2
    MaxFetches = 2
    MaxMoves = 4
    MaxFaults = 1
    MaxDialogs = 1
    NoEntry = NoEntry
    NotRead = NotRead
    Gone = Gone
    Failed = Failed
SPECIFICATION Spec
PROPERTY DiscardsOnlyWhenAsked
\* The user may stop.
CHECK_DEADLOCK FALSE
