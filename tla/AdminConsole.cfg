\* Two changes of the user, two requests outstanding, three moves, one refusal.
CONSTANTS
    MaxChanges = 2
    MaxFetches = 2
    MaxMoves = 3
    MaxFaults = 1
    MaxDialogs = 1
    NoEntry = NoEntry
    NotRead = NotRead
    Gone = Gone
    Failed = Failed
SPECIFICATION LiveSpec
INVARIANTS TypeOK GuardsEdits ShowsOwnChanges
PROPERTY LoadingEnds
\* The user may stop.
CHECK_DEADLOCK FALSE
