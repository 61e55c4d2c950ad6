\* One destination without summaries, and a host that goes on logging.
CONSTANTS
    Loggers = {t1}
    d1 = d1
    d2 = d2
    k1 = k1
    k2 = k2
    Names = {k1, k2}
    Setups <- MCSetups
    AsyncSize = 2
    SummarySize = 1
    BatchSize = 2
    Throws = FALSE
    MaxEvents = 2
SPECIFICATION FairSpec
PROPERTY HookEnds
CHECK_DEADLOCK FALSE
