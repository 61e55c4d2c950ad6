\* Two events, of one key or of two, two threads that log, room for one event in
\* each queue.
CONSTANTS
    Loggers = {t1, t2}
    d1 = d1
    d2 = d2
    k1 = k1
    k2 = k2
    Names = {k1, k2}
    Setups <- MCSetups
    AsyncSize = 1
    SummarySize = 1
    BatchSize = 1
    Throws = TRUE
    MaxEvents = 2
SPECIFICATION FairSpec
INVARIANTS TypeOK AccountedOnce KeysInOrder ShutdownInTurn
PROPERTY ReachesAll
\* A halted JVM does nothing, and a stopped pipeline has nothing left to do.
CHECK_DEADLOCK FALSE
