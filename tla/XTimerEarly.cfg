SPECIFICATION Spec
CONSTANTS
    Timers = {t1, t2}
    Nil = Nil
    Turn = 6
    Offsets <- MCOffsets
    Turns <- MCTurns
    Overhead = 1
    Backoff = 3
    IsrBackoff = 2
    Latency = 1
    MaxTurns = 3
    PastEdges = TRUE
INVARIANT NeverEarly
CHECK_DEADLOCK FALSE
