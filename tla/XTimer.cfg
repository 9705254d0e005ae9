SPECIFICATION Spec
CONSTANTS
    Timers = {t1, t2}
    Nil = Nil
    Turn = 6
    Offsets <- MCOffsets
    Turns <- MCTurns
    Overhead = 1
    Backoff = 3
    IsrBackoff = 2
    Latency = 3
    MaxTurns = 3
    PastEdges = FALSE
INVARIANTS ListSound NotOverdue WrongOnlyAfterEdge
CHECK_DEADLOCK FALSE
