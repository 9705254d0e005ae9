SPECIFICATION Spec
CONSTANTS
    t1 = t1  t2 = t2  t3 = t3  s1 = s1  s2 = s2
    NoSock = NoSock
    Threads = {t1, t2, t3}
    Calls <- CallSet
    Pool = 2
    SpawnSize = 4
    Buffers = 3
    MaxCalls = 3
INVARIANTS NoFault PoolSound UnreadIsRead PendingBehindActive NeverStuck
CHECK_DEADLOCK FALSE
