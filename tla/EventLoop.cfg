CONSTANTS
    s1 = s1
    s2 = s2
    s3 = s3
    Slots = 2
    Socks <- ThreeSocks
    MaxIps = 3
    MaxCloses = 1
    MaxErrors = 1
SPECIFICATION Spec
SYMMETRY SockSymmetry
INVARIANTS NoLostWakeup OneSession SocketsAccounted KeepsTryingUnlessStale OneRetryAtATime
PROPERTIES ClosedOutsideSelect
CHECK_DEADLOCK FALSE
