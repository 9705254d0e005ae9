CONSTANTS
    s1 = s1
    s2 = s2
    s3 = s3
    Slots = 2
    Socks <- ThreeSocks
    MaxIps = 2
    MaxCloses = 0
    MaxErrors = 0
SPECIFICATION Spec
INVARIANTS KeepsTrying
CHECK_DEADLOCK FALSE
