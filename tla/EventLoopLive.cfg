CONSTANTS
    s1 = s1
    s2 = s2
    s3 = s3
    Slots = 2
    Socks <- ThreeSocks
    MaxIps = 1
    MaxCloses = 2
    MaxErrors = 1
SPECIFICATION FairSpec
PROPERTIES Reconnects
CHECK_DEADLOCK FALSE
