CONSTANTS
    A = A
    B = B
    c1 = c1
    c2 = c2
    c3 = c3
    NoConn = NoConn
    NoLine = NoLine
    Lines <- TwoLines
    Conns <- ThreeConns
    Kind <- TwoServers
    Peers <- Routed
    Morph <- NoMorph
    MaxSline = 255
    MaxSends = 1
    MaxInits = 1
    MaxComplaints = 0
    MaxResets = 1
    MayShutdown = FALSE

SPECIFICATION FairSpec
PROPERTIES BroadcastDelivered RouterSpec
CHECK_DEADLOCK FALSE
