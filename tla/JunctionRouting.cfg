CONSTANTS
    A = A
    B = B
    c1 = c1
    c2 = c2
    c3 = c3
    NoConn = NoConn
    NoLine = NoLine
    Lines <- TwoLines
    Conns <- ThreeConns
    Kind <- TwoServers
    Peers <- Routed
    Morph <- ToProto
    MaxSline = 255
    MaxSends = 3
    MaxInits = 1
    MaxComplaints = 0
    MaxResets = 0
    MayShutdown = FALSE

SPECIFICATION Spec
SYMMETRY ConnSymmetry
INVARIANTS TypeOK ReplyReachesRequester
PROPERTIES RouterSpec
CHECK_DEADLOCK FALSE
