CONSTANTS
    A = A
    B = B
    c1 = c1
    c2 = c2
    c3 = c3
    NoConn = NoConn
    NoLine = NoLine
    Lines <- TwoLines
    Conns <- ThreeConns
    Kind <- ClientSerial
    Peers <- Routed
    Morph <- ToProto
    MaxSline = 2
    MaxSends = 1
    MaxInits = 2
    MaxComplaints = 1
    MaxResets = 2
    MayShutdown = TRUE

SPECIFICATION Spec
SYMMETRY ConnSymmetry
INVARIANTS OneConnectionPerOpen ServedWhileConnected
CHECK_DEADLOCK FALSE
