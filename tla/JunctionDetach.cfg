CONSTANTS
    A = A
    B = B
    c1 = c1
    c2 = c2
    c3 = c3
    NoConn = NoConn
    NoLine = NoLine
    Lines <- TwoLines
    Conns <- ThreeConns
    Kind <- ServerClient
    Peers <- Routed
    Morph <- NoMorph
    MaxSline = 255
    MaxSends = 0
    MaxInits = 1
    MaxComplaints = 0
    MaxResets = 0
    MayShutdown = TRUE

SPECIFICATION Spec
PROPERTIES DetachedStaysClosed
CHECK_DEADLOCK FALSE
