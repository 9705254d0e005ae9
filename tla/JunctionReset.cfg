CONSTANTS
    A = A
    B = B
    c1 = c1
    c2 = c2
    c3 = c3
    NoConn = NoConn
    NoLine = NoLine
    Lines <- TwoLines
    Conns <- ThreeConns
    Kind <- ServerClient
    Peers <- Routed
    Morph <- NoMorph
    MaxSline = 2
    MaxSends = 0
    MaxInits = 1
    MaxComplaints = 0
    MaxResets = 1
    MayShutdown = FALSE

SPECIFICATION Spec
SYMMETRY ConnSymmetry
INVARIANTS LostIsReplaced
CHECK_DEADLOCK FALSE
