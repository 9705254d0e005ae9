SPECIFICATION Spec
CONSTANTS
    Radix = 8
    START = 6
    END = 5
    NL = 2
    TxSize = 40
    RxSize = 40
    AckType = 3
    Unanswered <- NoTypes
    UpStreams <- BoardLong
    UpLossy <- None
    DownStreams <- Silence
    DownLossy <- None
INVARIANTS StartMarksPacket
CHECK_DEADLOCK FALSE
