SPECIFICATION Spec
CONSTANTS
    Radix = 8
    START = 6
    END = 5
    NL = 2
    TxSize = 40
    RxSize = 40
    AckType = 3
    Unanswered <- NoTypes
    UpStreams <- UpAll
    UpLossy <- UpLoss
    DownStreams <- DownAll
    DownLossy <- DownLoss
INVARIANTS StreamIsDemultiplexed NothingHeldBack PacketsDecode HandledAsSent LossIsLocal RoundTrip
CHECK_DEADLOCK FALSE
