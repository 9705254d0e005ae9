SPECIFICATION FairSpec
CONSTANTS
    c1 = c1  c2 = c2
    NoConn = NoConn
    Conns = {c1, c2}
    Discard = {1}
    Fatal = {4}
    MaxTopic = 4
    MaxWeb = 1
INVARIANTS AtMostOnce InOrder
PROPERTIES SentToAllWhoStay MessagesGetAcross
CHECK_DEADLOCK FALSE
