SPECIFICATION Spec
CONSTANTS
    c1 = c1  c2 = c2
    NoConn = NoConn
    Conns = {c1, c2}
    Discard = {}
    Fatal = {}
    MaxTopic = 1
    MaxWeb = 0
PROPERTIES SentToAll
CHECK_DEADLOCK FALSE
