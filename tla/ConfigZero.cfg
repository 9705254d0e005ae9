SPECIFICATION Spec
CONSTANTS
    Threads <- MCThreads
    Urgency <- MCUrgency
    Handlers <- MCHandlers
    Versions = {v1, v2}
    Addresses = {a1, a2}
    None = None
    Torn = Torn
    MaxCalls = 3
    MaxFailures = 0
    MaxResets = 1
PROPERTY ZeroWithoutFile
CHECK_DEADLOCK FALSE
