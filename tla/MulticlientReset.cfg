\* Requests whose size does not fit the byte that is reset.
CONSTANTS
    Transports = {"Direct"}
    NumClients = 2
    NumThreads = 2
    Sizes = {1, 2}
    InlineLimit = 9
    LargeAlone = FALSE
    Window = 4
    MaxMessage = 4
    MaxRequest = 4
    RecvSizes = {2}
    Torn = FALSE
    TornRequests = FALSE
    MaxRequests = 1
    MaxClients = 2
    Group = 2
    Byte = 2
SPECIFICATION Spec
INVARIANTS RequestsTakenOnce
CHECK_DEADLOCK FALSE
