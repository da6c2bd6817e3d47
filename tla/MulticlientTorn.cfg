\* A client that polls while the adapter places an answer: the validity byte of
\* an earlier answer is still there.
CONSTANTS
    Transports = {"Doorbells", "Recv", "Direct"}
    NumClients = 2
    NumThreads = 2
    Sizes = {1, 2}
    InlineLimit = 9
    LargeAlone = FALSE
    Window = 4
    MaxMessage = 4
    MaxRequest = 4
    RecvSizes = {2}
    Torn = TRUE
    TornRequests = FALSE
    MaxRequests = 2
    MaxClients = 2
    Group = 2
    Byte = 4
SPECIFICATION Spec
INVARIANTS AnswersMatchRequests
CHECK_DEADLOCK FALSE
