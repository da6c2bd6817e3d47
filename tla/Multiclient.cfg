\* Three clients of two threads, in two vectors of doorbells; answers inline and
\* not, requests and answers too large for the receiver's buffer or a message.
CONSTANTS
    Transports = {"Doorbells", "Recv", "Direct"}
    NumClients = 3
    NumThreads = 2
    Sizes = {1, 2, 3}
    InlineLimit = 4
    LargeAlone = TRUE
    Window = 2
    MaxMessage = 4
    MaxRequest = 4
    RecvSizes = {1, 3}
    Torn = FALSE
    TornRequests = FALSE
    MaxRequests = 2
    MaxClients = 4
    Group = 2
    Byte = 4
SPECIFICATION FairSpec
INVARIANTS TypeInvariant RequestsTakenOnce AnswersMatchRequests RecvsReady
PROPERTIES RequestsAnswered
CHECK_DEADLOCK FALSE
