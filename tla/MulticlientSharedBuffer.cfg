\* Answers too long to be inline are fetched from the one sendBuffer of all
\* connections.
CONSTANTS
    Transports = {"Doorbells", "Recv", "Direct"}
    NumClients = 2
    NumThreads = 2
    Sizes = {1, 2}
    InlineLimit = 3
    LargeAlone = FALSE
    Window = 4
    MaxMessage = 4
    MaxRequest = 3
    RecvSizes = {2}
    Torn = FALSE
    TornRequests = FALSE
    MaxRequests = 1
    MaxClients = 2
    Group = 2
    Byte = 4
SPECIFICATION Spec
INVARIANTS AnswersMatchRequests
CHECK_DEADLOCK FALSE
