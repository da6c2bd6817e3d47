\* Inline messages sent as fast as the ring allows; it holds several signaling
\* windows of them.
CONSTANTS
    Size = 16
    MaxInline = 4
    Window = 2
    PayloadLens = {2}
    RecvSizes = {2}
    Variants = {"send", "RDMAMessageBuffer"}
    AnyOrder = {}
    MaxUnread = 100
    MaxSends = 9
SPECIFICATION FairMessageSpec
INVARIANTS AcceptsWholeMessages SendQueueBounded
PROPERTIES SendReturns MessagesConsumed
CHECK_DEADLOCK FALSE
