\* Messages above the inline limit streamed, short ones and ones that fill the
\* ring, as the chunks of RdmaTransport do: the next one is built before the
\* adapter has fetched the previous ones.
CONSTANTS
    Size = 8
    MaxInline = 2
    Window = 4
    PayloadLens = {2, 6}
    RecvSizes = {6}
    Variants = {"send"}
    AnyOrder = {}
    MaxUnread = 100
    MaxSends = 6
SPECIFICATION MessageSpec
INVARIANTS AcceptsWholeMessages
CHECK_DEADLOCK FALSE
