\* Inline messages and messages that the adapter fetches after posting, in both
\* variants, from a caller with at most a ring of words unread.
CONSTANTS
    Size = 8
    MaxInline = 3
    Window = 2
    PayloadLens = {0, 2, 4, 7}
    RecvSizes = {2, 6}
    Variants = {"send", "sendParanoid", "RDMAMessageBuffer"}
    AnyOrder = {"sendParanoid"}
    MaxUnread = 8
    MaxSends = 4
SPECIFICATION MessageSpec
INVARIANTS TypeOK AcceptsWholeMessages FreeRingIsZero ReadPosIsLowerBound
CHECK_DEADLOCK FALSE
