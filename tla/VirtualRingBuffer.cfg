\* One direction. Callers never have more than the buffer's size in flight.
CONSTANTS
    Size = 4
    Word = 16
    MaxBytes = 9
    Lengths = {1, 2, 3, 4}
    Senders = {"client"}
    Garbage = {0, 3, 8, 15}
    MaxUnread = 4
SPECIFICATION FairSpec
INVARIANTS TypeOK UnreadBytesIntact ReceivesStreamInOrder
PROPERTIES ImplementsStreams SendReturns ReceiveSomeReturns
CHECK_DEADLOCK FALSE
