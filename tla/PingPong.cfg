\* Messages that fit the buffer, and one that is cut into chunks.
CONSTANTS
    Size = 4
    Word = 16
    MaxBytes = 14
    Lengths = {1, 2, 3, 4}
    Senders = {"client", "server"}
    Garbage = {0, 5, 14}
    MaxUnread = 15
    DataSizes = {1, 3, 4, 7}
    Rounds = 2
SPECIFICATION AppSpec
INVARIANTS QuietBetweenPings EchoesMatch
PROPERTIES RespectsBuffer PingsComplete
CHECK_DEADLOCK FALSE
