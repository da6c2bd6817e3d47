\* Callers that stream: more bytes than the buffer holds may be unread.
CONSTANTS
    Size = 4
    Word = 16
    MaxBytes = 9
    Lengths = {2, 4}
    Senders = {"client"}
    Garbage = {0, 8}
    MaxUnread = 15
SPECIFICATION Spec
INVARIANTS UnreadBytesIntact
CHECK_DEADLOCK FALSE
