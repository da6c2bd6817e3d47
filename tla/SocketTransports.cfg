\* Messages larger than what the sockets of the single-client transports buffer;
\* two clients of the multi-client server, whose sockets can hold a message.
CONSTANTS
    Kinds = {"Tcp", "DomainSockets", "MulticlientTCP"}
    NumClients = 2
    DataSize = 3
    SmallCapacity = 2
    WholeCapacity = 3
    Capacity <- BufferOf
    MaxTries = 1
    Rounds = 2
SPECIFICATION Spec
INVARIANTS TypeOK ReadsWholeMessages
PROPERTIES ExchangesEnd
CHECK_DEADLOCK FALSE
