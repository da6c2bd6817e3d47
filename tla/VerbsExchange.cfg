\* Every program, three bytes a message at overlapping positions. Only the
\* programs that poll a message's bytes run on adapters that place it in order.
CONSTANTS
    Names = {"runConnected", "runUnconnected", "runWriteMemPolling",
             "runParanoidWriteMemPolling", "runWriteWithImm", "runRead", "runReadPolling",
             "runImmData", "runChainedWrs", "runPostedWrs", "runDoublePollingWrs",
             "runImmDataBaseline", "bigBuffer", "bigBufferSIMD", "bigBufferSSE",
             "exclusiveBuffer", "exclusiveBufferSIMD", "exclusiveBufferSSE", "exclusiveBufferPCMP"}
    Ordered = {"runWriteMemPolling", "runReadPolling", "runDoublePollingWrs"}
    DataSize = 3
    Positions = {0, 2}
    Rounds = 3
    MaxTries = 1
SPECIFICATION FairSpec
INVARIANTS TypeOK EchoIsCurrent MessageStableWhileRead NothingSwallowedOrThrown PollFindsArmedSlot
PROPERTIES ExchangeEnds
