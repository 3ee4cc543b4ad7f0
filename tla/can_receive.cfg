SPECIFICATION FairSpec
CONSTANTS
    NoMessage = NoMessage
    NoFrame = NoFrame
    NoRequest = NoRequest
    Ids <- MCIds
    Data <- MCData
    ElementDataSize = 8
    RxBufferNum = 4
    StdFilterNum = 2
    ExtFilterNum = 2
    Messages = {m1}
    BusFrames <- Responses
    FilterRequests <- Response
    ClientCalls = {"send", "filter"}
    ProtocolFlags = {}
    FifoSize = 2
INVARIANTS
    ReadIsCurrent
    NoStrandedBuffer
PROPERTIES
    ImplementsSlots
    EveryBufferIsRead
