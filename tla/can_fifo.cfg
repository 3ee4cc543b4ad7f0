SPECIFICATION Spec
CONSTANTS
    NoMessage = NoMessage
    NoFrame = NoFrame
    NoRequest = NoRequest
    Ids <- MCIds
    Data <- MCData
    ElementDataSize = 8
    RxBufferNum = 4
    StdFilterNum = 2
    ExtFilterNum = 2
    Messages = {}
    BusFrames <- FifoFrames
    FilterRequests <- BothFifos
    ClientCalls = {"filter"}
    ProtocolFlags = {"FOE"}
    FifoSize = 3
INVARIANTS
    TypeOK
PROPERTIES
    FifoInStep
