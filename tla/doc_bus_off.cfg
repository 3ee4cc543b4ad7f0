SPECIFICATION FairSpec
CONSTANTS
    NoMessage = NoMessage
    NoFrame = NoFrame
    NoRequest = NoRequest
    Ids <- MCIds
    Data <- MCData
    ElementDataSize = 8
    RxBufferNum = 4
    StdFilterNum = 2
    ExtFilterNum = 2
    Messages = {m1}
    BusFrames <- NoFrames
    FilterRequests <- NoRequests
    ClientCalls = {"send"}
    ProtocolFlags = {}
    FifoSize = 2

PROPERTY BusOffRecovers
