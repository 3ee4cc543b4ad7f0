SPECIFICATION FwSpec
CONSTANTS
    NoMessage = NoMessage
    NoFrame = NoFrame
    NoRequest = NoRequest
    Ids <- MCIds
    Data <- MCData
    SelfId = "self"
    Messages <- MCMessages
    FilterRequests <- MCRequests
    ClientCalls = {"send", "filter"}
    CmdIds <- MCCmdIds
    ElementDataSize = 8
    RxBufferNum = 4
    StdFilterNum = 2
    ExtFilterNum = 2
    FifoSize = 2
    Keys = {0}
    BusFrames <- NoFrames
    ProtocolFlags = {}
    CounterModulus = 1
INVARIANT AcceptedIsRequested
