SPECIFICATION NwFairSpec
CONSTANTS
    NoMessage = NoMessage
    NoFrame = NoFrame
    NoRequest = NoRequest
    Ids <- MCIds
    Data <- MCData
    SelfId = "self"
    Messages <- MCMessages
    FilterRequests <- MCRequests
    ClientCalls = {"send", "filter"}
    CmdIds <- MCCmdIds
    ElementDataSize = 8
    RxBufferNum = 4
    StdFilterNum = 2
    ExtFilterNum = 2
    FifoSize = 2
    Keys = {2, 6, 7}
    BusFrames <- NoFrames
    ProtocolFlags = {}
    CounterModulus = 1
INVARIANTS
    ExecutedIsObeyed
PROPERTIES
    CallsReturn
    MainReturns
    SwitchTakesEffect
