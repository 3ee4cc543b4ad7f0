SPECIFICATION Spec
CONSTANTS
    NoMessage = NoMessage
    NoFrame = NoFrame
    NoRequest = NoRequest
    Ids <- MCIds
    Data <- MCData
    ElementDataSize = 8
    RxBufferNum = 4
    StdFilterNum = 2
    ExtFilterNum = 2
    Messages = {m1, m2}
    BusFrames <- NoFrames
    FilterRequests <- NoRequests
    ClientCalls = {"send", "stop", "start"}
    ProtocolFlags = {"ACKE", "FOE"}
    FifoSize = 2
INVARIANTS
    PendingIsWhole
    StartHangsOnlyByBusOff
PROPERTIES
    ImplementsMailbox
CHECK_DEADLOCK FALSE
