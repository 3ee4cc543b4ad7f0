SPECIFICATION TickerFairSpec
CONSTANTS
    CounterMax = 7
    BoardMck = 2300
    PeripheralMck = 1150
    Divisor = 1
    Periods <- MCPeriods
    Calls <- AllCalls
    Gated = {TRUE, FALSE}
INVARIANTS
    TickerTypeOK
    StoppedIsQuiet
    TickOnTime
PROPERTIES
    TickerReturns
