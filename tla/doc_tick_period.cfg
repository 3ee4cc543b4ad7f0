SPECIFICATION TickerSpec
CONSTANTS
    CounterMax = 65535
    BoardMck = 300000000
    PeripheralMck = 150000000
    Divisor = 128
    Periods = {1}
    Calls = {"start"}
    Gated = {FALSE}
PROPERTY PeriodIsAsAsked
