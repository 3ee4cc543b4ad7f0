SPECIFICATION BootFairSpec
CONSTANTS
    Configs <- MCConfigs
    Fed <- MCFed
INVARIANTS
    BootTypeOK
    FlashKeepsUp
    ClocksInRange
    CoreClockIsHclk
    BaudMatchesClock
PROPERTIES
    BootEnds
CHECK_DEADLOCK FALSE
