SPECIFICATION ConsoleFairSpec
CONSTANTS
    TextLength = 3
    Handlers <- BothHandlers
    Keys = {"k1"}
    NoChar = NoChar
    NoKey = NoKey
INVARIANTS
    ConsoleTypeOK
    LossOnlyByPreemption
    TopTextIsWhole
    KeyRunsOnce
PROPERTIES
    MainGetsBack
