SPECIFICATION ProcessesSpec
CONSTANTS
    MAX_CHAIN_LINKS_COUNT = 3
    MAX_ARGS_COUNT = 3
    Texts <- ManyTexts
    Items <- TwoItems
    Capacity = 1
    Name <- TwoNames
    Stack <- Clean
    MaxSize = 2
    MaxCalls = 3
    MaxSignals = 2
INVARIANTS
    OutputRight
    EndsOwned
    CountsRight
    LooksAtEntry
PROPERTIES
    EveryoneEnds
    PrintsAtExit
