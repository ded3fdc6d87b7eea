SPECIFICATION ProgramsSpec
CONSTANTS
    MaxPid = 5
    MaxExits = 3
    Keys <- SomeKeys
    SetSizes = {1, 7, 8, 9}
    HashCounts = {0, 1, 3}
    WORD = 4
    WRAP = 65536
    Symbols <- Boundaries
    Invalid = {191, 254}
    Cut <- Beginnings
    Rooms = {3, 20}
    MaxText = 2
    BUF = 1
    DIGITS = 3
    BITS = 2
    INT_BITS = 4
    RADIX = 3
    Limits = {0, 500}
    Texts <- SomeTexts
    MaxPower = 3
    Operands <- SomeOperands
    ULongs = {2, 4}
    StepTexts <- FewTexts
    Lexemes <- SomeLexemes
    Precisions <- SomePrecisions
    COUNT_BITS = 5
    REG_BITS = 4
    MaxVector = 17
    Garbage = {0, 1}
    MaxArray = 4
    Heights = {1, 2, 3, 4}
    EXPONENT_BITS = 3
    MANTISSA_BITS = 3
    Client = {c1, c2, c3}
    Data = {zero, d}
    Zero = zero
    N = 3
    PAGE_SIZE = 4096
    PAGE_MASK_SIZE = 512
    PAGE_MASK_SIZE_IN_BYTES = 64
    WordBits = 2
    NoPage = NoPage
    MaxMaps = 2
    Path <- FsPaths
    Commands <- FsCommands
    MaxTouched = 1
    GrepPath <- GrepPaths
    GrepTexts <- SomeFiles
    FdLimits = {2, 4}
    kMaxFileSize = 2
    Letters = {1, 2}
    NUL = 0
    MaxLog = 4
SYMMETRY Symmetry
CHECK_DEADLOCK FALSE
INVARIANT LettersKept
