SPECIFICATION FairSpec
CONSTANTS
    Conn = {c1, c2}
    Keys = {"foo", "doll"}
    Values = {"bar", "barbie"}
    Terminator <- NoTerminator
    Patient = TRUE
    MaxSends = 2
    CLIENT_BUFFER_SIZE = 8
    OutSize = 3
    MaxFds = 3
PROPERTIES
    AtomicMap
    GetsAnswered
