SPECIFICATION Spec
CONSTANTS
    Conn = {c1, c2}
    Keys = {"foo", "doll"}
    Values = {"bar"}
    Terminator <- NoTerminator
    Patient = FALSE
    MaxSends = 2
    CLIENT_BUFFER_SIZE = 8
    OutSize = 3
    MaxFds = 2
SYMMETRY Alike
CHECK_DEADLOCK FALSE
INVARIANTS
    ItemsFromOneClient
    AnswersOnlyAskers
    StopsOnlyFor
