SPECIFICATION Spec
CONSTANTS
    Conn = {c1}
    Keys = {"doll"}
    Values = {"barbie"}
    Terminator <- Line
    Patient = TRUE
    MaxSends = 2
    CLIENT_BUFFER_SIZE = 8
    OutSize = 3
    MaxFds = 3
CHECK_DEADLOCK FALSE
INVARIANT SessionWorks
