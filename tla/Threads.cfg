SPECIFICATION ThreadsSpec
CONSTANTS
    Proc = {p1}
    MaxSig = 3
    MaxKills = 4
    Room = 3
    Waiter = {w1, w2}
    Setter = {s1, s2}
    Word = {0, 1, 2}
    Thread = {t1, t2, t3}
    Addr = {a1, a2}
    Value = {zero}
    Zero = zero
    NULL = NULL
    Handle = Handle
CHECK_DEADLOCK FALSE
INVARIANTS
    NoLostWakeup
PROPERTIES
    ReadInOrder
    EverySignalRead
    WaitersReturn
    PopReturns
    SomeoneCompletes
