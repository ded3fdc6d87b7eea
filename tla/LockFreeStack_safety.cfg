SPECIFICATION Spec
CONSTANTS
    Thread = {t1, t2, t3}
    Addr = {a1, a2, a3}
    Value = {zero, v}
    Zero = zero
    NULL = NULL
    Handle = Handle
SYMMETRY Symmetry
INVARIANTS
    ListIntact
    NoUseAfterFree
    OneOwner
    FreshViews
PROPERTIES
    PublishedNodesFrozen
    Linearizable
