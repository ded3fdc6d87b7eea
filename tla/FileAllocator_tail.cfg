SPECIFICATION Spec
CONSTANTS
    Client = {c1}
    Data = {zero, d}
    Zero = zero
    N = 3
    PAGE_SIZE = 4096
    PAGE_MASK_SIZE = 512
    PAGE_MASK_SIZE_IN_BYTES = 64
    WordBits = 2
    NoPage = NoPage
    MaxMaps = 2

PROPERTY WholePageSurvives
