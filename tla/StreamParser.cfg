SPECIFICATION FairSpec
CONSTANTS
    Byte <- Lengths
    Lengths = {0, 3, 6}
    Zero = 0
    NoByte = NoByte
    HEADER_LEN = 2
    MAX_PACK_SIZE = 7
    HeaderStands <- ToyHeader
    LengthIn <- ToyLength
    CRCTailCheck <- ToyTail
INVARIANTS
    StreamFits
    NothingUndecided
PROPERTIES
    ImplementsScanner
    ReplayEnds
