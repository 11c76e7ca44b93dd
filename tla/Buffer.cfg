\* Lute::Buffer with its sizes scaled down: a 2-byte prepend window, a
\* 2-byte initial region and a 2-byte extrabuf, so that every growth path
\* (slide, reallocation, readv overflow) is taken within 6 bytes.
CONSTANTS
    kCheapPrepend = 2
    kInitialSize = 2
    ExtraBufSize = 2
    Data = {0, 128}
    IntValues = {128}
    Widths = {1, 2}
    MaxChunk = 2
    MaxSize = 6
    Reserves = {0, 1}
SPECIFICATION Spec
\* readInt16 on 00 80 (appendInt16(128), or two bytes from the peer) fails
\* peekInt16's assert and the process stops there: the only states
\* without a successor.
CHECK_DEADLOCK FALSE
INVARIANT TypeOK
INVARIANT SpaceAssertsHold
PROPERTY ImplementsByteQueue
