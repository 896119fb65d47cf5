SPECIFICATION FairSpec
CONSTANTS
    r1 = r1
    w1 = w1
    b1 = b1
    b2 = b2
    Size = 2
    MaxLen = 3
    Readers <- MCReaders
    Writers <- MCWriters
    Bytes <- MCBytes
INVARIANTS TypeOK NoUseAfterFree
PROPERTIES ImplementsAbsFifo ReaderReturns WriterReturns
CHECK_DEADLOCK FALSE
