SPECIFICATION FairSpec
CONSTANTS
    r1 = r1
    r2 = r2
    w1 = w1
    b1 = b1
    Size = 2
    MaxLen = 2
    Readers <- MCReaders
    Writers <- MCWriters
    Bytes <- MCBytes
PROPERTY ReaderReturns
CHECK_DEADLOCK FALSE
