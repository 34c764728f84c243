\* A bus reset leaves a writer waiting for ever.
SPECIFICATION FairSpec
CONSTANTS
    gdb = gdb
    uart = uart
    can = can
    Writers <- MCWriters
    Port <- MCPort
    Lengths <- MCLengths
    MPS = 2
PROPERTIES
    WritesFinish
