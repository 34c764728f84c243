\* Bus resets at any time; every write finishes if there is none.
SPECIFICATION FairSpec
CONSTANTS
    gdb = gdb
    uart = uart
    can = can
    Writers <- MCWriters
    Port <- MCPort
    Lengths <- MCLengths
    MPS = 2
INVARIANTS
    BufferStable
    MessagesWhole
PROPERTIES
    ImplementsSerialOut
    WritesFinishWithoutReset
