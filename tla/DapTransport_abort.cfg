CONSTANTS
    PacketCount = 2
    MaxRequests = 4
SPECIFICATION Spec
INVARIANTS
    AbortsStayOutOfTheQueue
