CONSTANTS
    PacketCount = 2
    MaxRequests = 4
SPECIFICATION FairSpec
INVARIANTS
    AnswersInOrder
PROPERTIES
    EveryRequestIsAnswered
