CONSTANTS
    MaxRetry = 3
    MaxTotal = 4
    Capacity = 3
SPECIFICATION FairSpec
INVARIANTS
    WordsInOrder
    CountIsHonest
    OkMeansDone
PROPERTIES
    BlockIsAnswered
