CONSTANTS
    MaxRetry = 2
    MaxEntries = 3
    Capacity = 2
SPECIFICATION FairSpec
INVARIANTS
    WordsAreRight
    OkMeansComplete
    LateFailuresAreReported
    EffectsInOrder
    LosesPlaceOnlyAtMatch
PROPERTIES
    ComparesItsOwnValue
    EveryRequestIsAnswered
