\* Both readers, rtt switched on and off, dtr changes and bus resets at any time.
SPECIFICATION AuxFairSpec
CONSTANTS
    aux_cdc = aux_cdc
    rtt_console = rtt_console
    AuxThread = aux_cdc
    RttThread = rtt_console
    Consumers <- MCConsumers
    GetLengths <- MCGetLengths
    AuxLength = 3
    MPS = 2
    MaxBytes = 6
    HostToggles = TRUE
INVARIANTS
    NoLoss
    InOrder
    InputAnnounced
PROPERTIES
    InputReachesUart
    WedgedByLateStoreOnly
CHECK_DEADLOCK FALSE
