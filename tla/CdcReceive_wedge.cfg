\* One reader, no dtr changes, no resets: the read is lost in a race.
SPECIFICATION FairSpec
CONSTANTS
    console = console
    rtt = rtt
    Consumers <- OneConsumer
    GetLengths <- MCGetLengths
    MPS = 2
    MaxBytes = 10
    HostToggles = FALSE
PROPERTIES
    ReadScheduled
