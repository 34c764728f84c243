\* Uart, CAN logger, SD card, clock, backlight, SPI driver and the gdb server's read, each on its own.
SPECIFICATION BoardSpec
CONSTANTS
    init_thread = init_thread
    change_thread = change_thread
    gdb_thread = gdb_thread
    NoCoding = NoCoding
    Rates = {9600, 115200}
    Formats = {"8N1", "7E1"}
    EightN1 = "8N1"
    FifoSize = 3
    QueueSize = 2
    MaxUartBytes = 5
    Frames <- MCFrames
    BoxSize = 2
    MaxFrames = 4
    Mounters <- MCMounters
    InitThread = init_thread
    MaxEdges = 5
    SetDates <- MCDates
    MaxTicks = 3
    AdcRange = 24
    Period = 60
    Wrap = 1440
    GdbThread = gdb_thread
    Consumers <- MCConsumers
    MPS = 2
    GetLengths = {1}
    MaxBytes = 5
    HostToggles = TRUE
    Timeouts = {0, 2}
    Lengths = {4, 5}
    spi_dma_flag = {9, 11}
INVARIANTS
    TimeoutIsEarned
    SpeedIsTheHosts
    LogIsTheBus
    MountedHasPower
    SyncIsRight
    ClockIsTrusted
PROPERTIES
    TargetReachesHost
    MountedFollowsCard
    LedFollowsLight
CHECK_DEADLOCK FALSE
