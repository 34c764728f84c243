\* Any sequence of commands on the SWD wires, or of scans on a JTAG chain.
SPECIFICATION WiresSpec
CONSTANTS
    Width = 2
    ResetBits = 12
    SwdRequests <- MCSwdRequests
    Words <- MCWords
    PinMoves = 1
    Targets <- MCTargets
    IdleCounts = {0, 2}
    DataBits = 2
    DevCountMax = 3
    Chains <- MCChains
    Layouts <- MCLayouts
    Codes <- MCCodes
    Requests <- MCRequests
INVARIANTS
    StaysInStep
    WordsCross
    CachedIrIsLoaded
    AccessReachesTheDevice
