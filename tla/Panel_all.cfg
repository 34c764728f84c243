CONSTANTS
    MaxAreas = 3
    QueueSize = 2
    MaxGestures = 3
    MaxFailures = 1
    TouchSize = 1
    TileNum = 3
    Kinds = {"click", "left"}
    Places <- MCPlaces
SPECIFICATION Spec
INVARIANTS
    WireIsRight
    AreasInOrder
    NewestGestureArrives
    GesturesDoWhatIsMeant
PROPERTIES
    GestureIsHandled
CHECK_DEADLOCK FALSE
