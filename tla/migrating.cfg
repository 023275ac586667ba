SPECIFICATION FairSpec
CONSTANTS
    None = None
    ValidKeys = {"a", "b"}
    Names = {x, y}
    x = x
    y = y
    Frontends <- MCFrontends
    Plain <- MCPlain
    Edits <- MCEdits
    ExtensionEdits <- MCExtensionEdits
    Disturbances = {"error", "evict", "upgrade", "release", "edit", "toggle", "recreate", "change", "remove", "foreign"}
    MaxEvents = 3
INVARIANTS
    TypeOK
    RoutesOpenTheirPages
PROPERTIES
    DeletedWhenHandedOver
    NothingLost
    ForeignUntouched
    SuccessIsComplete
    ScanEnds
CHECK_DEADLOCK FALSE
