SPECIFICATION Spec
CONSTANTS
    None = None
    Legacy = Legacy
    A = A
    B = B
    Specs = {A, B}
    FirstSpecs = {A}
    Disturbances = {"evict", "toggle"}
    MaxEvents = 3
PROPERTIES
    NeededBuildIsMade
\* The cluster comes to rest when the users do.
CHECK_DEADLOCK FALSE
