SPECIFICATION FairSpec
CONSTANTS
    None = None
    Legacy = Legacy
    A = A
    B = B
    Specs = {A, B}
    FirstSpecs = {A}
    Disturbances = {"edit", "toggle", "fail", "evict", "error", "ttl", "tamper", "remove", "foreground", "upgrade"}
    MaxEvents = 2
INVARIANTS
    TypeOK
    QuietDisabledIsOff
    QuietSucceededIsServed
    QuietFailedHasReason
PROPERTIES
    Converges
\* The cluster comes to rest when the users do.
CHECK_DEADLOCK FALSE
