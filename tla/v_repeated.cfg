SPECIFICATION Spec
CONSTANTS
    None = None
    A = A
    t0 = t0
    v0 = v0
    p1 = p1
    Sources = {A}
    ValidSources = {A}
    Tokens = {t0}
    Variants = {v0}
    Targets = {TRUE}
    PublishIds = {p1}
    UnpublishIds = {}
    MaxAttempts = 2
    RetainOld = 0
    MaxTime = 4
    Disturbances = {"publish", "ttl", "tamper"}
    MaxEvents = 3
PROPERTIES
    FinishedRequestNotRepeated
\* The cluster comes to rest when the users do.
CHECK_DEADLOCK FALSE
