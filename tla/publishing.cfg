SPECIFICATION Spec
CONSTANTS
    None = None
    A = A
    B = B
    t0 = t0
    v0 = v0
    p1 = p1
    p2 = p2
    u1 = u1
    Sources = {A, B}
    ValidSources = {A, B}
    Tokens = {t0}
    Variants = {v0}
    Targets = {TRUE}
    PublishIds = {p1, p2}
    UnpublishIds = {u1}
    MaxAttempts = 1
    RetainOld = 0
    MaxTime = 4
    Disturbances = {"publish", "unpublish", "edit"}
    MaxEvents = 3
SYMMETRY Symmetry
INVARIANTS
    QuietActiveIsInstalled
\* The cluster comes to rest when the users do.
CHECK_DEADLOCK FALSE
