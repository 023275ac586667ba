SPECIFICATION Spec
CONSTANTS
    None = None
    A = A
    B = B
    t0 = t0
    t1 = t1
    v0 = v0
    v1 = v1
    p1 = p1
    p2 = p2
    Sources = {A, B}
    ValidSources = {A, B}
    Tokens = {t0, t1}
    Variants = {v0, v1}
    Targets = {TRUE}
    PublishIds = {p1, p2}
    UnpublishIds = {}
    MaxAttempts = 1
    RetainOld = 0
    MaxTime = 4
    Disturbances = {"publish", "edit", "rebuild", "overlap", "error"}
    MaxEvents = 2
SYMMETRY Symmetry
INVARIANTS
    PublishJobMatchesRequest
\* The cluster comes to rest when the users do.
CHECK_DEADLOCK FALSE
