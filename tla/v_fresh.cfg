SPECIFICATION Spec
CONSTANTS
    None = None
    A = A
    t0 = t0
    t1 = t1
    v0 = v0
    v1 = v1
    p1 = p1
    Sources = {A}
    ValidSources = {A}
    Tokens = {t0, t1}
    Variants = {v0, v1}
    Targets = {TRUE}
    PublishIds = {p1}
    UnpublishIds = {}
    MaxAttempts = 1
    RetainOld = 0
    MaxTime = 4
    Disturbances = {"publish", "rebuild"}
    MaxEvents = 2
SYMMETRY Symmetry
INVARIANTS
    QuietFreshIsInstalled
\* The cluster comes to rest when the users do.
CHECK_DEADLOCK FALSE
