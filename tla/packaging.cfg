SPECIFICATION FairSpec
CONSTANTS
    None = None
    A = A
    B = B
    t0 = t0
    v0 = v0
    Sources = {A, B}
    ValidSources = {A}
    Tokens = {t0}
    Variants = {v0}
    Targets = {TRUE}
    PublishIds = {}
    UnpublishIds = {}
    MaxAttempts = 2
    RetainOld = 0
    MaxTime = 4
    Disturbances = {"edit", "fail", "error", "tamper"}
    MaxEvents = 3
INVARIANTS
    TypeOK
    ArtifactHonest
    OnePackageJobAtATime
    QuietStatusIsCurrent
    QuietFailedHasReason
PROPERTIES
    AttemptsLimited
    Converges
\* The cluster comes to rest when the users do.
CHECK_DEADLOCK FALSE
