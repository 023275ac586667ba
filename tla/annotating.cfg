SPECIFICATION FairSpec
CONSTANTS
    None = None
    A = A
    t0 = t0
    v0 = v0
    p1 = p1
    u1 = u1
    Sources = {A}
    ValidSources = {A}
    Tokens = {t0}
    Variants = {v0}
    Targets = {TRUE, FALSE}
    PublishIds = {p1}
    UnpublishIds = {u1}
    MaxAttempts = 1
    RetainOld = 0
    MaxTime = 4
    Disturbances = {"annotate", "publish", "fail", "ttl", "error", "overlap"}
    MaxEvents = 2
INVARIANTS
    QuietRequestsAreAnswered
PROPERTIES
    PublishAnswered
\* The cluster comes to rest when the users do.
CHECK_DEADLOCK FALSE
