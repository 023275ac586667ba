SPECIFICATION Spec
CONSTANTS
    None = None
    A = A
    t0 = t0
    t1 = t1
    v0 = v0
    Sources = {A}
    ValidSources = {A}
    Tokens = {t0, t1}
    Variants = {v0}
    Targets = {TRUE}
    PublishIds = {}
    UnpublishIds = {}
    MaxAttempts = 2
    RetainOld = 0
    MaxTime = 4
    Disturbances = {"rebuild", "fail", "tamper", "linger", "remove", "foreground", "recreate"}
    MaxEvents = 2
SYMMETRY Symmetry
INVARIANTS
    QuietReadyIsDownloadable
    QuietOldArtifactsAreBounded
    QuietPackagingHasJob
PROPERTIES
    PackageJobsAreSeries
\* The cluster comes to rest when the users do.
CHECK_DEADLOCK FALSE
