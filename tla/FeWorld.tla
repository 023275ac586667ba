------------------------------ MODULE FeWorld -------------------------------
(***************************************************************************)
(* The cluster objects that the FrontendExtension controller, the Jobs it  *)
(* starts and the extension HTTP API share: one FrontendExtension (FE),    *)
(* its package Jobs, its publish and unpublish Jobs, its artifact          *)
(* ConfigMaps, and what the extension registry has installed.  An object   *)
(* that does not exist has uid 0.                                          *)
(***************************************************************************)
EXTENDS FeStatus

CONSTANTS
    Sources,        \* normalised sources of the FE, one per source hash
    ValidSources,   \* those the manifest renderer accepts
    Tokens,         \* rebuild tokens, the blank one among them
    Variants,       \* outputs the build service may give for one source
    Targets,        \* whether a publish target is configured at first
    PublishIds,     \* publish request ids
    UnpublishIds,   \* unpublish request ids
    MaxAttempts,    \* PACKAGE_MAX_ATTEMPTS
    RetainOld,      \* ARTIFACT_RETAIN_OLD_COUNT
    Disturbances,   \* the kinds of outside events the instance has
    MaxEvents,      \* bound: how many of them happen
    MaxTime         \* bound: completion times that can be told apart

ASSUME MaxAttemptsAssumption == MaxAttempts \in Nat \ {0}
ASSUME BoundsAssumption == RetainOld \in Nat /\ MaxEvents \in Nat /\ MaxTime \in Nat \ {0}
ASSUME SourcesAssumption == ValidSources \subseteq Sources
ASSUME TargetsAssumption == Targets \subseteq BOOLEAN
\* A request id is not empty, and the names of publish and unpublish Jobs
\* differ by their prefix.
ASSUME IdsAssumption ==
    None \notin PublishIds \cup UnpublishIds /\ PublishIds \cap UnpublishIds = {}

VARIABLES
    fe,        \* the FE object
    cache,     \* the controller's watch cache of it
    queue,     \* why the controller will reconcile: an event or an error to
               \* follow up, a timer to look again, or not at all (empty)
    rc,        \* the reconcile in progress
    pjobs,     \* package Jobs by name: artifact key and attempt
    rjobs,     \* publish and unpublish Jobs by name: request id
    cms,       \* artifact ConfigMaps by name: artifact key
    registry,  \* the installed extension, and the publishes that succeeded
    clock,     \* completion time of the last publish or unpublish Job
    api,       \* the API request in progress, and the request ids used so far
    events     \* outside events so far

controllerVars == <<cache, queue, rc>>
objectVars == <<pjobs, rjobs, cms>>
vars == <<fe, cache, queue, rc, pjobs, rjobs, cms, registry, clock, api, events>>

Keys == Sources \X Tokens
Attempts == 1 .. MaxAttempts
JobNames == Keys \X Attempts
Digests == Sources \X Variants
RequestIds == PublishIds \cup UnpublishIds

\* A source is something, and so is what was built from it.
ASSUME NoneAssumption == None \notin Sources /\ None \notin Digests

NoStatus ==
    [phase |-> "Absent", gen |-> 0, src |-> None, token |-> None, art |-> None,
     pub |-> NoPublish, unpub |-> NoUnpublish]

NoRequest == [id |-> None, gen |-> 0, src |-> None, digest |-> None]

NewFE(uid, src, token, target) ==
    [uid |-> uid, gen |-> 1, src |-> src, token |-> token, target |-> target,
     deleting |-> FALSE, pub |-> NoRequest, unpub |-> None, delAfter |-> None,
     status |-> NoStatus, labels |-> StatusLabels(NoStatus), unseen |-> TRUE]

AbsentFE == [NewFE(0, None, None, FALSE) EXCEPT !.gen = 0, !.unseen = FALSE]

\* What a write of the FE leaves.  A write that changes something has a watch
\* event, which is still to be delivered.
Stored(new) == IF new = fe THEN fe ELSE [new EXCEPT !.unseen = TRUE]

NoPJob == [uid |-> 0, phase |-> "Absent", pod |-> "gone", owner |-> 0, digest |-> None]

NoRJob == [uid |-> 0, phase |-> "Absent", digest |-> None, key |-> None,
           done |-> FALSE, fin |-> 0]

NoConfigMap == [uid |-> 0, digest |-> None, intact |-> FALSE, born |-> 0]

\* The reconcile that is not running.
NoReconcile ==
    [pc |-> "idle", fe |-> AbsentFE, att |-> 0, phase |-> "Absent", digest |-> None,
     pub |-> NoPublish, status |-> NoStatus, labels |-> StatusLabels(NoStatus),
     requeue |-> FALSE, doomed |-> {}]

NothingInstalled == [digest |-> None, done |-> {}]

NoCall == [op |-> "none", req |-> NoRequest, id |-> None, used |-> {}]

\* The controller has caught up with everything that happened so far.
CaughtUp == rc.pc = "idle" /\ ~fe.unseen /\ queue # "event"

\* An outside event of this kind is still allowed.
Disturb(kind) ==
    /\ kind \in Disturbances
    /\ events < MaxEvents
    /\ events' = events + 1

\* An event on an object the controller owns puts the FE on its work queue,
\* which holds it once, for the earliest time it is due.
Notify == queue' = "event"

SetTimer == queue' = IF queue = "event" THEN "event" ELSE "timer"
=============================================================================
