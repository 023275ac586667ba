------------------------------ MODULE FiWorld -------------------------------
(***************************************************************************)
(* The cluster objects that the FrontendIntegration controller and its     *)
(* runner Jobs share: one FrontendIntegration (FI), its Job per spec, its  *)
(* JSBundle and the ConfigMap the JSBundle points to; and what the         *)
(* controller computes from them without calling the API server.           *)
(*                                                                         *)
(* The spec hash is the spec without its enabled flag.  An object that     *)
(* does not exist has uid 0 or is not there.  A status has the observed    *)
(* spec hash None before the first one is written, and Legacy when an      *)
(* earlier version left an observed manifest hash and no spec hash.        *)
(***************************************************************************)
EXTENDS Naturals

CONSTANTS
    None,           \* an absent optional value
    Legacy,         \* a hash that an earlier version left
    Specs,          \* specs of the FI without the enabled flag
    FirstSpecs,     \* those the FI may have at first
    Disturbances,   \* the kinds of outside events the instance has
    MaxEvents       \* bound: how many of them happen

ASSUME EventsAssumption == MaxEvents \in Nat
ASSUME FirstSpecsAssumption == FirstSpecs \subseteq Specs
ASSUME HashAssumption == None \notin Specs /\ Legacy \notin Specs /\ Legacy # None
ASSUME ErrorAssumption == None \notin {"job", "runner"}

VARIABLES
    fi,       \* the FI object
    cache,    \* the controller's watch cache of it
    queue,    \* why the controller will reconcile: an event, a timer, or
              \* not at all (empty)
    rc,       \* the reconcile in progress
    jobs,     \* runner Jobs by name: the spec hash
    bundle,   \* the JSBundle
    cm,       \* the ConfigMap that holds its content
    events    \* outside events so far

controllerVars == <<cache, queue, rc>>
objectVars == <<jobs, bundle, cm>>
vars == <<fi, cache, queue, rc, jobs, bundle, cm, events>>

Terminal == {"Succeeded", "Failed"}

NoStatus == [phase |-> "Absent", hash |-> None, err |-> None]
LegacyStatus == [phase |-> "Succeeded", hash |-> Legacy, err |-> None]

NewFI(uid, spec, enabled, status) ==
    [uid |-> uid, spec |-> spec, enabled |-> enabled, label |-> None,
     deleting |-> FALSE, status |-> status, unseen |-> TRUE]

AbsentFI == [NewFI(0, None, FALSE, NoStatus) EXCEPT !.unseen = FALSE]

NoJob == [uid |-> 0, phase |-> "Absent", pod |-> "gone", owner |-> 0, on |-> FALSE]

\* A Job that expired is as good as one that never was; only properties tell
\* the two apart.
ExpiredJob == [NoJob EXCEPT !.phase = "Expired"]

\* The owner of a bundle that an earlier version made is 0.
NoBundle == [there |-> FALSE, owner |-> 0, hash |-> None, label |-> None, state |-> None]
LegacyBundle == [NoBundle EXCEPT !.there = TRUE, !.state = "Available"]

NoContent == [owner |-> 0, spec |-> None]

NoReconcile ==
    [pc |-> "idle", fi |-> AbsentFI, hash |-> None, bundle |-> NoBundle,
     status |-> NoStatus, requeue |-> FALSE]

\* A write of the FI that changes something has a watch event, which is still
\* to be delivered.
Stored(new) == IF new = fi THEN fi ELSE [new EXCEPT !.unseen = TRUE]

\* The controller has caught up with everything it watches.
CaughtUp == rc.pc = "idle" /\ ~fi.unseen /\ queue # "event"

Disturb(kind) ==
    /\ kind \in Disturbances
    /\ events < MaxEvents
    /\ events' = events + 1

\* An event on a Job of the FI puts the FI on the work queue, which holds it
\* once, for the earliest time it is due.  JSBundles and ConfigMaps are not
\* watched.
Notify == queue' = "event"

SetTimer == queue' = IF queue = "event" THEN "event" ELSE "timer"

-----------------------------------------------------------------------------
(* Decisions.                                                              *)

BundleMatches(b, hash) == b.there /\ b.hash = hash

\* Mutant of NeedsNewBuild: a status of this spec is enough.
NeedsNewBuildByStatus(copy, b) == copy.status.hash # copy.spec

\* The status was written for another spec, or the bundle of this one is
\* missing although no build of it runs or failed.
NeedsNewBuild(copy, b) ==
    \/ copy.status.hash # copy.spec
    \/ /\ copy.status.phase \notin {"Building", "Failed"}
       /\ ~BundleMatches(b, copy.spec)

\* A Job that runs is waited for; one that succeeded is of use if its bundle
\* is there and the FI is not failed; one that failed is not.
ShouldReuseBuildJob(copy, job, b) ==
    \/ job.phase = "Running"
    \/ /\ job.phase = "Succeeded"
       /\ BundleMatches(b, copy.spec)
       /\ copy.status.phase # "Failed"

\* The error of a status that was written for this hash.
CurrentLastError(copy, hash) ==
    IF copy.status.hash = hash THEN copy.status.err ELSE None

-----------------------------------------------------------------------------
(* Statuses.                                                               *)

DisabledStatus(copy) == [phase |-> "Pending", hash |-> copy.status.hash, err |-> None]

\* Mutant of BuildingStatus: the phase is that of the Job.
BuildingStatusOfJob(copy, hash) ==
    [phase |-> "Running", hash |-> hash, err |-> CurrentLastError(copy, hash)]

BuildingStatus(copy, hash) ==
    [phase |-> "Building", hash |-> hash, err |-> CurrentLastError(copy, hash)]

SucceededStatus(hash) == [phase |-> "Succeeded", hash |-> hash, err |-> None]

\* Mutant of FailedStatus: the failure is one of the spec the FI has by now.
FailedStatusOfLiveSpec(copy, hash) ==
    [phase |-> "Failed", hash |-> copy.spec,
     err |-> IF CurrentLastError(copy, hash) # None
             THEN CurrentLastError(copy, hash) ELSE "job"]

\* The error the runner wrote for this hash is kept, else it is the Job's.
FailedStatus(copy, hash) ==
    [phase |-> "Failed", hash |-> hash,
     err |-> IF CurrentLastError(copy, hash) # None
             THEN CurrentLastError(copy, hash) ELSE "job"]

\* The merge patch nulls an absent error and leaves out an absent hash, so
\* that the hash there was stays.
MergedStatus(old, new) ==
    [new EXCEPT !.hash = IF @ = None THEN old.hash ELSE @]
=============================================================================
