------------------------ MODULE FrontendIntegration ------------------------
(***************************************************************************)
(* The life of one FrontendIntegration: its controller, the runner Jobs    *)
(* and the people who edit it, composed, and what is true of them.         *)
(***************************************************************************)
EXTENDS FiController, FiRunner

-----------------------------------------------------------------------------
(* People.                                                                 *)

UserWrites(kind, new) ==
    /\ Disturb(kind)
    /\ fi' = Stored(new)
    /\ UNCHANGED <<controllerVars, objectVars>>

EditSpec(spec) ==
    /\ fi.uid # 0 /\ spec # fi.spec
    /\ UserWrites("edit", [fi EXCEPT !.spec = spec])

Toggle ==
    /\ fi.uid # 0
    /\ UserWrites("toggle", [fi EXCEPT !.enabled = ~@])

DeleteInBackground ==
    /\ fi.uid # 0
    /\ UserWrites("remove", AbsentFI)

DeleteInForeground ==
    /\ fi.uid # 0 /\ ~fi.deleting
    /\ UserWrites("foreground", [fi EXCEPT !.deleting = TRUE])

\* The bundle of an FI that is disabled is removed.  The controller would not
\* notice the removal of one in use: it does not watch bundles.
RemoveBundle ==
    /\ bundle.there /\ ~fi.enabled
    /\ Disturb("tamper")
    /\ bundle' = NoBundle
    /\ UNCHANGED <<fi, controllerVars, jobs, cm>>

PeopleNext ==
    \/ \E spec \in Specs : EditSpec(spec)
    \/ Toggle \/ DeleteInBackground \/ DeleteInForeground \/ RemoveBundle

-----------------------------------------------------------------------------

\* An FI that is new, or one that an earlier version served.  One that is
\* disabled from the start is one that is disabled before anybody sees it.
Init ==
    /\ \E spec \in FirstSpecs :
        \/ /\ fi = NewFI(1, spec, TRUE, NoStatus)
           /\ bundle = NoBundle
        \/ /\ "upgrade" \in Disturbances
           /\ fi = NewFI(1, spec, TRUE, LegacyStatus)
           /\ bundle = LegacyBundle
    /\ cache = AbsentFI
    /\ queue = "empty"
    /\ rc = NoReconcile
    /\ jobs = [name \in Specs |-> NoJob]
    /\ cm = NoContent
    /\ events = 0

Next == ControllerNext \/ RunnersNext \/ PeopleNext

Spec == Init /\ [][Next]_vars

\* The watch delivers, the controller works, a runner comes to an end, and
\* Kubernetes collects.
Fairness ==
    /\ WF_vars(CacheSync)
    /\ WF_vars(Reconcile)
    /\ \A name \in Specs : WF_vars(Runner(name))
    /\ WF_vars(Collector)

FairSpec == Spec /\ Fairness

-----------------------------------------------------------------------------
(* Types.                                                                  *)

Maybe(S) == S \cup {None}

Hashes == Specs \cup {None, Legacy}

Phases == {"Absent", "Running", "Succeeded", "Failed", "Expired"}

Status ==
    [phase : {"Absent", "Pending", "Building", "Succeeded", "Failed"},
     hash : Hashes, err : Maybe({"job", "runner"})]

FI ==
    [uid : Nat, spec : Maybe(Specs), enabled : BOOLEAN, label : Maybe(BOOLEAN),
     deleting : BOOLEAN, status : Status, unseen : BOOLEAN]

Bundle ==
    [there : BOOLEAN, owner : Nat, hash : Maybe(Specs), label : Maybe(BOOLEAN),
     state : Maybe({"Available", "Disabled"})]

Job ==
    [uid : Nat, phase : Phases,
     pod : {"gone", "new", "built", "checked", "stored", "applied", "done",
            "failing", "failed"},
     owner : Nat, on : BOOLEAN]

ReconcileSteps ==
    {"idle", "fiLabel", "bundle", "owner", "label", "state", "findJob", "createJob",
     "children", "liveRunning", "liveFailed", "builtBundle", "leftBundle", "status"}

ReconcileState ==
    [pc : ReconcileSteps, fi : FI, hash : Maybe(Specs), bundle : Bundle,
     status : Status, requeue : BOOLEAN]

\* Every variable has its type: in particular the hash a status observes or a
\* bundle is labelled with is that of a spec the FI had.
TypeOK ==
    /\ fi \in FI /\ cache \in FI
    /\ queue \in {"empty", "timer", "event"}
    /\ rc \in ReconcileState
    /\ jobs \in [Specs -> Job]
    /\ bundle \in Bundle
    /\ cm \in [owner : Nat, spec : Maybe(Specs)]
    /\ events \in 0 .. MaxEvents

-----------------------------------------------------------------------------
(* What the status and the bundle are worth when the controller has caught *)
(* up and no runner is at work.                                            *)

Quiet ==
    /\ CaughtUp /\ fi.uid # 0 /\ ~fi.deleting
    /\ \A name \in Specs : jobs[name].phase # "Running"

BundleOff == ~bundle.there \/ (bundle.label = FALSE /\ bundle.state = "Disabled")

BundleOn(hash) ==
    BundleMatches(bundle, hash) /\ bundle.label = TRUE /\ bundle.state = "Available"

\* A disabled FI serves nothing, even if the build of it was still running
\* when it was disabled and made its bundle available later: the end of the
\* Job brings the controller back.
QuietDisabledIsOff ==
    Quiet /\ ~fi.enabled => BundleOff /\ fi.status.phase = "Pending" /\ fi.label = FALSE

\* An FI that says Succeeded serves the bundle of its current spec, whatever
\* runners of earlier specs wrote.
QuietSucceededIsServed ==
    Quiet /\ fi.enabled /\ fi.status.phase = "Succeeded" =>
        fi.status.hash = fi.spec /\ BundleOn(fi.spec) /\ fi.label = TRUE

\* An FI that says Failed does so for its current spec, whose Job was made and
\* failed: a failure that a runner of an earlier spec reports late, or one
\* that is seen when the FI has been edited, is not taken for it.
QuietFailedHasReason ==
    Quiet /\ fi.enabled /\ fi.status.phase = "Failed" =>
        /\ fi.status.hash = fi.spec /\ fi.status.err # None
        /\ jobs[fi.spec].phase \in {"Failed", "Expired"}

\* A reconcile that works on the current FI and finds that it needs a build
\* takes a Job that runs, or one that has made its bundle: a Job that failed is
\* not taken again.
NeededBuildIsMade ==
    [][/\ rc.pc = "createJob" /\ rc'.pc \notin {"createJob", "idle"}
       /\ rc.fi.spec = fi.spec /\ rc.fi.status = fi.status
       => jobs'[rc.hash].phase # "Failed"]_vars

-----------------------------------------------------------------------------
(* Liveness.                                                               *)

Settled ==
    \/ fi.uid = 0
    \/ ~fi.enabled /\ fi.status.phase = "Pending" /\ BundleOff
    \/ fi.enabled /\ fi.status.phase = "Succeeded" /\ BundleOn(fi.spec)
    \/ fi.enabled /\ fi.status.phase = "Failed" /\ fi.status.hash = fi.spec

\* The Job of the current spec has come to its end and left no bundle, and no
\* other is made.
Wasted ==
    /\ fi.status.phase = "Building" /\ fi.status.hash = fi.spec
    /\ jobs[fi.spec].phase \in {"Absent", "Succeeded", "Expired"}
    /\ ~BundleMatches(bundle, fi.spec)

\* When the users leave the FI alone, the controller comes to rest with the
\* bundle switched as the FI says and a final status of its spec; or, if its
\* Job was wasted, it goes on waiting for the bundle.
Converges == <>[](Settled \/ Wasted)
=============================================================================
