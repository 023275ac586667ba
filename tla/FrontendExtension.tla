------------------------- MODULE FrontendExtension -------------------------
(***************************************************************************)
(* The life of one FrontendExtension: its controller, the Jobs, the HTTP   *)
(* API and the people who edit it, composed, and what is true of them      *)
(* together.                                                               *)
(***************************************************************************)
EXTENDS FeController, FeJobs, ExtensionApi

Init ==
    /\ \E source \in Sources, token \in Tokens, target \in Targets :
          fe = NewFE(1, source, token, target)
    /\ cache = AbsentFE
    /\ queue = "empty"
    /\ rc = NoReconcile
    /\ pjobs = [name \in JobNames |-> NoPJob]
    /\ rjobs = [id \in RequestIds |-> NoRJob]
    /\ cms = [key \in Keys |-> NoConfigMap]
    /\ registry = NothingInstalled
    /\ clock = 0
    /\ api = NoCall
    /\ events = 0

Next == ControllerNext \/ JobsNext \/ ApiNext

Spec == Init /\ [][Next]_vars

\* The watch delivers, the controller works, a Job that runs comes to an end,
\* Kubernetes collects, the API finishes what it began.  Nothing obliges a
\* user to act, a Job to fail or a finished Job to expire.
Fairness ==
    /\ WF_vars(CacheSync)
    /\ WF_vars(Reconcile)
    /\ \A name \in JobNames : WF_vars(Packager(name))
    /\ \A id \in RequestIds : WF_vars(Publisher(id))
    /\ WF_vars(Collector)
    /\ WF_vars(ApiCompletes)

FairSpec == Spec /\ Fairness

-----------------------------------------------------------------------------
(* Types.                                                                  *)

Maybe(S) == S \cup {None}

JobPhases == {"Absent", "Running", "Succeeded", "Failed"}

PublishStatus ==
    [phase : JobPhases \cup {"Pending"}, active : BOOLEAN,
     id : Maybe(PublishIds), digest : Maybe(Digests), fin : Nat]

UnpublishStatus == [phase : JobPhases, id : Maybe(UnpublishIds), fin : Nat]

Status ==
    [phase : {"Absent", "Packaging", "Ready", "Failed"}, gen : Nat,
     src : Maybe(Sources), token : Maybe(Tokens), art : Maybe(Digests),
     pub : PublishStatus, unpub : UnpublishStatus]

Labels ==
    [package : {"Absent", "Packaging", "Ready", "Failed"},
     publish : {"publishing", "published", "failed", "not-published"}, fresh : BOOLEAN]

Request ==
    [id : Maybe(PublishIds), gen : Nat, src : Maybe(Sources), digest : Maybe(Digests)]

\* One for every FE that there may have been.
Uids == 0 .. MaxEvents + 1

FE ==
    [uid : Uids, gen : Nat, src : Maybe(Sources), token : Maybe(Tokens),
     target : BOOLEAN, deleting : BOOLEAN, pub : Request,
     unpub : Maybe(UnpublishIds), delAfter : Maybe(UnpublishIds),
     status : Status, labels : Labels, unseen : BOOLEAN]

ReconcileSteps ==
    {"idle", "artifact", "artifactAgain", "create", "publish", "createPublish",
     "unpublish", "createUnpublish", "get", "patch", "reget", "labels", "after", "gc"}

ReconcileState ==
    [pc : ReconcileSteps, fe : FE, att : 0 .. MaxAttempts, phase : JobPhases,
     digest : Maybe(Digests), pub : PublishStatus, status : Status,
     labels : Labels, requeue : BOOLEAN, doomed : SUBSET Keys]

PackageJob ==
    [uid : Nat, phase : JobPhases, pod : {"gone", "new", "built", "wrote"},
     owner : Nat, digest : Maybe(Digests)]

RequestJob ==
    [uid : Nat, phase : JobPhases, digest : Maybe(Digests), key : Maybe(Keys),
     done : BOOLEAN, fin : Nat]

ConfigMap == [uid : Nat, digest : Maybe(Digests), intact : BOOLEAN, born : Nat]

Registry == [digest : Maybe(Digests), done : SUBSET (RequestIds \X Maybe(Keys))]

Call ==
    [op : {"none", "publish", "unpublish", "unpublishAndDelete",
           "delete", "deleteUnpublished"},
     req : Request, id : Maybe(RequestIds), used : SUBSET RequestIds]

\* Every variable has its type: in particular a Job name never exceeds the
\* attempts the controller may make, and no status, request or Job names a
\* digest or an id that was never given out.
TypeOK ==
    /\ fe \in FE /\ cache \in FE
    /\ queue \in {"empty", "timer", "event"}
    /\ rc \in ReconcileState
    /\ pjobs \in [JobNames -> PackageJob]
    /\ rjobs \in [RequestIds -> RequestJob]
    /\ cms \in [Keys -> ConfigMap]
    /\ registry \in Registry
    /\ clock \in Nat
    /\ api \in Call
    /\ events \in 0 .. MaxEvents

-----------------------------------------------------------------------------
(* Packaging.                                                              *)

\* The artifact ConfigMap named for a source holds what was built from that
\* source, however the FE was edited while the packager ran: the packager
\* reads the FE once and refuses a source that is not the one of its Job.
ArtifactHonest ==
    \A key \in Keys :
        cms[key].uid # 0 /\ cms[key].intact => cms[key].digest[1] = key[1]

\* An FE never has two package Jobs at work on one artifact key: a next
\* attempt is made only when the latest one is seen to have ended.
OnePackageJobAtATime ==
    \A m, n \in JobNames :
        /\ m[1] = n[1] /\ pjobs[m].uid = pjobs[n].uid
        /\ pjobs[m].phase = "Running" /\ pjobs[n].phase = "Running"
        => m = n

\* What the package Jobs look like to somebody who sees only who owns them and
\* whether they run.
SeriesOfJobs ==
    [name \in JobNames |->
        [owner |-> pjobs[name].uid,
         state |-> CASE pjobs[name].uid = 0 -> "none"
                     [] pjobs[name].uid # 0 /\ pjobs[name].phase = "Running" -> "running"
                     [] OTHER -> "ended"]]

Series == INSTANCE JobSeries WITH jobs <- SeriesOfJobs, Owners <- Uids \ {0}

\* The controller keeps the promise of JobSeries, although it makes a Job some
\* steps after it listed those there were: it neither skips back behind an
\* attempt there is, nor makes one anew over one that exists, its own or that
\* of an FE which had the name before.
PackageJobsAreSeries == Series!Spec

\* Once the status says that the attempts of the current artifact key are
\* used up, there is no further attempt for it.
AttemptsLimited ==
    [][\A name \in JobNames :
          /\ pjobs[name].uid = 0 /\ pjobs'[name].uid = fe.uid
          /\ name[1] = ArtifactKey(fe) /\ fe.src \in ValidSources
          => ~(fe.status.phase = "Failed" /\ Observes(fe.status, fe))]_vars

-----------------------------------------------------------------------------
(* What the status is worth when the controller has caught up.             *)

\* There is no event it has still to see and it is between two reconciles.
Quiet == CaughtUp /\ fe.uid # 0 /\ ~fe.deleting

\* The status is of the current spec and the list labels say the same as the
\* status, after whatever race of edits, patches and failures.
QuietStatusIsCurrent ==
    Quiet => Observes(fe.status, fe) /\ fe.labels = StatusLabels(fe.status)

\* A Ready FE can be downloaded: the artifact of its current key is there and
\* has the digest the status gives.
QuietReadyIsDownloadable ==
    Quiet /\ fe.status.phase = "Ready" =>
        LET cm == cms[ArtifactKey(fe)]
        IN  cm.uid # 0 /\ cm.intact /\ cm.digest = fe.status.art

\* A Failed FE is one whose source is invalid, or one whose last attempt has
\* ended and left nothing.
QuietFailedHasReason ==
    Quiet /\ fe.status.phase = "Failed" =>
        \/ fe.src \notin ValidSources
        \/ /\ ~MatchingArtifact(ArtifactKey(fe))
           /\ pjobs[<<ArtifactKey(fe), MaxAttempts>>].phase \in Terminal

\* An FE that is Packaging has a Job at work on its artifact key, or took one
\* over from an earlier FE whose end will be noticed.
QuietPackagingHasJob ==
    Quiet /\ fe.status.phase = "Packaging" =>
        \E n \in Attempts :
            LET job == pjobs[<<ArtifactKey(fe), n>>]
            IN  job.phase = "Running" \/ Orphaned(job.uid)

\* Of the artifacts a Ready FE no longer needs, no more stay than are to be
\* retained.
QuietOldArtifactsAreBounded ==
    Quiet /\ fe.status.phase = "Ready" =>
        Cardinality({key \in Keys : cms[key].uid = fe.uid}) <= 1 + RetainOld

-----------------------------------------------------------------------------
(* Publish, unpublish, delete.                                             *)

\* A request whose Job succeeded for an artifact key gets no second Job for
\* that key, although the first one expires after an hour: it is the status
\* that remembers.
FinishedRequestNotRepeated ==
    [][\A id \in RequestIds :
          fe.uid # 0 /\ rjobs[id].uid = 0 /\ rjobs'[id].uid = fe.uid =>
              <<id, rjobs'[id].key>> \notin registry.done]_vars

\* A publish Job installs the digest its request names and no other, although
\* the FE may be edited or repackaged, and other requests made, between the
\* request and the Job.  It takes ids that stand for one request each, as those
\* do that the API makes up.
PublishJobMatchesRequest ==
    \A id \in PublishIds :
        /\ fe.uid # 0 /\ rjobs[id].phase = "Running" /\ rjobs[id].uid = fe.uid
        /\ fe.pub.id = id /\ fe.pub.digest # None
        => rjobs[id].digest = fe.pub.digest

NoRequestJobRuns == \A id \in RequestIds : rjobs[id].phase # "Running"

\* The active publish status of a Ready FE tells the truth, if it is the status
\* of the last request that was made: the digest it names is what the registry
\* has installed, unless an unpublish failed half way.
QuietActiveIsInstalled ==
    /\ Quiet /\ NoRequestJobRuns /\ fe.status.phase = "Ready"
    /\ fe.status.pub.active /\ fe.status.pub.id = fe.pub.id
    /\ fe.status.unpub.phase # "Failed"
    => registry.digest = fe.status.pub.digest

\* The publish-fresh label is true only when what is installed is the current
\* artifact.
QuietFreshIsInstalled ==
    Quiet /\ NoRequestJobRuns /\ fe.labels.fresh /\ fe.status.unpub.phase # "Failed" =>
        registry.digest = cms[ArtifactKey(fe)].digest

\* A Ready FE has answered its current requests with the phase of their Jobs;
\* a publish request made for something else is passed over.
QuietRequestsAreAnswered ==
    Quiet /\ fe.status.phase = "Ready" =>
        /\ fe.pub.id # None /\ ~RequestStale(fe, fe.status.art) =>
              /\ fe.status.pub.id = fe.pub.id
              /\ rjobs[fe.pub.id].uid # 0 /\ ~RequestInvalid(fe) =>
                    fe.status.pub.phase = rjobs[fe.pub.id].phase
        /\ fe.unpub # None =>
              /\ fe.status.unpub.id = fe.unpub
              /\ rjobs[fe.unpub].uid # 0 /\ fe.target =>
                    fe.status.unpub.phase = rjobs[fe.unpub].phase

\* A request for the current spec that names another digest than that of the
\* artifact, and was never carried out, is told to have failed.
QuietMismatchIsFailed ==
    /\ Quiet /\ fe.status.phase = "Ready"
    /\ fe.pub.id # None /\ fe.pub.gen = fe.gen /\ fe.pub.src = fe.src
    /\ fe.pub.digest \notin {None, fe.status.art}
    /\ rjobs[fe.pub.id].uid = 0 /\ \A d \in registry.done : d[1] # fe.pub.id
    => fe.status.pub.id = fe.pub.id /\ fe.status.pub.phase = "Failed"

\* The controller deletes an FE only when its extension is not installed any
\* more.
DeletedAfterUnpublish ==
    [][rc.pc = "after" /\ rc' # rc /\ fe.uid # 0 /\ fe'.uid = 0 =>
          registry.digest = None]_vars

\* Asked to delete with an unpublish first, the API does without the unpublish
\* only if nothing is installed, although it goes by the status alone, in which
\* earlier publishes and unpublishes are told apart by their completion times.
\* A publish that failed may have installed the extension.
DeleteRequestUnpublishes ==
    [][/\ api.op = "deleteUnpublished" /\ api' # api /\ fe.uid # 0 /\ fe'.uid = 0
       /\ fe.status.pub.phase # "Failed"
       => registry.digest = None]_vars

-----------------------------------------------------------------------------
(* Liveness.                                                               *)

\* When the users leave the FE alone the controller comes to rest with a
\* final status of the current spec: no two of its writes undo each other,
\* and no event that matters is lost.
Converges ==
    <>[](\/ fe.uid = 0
         \/ /\ fe.status.phase \in {"Ready", "Failed"}
            /\ Observes(fe.status, fe)
            /\ fe.labels = StatusLabels(fe.status))

\* A publish request that stays current ends in a final publish status,
\* unless the FE fails or is deleted.
PublishAnswered ==
    \A id \in PublishIds :
        fe.pub.id = id ~>
            \/ fe.uid = 0 \/ fe.pub.id # id \/ fe.status.phase = "Failed"
            \/ fe.status.pub.id = id /\ fe.status.pub.phase \in Terminal
            \/ fe.status.phase = "Ready" /\ RequestStale(fe, fe.status.art)
=============================================================================
