---------------------------- MODULE FeController ----------------------------
(***************************************************************************)
(* The FrontendExtension controller: one reconcile at a time, working on   *)
(* the copy of the FE its watch cache held when the reconcile started.     *)
(* Every call to the API server is a step of its own, so that everything   *)
(* else in the cluster may happen between two of them.                     *)
(***************************************************************************)
EXTENDS FeWorld, FiniteSetsExt

\* watch events arrive late but in order.
CacheSync ==
    /\ fe.unseen
    /\ fe' = [fe EXCEPT !.unseen = FALSE]
    /\ cache' = fe'
    /\ queue' = IF fe.uid = 0 THEN "empty" ELSE "event"
    /\ UNCHANGED <<rc, objectVars, registry, clock, api, events>>

-----------------------------------------------------------------------------
(* How a step of the reconcile goes on.                                    *)

\* The reconcile continues as r and has changed nothing yet.
Continue(r) ==
    /\ rc' = r
    /\ UNCHANGED <<fe, cache, queue, objectVars, registry, clock, api, events>>

\* It ends, with a timer if it asked for one.
Finish ==
    /\ rc' = NoReconcile
    /\ IF rc.requeue THEN SetTimer ELSE UNCHANGED queue

\* Mutant of Abort: the error is swallowed.
AbortSwallowed ==
    /\ rc' = NoReconcile
    /\ UNCHANGED queue

\* It ends with an error; error_policy puts the FE back on the queue.
Abort ==
    /\ rc' = NoReconcile
    /\ Notify

\* Reconcile r has decided on a status and calls patch_fe_status.  Only a
\* reconcile whose artifact is ready needs the FE it read once more.
Write(r, status, requeue) ==
    [NoReconcile EXCEPT
        !.pc = "get", !.status = status, !.requeue = requeue,
        !.fe = IF status.phase = "Ready" THEN r.fe ELSE AbsentFE]

-----------------------------------------------------------------------------
(* Packaging.                                                              *)

LatestAttempt(x) ==
    LET mine == {n \in Attempts : pjobs[<<ArtifactKey(x), n>>].uid = x.uid}
    IN  IF mine = {} THEN 0 ELSE Max(mine)

\* Read the cache, list the package Jobs of the artifact key, validate.
ReconcileStart ==
    /\ rc.pc = "idle" /\ queue # "empty" /\ cache.uid # 0
    /\ queue' = "empty"
    /\ LET n == LatestAttempt(cache)
           listed == [NoReconcile EXCEPT
                        !.pc = "artifact", !.fe = cache, !.att = n,
                        !.phase = IF n = 0 THEN "Absent"
                                  ELSE pjobs[<<ArtifactKey(cache), n>>].phase]
       IN  rc' = CASE cache.deleting -> NoReconcile
                   [] cache.src \notin ValidSources ->
                        Write(listed, FailedStatus(cache), FALSE)
                   [] OTHER -> listed
    /\ UNCHANGED <<fe, cache, objectVars, registry, clock, api, events>>

\* Mutant of MatchingArtifact: the content is not looked at.
MatchingArtifactByHash(key) ==
    /\ cms[key].uid # 0
    /\ cms[key].digest[1] = key[1]

\* artifact_metadata_from_configmap
MatchingArtifact(key) ==
    /\ cms[key].uid # 0
    /\ cms[key].intact
    /\ cms[key].digest[1] = key[1]

NoArtifact(pc) == rc.pc = pc /\ ~MatchingArtifact(ArtifactKey(rc.fe))

\* Mutant of PackageJobInProgress: a Job that succeeded is waited for.
PackageJobNotFailed ==
    /\ NoArtifact("artifact")
    /\ rc.phase \in {"Running", "Succeeded"}
    /\ Continue(Write(rc, PackagingStatus(rc.fe), TRUE))

PackageJobInProgress ==
    /\ NoArtifact("artifact")
    /\ rc.phase = "Running"
    /\ Continue(Write(rc, PackagingStatus(rc.fe), TRUE))

\* A succeeded Job makes the controller look for the artifact once more.
ReadArtifactAgain ==
    /\ NoArtifact("artifact")
    /\ rc.phase = "Succeeded"
    /\ Continue([rc EXCEPT !.pc = "artifactAgain"])

\* Mutant of AttemptWasted: a Job that still runs is given up.
AttemptWastedOrRunning ==
    \/ NoArtifact("artifact") /\ rc.phase \in {"Failed", "Running"}
    \/ NoArtifact("artifactAgain")

\* The latest attempt is of no use: it failed, or left no artifact.
AttemptWasted ==
    \/ NoArtifact("artifact") /\ rc.phase = "Failed"
    \/ NoArtifact("artifactAgain")

\* Mutant of PackageAttemptsExceeded: the last attempt is not waited for.
PackageAttemptsExceededOffByOne ==
    /\ AttemptWasted
    /\ rc.att + 1 >= MaxAttempts
    /\ Continue(Write(rc, FailedStatus(rc.fe), FALSE))

PackageAttemptsExceeded ==
    /\ AttemptWasted
    /\ rc.att >= MaxAttempts
    /\ Continue(Write(rc, FailedStatus(rc.fe), FALSE))

NextAttempt ==
    /\ \/ NoArtifact("artifact") /\ rc.att = 0
       \/ AttemptWasted /\ rc.att < MaxAttempts
    /\ Continue([rc EXCEPT !.pc = "create"])

\* Mutant of CreatePackageJob: a Job of that name that ended is replaced.
CreatePackageJobAnew ==
    /\ rc.pc = "create"
    /\ LET name == <<ArtifactKey(rc.fe), rc.att + 1>>
       IN  IF pjobs[name].phase # "Running"
           THEN /\ pjobs' = [pjobs EXCEPT ![name] =
                        [NoPJob EXCEPT !.uid = rc.fe.uid, !.phase = "Running", !.pod = "new"]]
                /\ Notify
           ELSE UNCHANGED <<pjobs, queue>>
    /\ rc' = Write(rc, PackagingStatus(rc.fe), TRUE)
    /\ UNCHANGED <<fe, cache, rjobs, cms, registry, clock, api, events>>

\* create_or_get_job: a Job of that name that exists is taken as it is.
CreatePackageJob ==
    /\ rc.pc = "create"
    /\ LET name == <<ArtifactKey(rc.fe), rc.att + 1>>
       IN  IF pjobs[name].uid = 0
           THEN /\ pjobs' = [pjobs EXCEPT ![name] =
                        [NoPJob EXCEPT !.uid = rc.fe.uid, !.phase = "Running", !.pod = "new"]]
                /\ Notify
           ELSE UNCHANGED <<pjobs, queue>>
    /\ rc' = Write(rc, PackagingStatus(rc.fe), TRUE)
    /\ UNCHANGED <<fe, cache, rjobs, cms, registry, clock, api, events>>

-----------------------------------------------------------------------------
(* The artifact is there: publish, unpublish.  The reconcile r runs on to  *)
(* the next call it has to make.                                           *)

WriteReady(r, unpublish, requeue) ==
    Write(r, ReadyStatus(r.fe, r.digest, r.pub, unpublish), r.requeue \/ requeue)

\* sync_unpublish, up to its read of the Job.
SyncUnpublish(r) ==
    CASE r.fe.unpub = None -> WriteReady(r, r.fe.status.unpub, FALSE)
      [] r.fe.unpub # None /\ ~r.fe.target ->
            WriteReady(r, [NoUnpublish EXCEPT !.phase = "Failed", !.id = r.fe.unpub], FALSE)
      [] OTHER -> [r EXCEPT !.pc = "unpublish"]

Published(r, publish, requeue) ==
    SyncUnpublish([r EXCEPT !.pub = publish, !.requeue = requeue])

\* Mutant of SyncPublish: a request that names no digest is passed over.
SyncPublishByDigest(r) ==
    CASE r.fe.pub.digest = None \/ RequestStale(r.fe, r.digest) ->
            Published(r, RetainedPublish(r.fe), FALSE)
      [] r.fe.pub.digest # None /\ ~RequestStale(r.fe, r.digest) /\ RequestInvalid(r.fe) ->
            Published(r, FailedPublish(r.fe, r.digest), FALSE)
      [] OTHER -> [r EXCEPT !.pc = "publish"]

\* sync_publish, up to its read of the Job.  Without a request, or with one
\* made for something else, the publish status is kept if it still speaks of
\* this artifact or of an active publish.
SyncPublish(r) ==
    CASE r.fe.pub.id = None \/ RequestStale(r.fe, r.digest) ->
            Published(r, RetainedPublish(r.fe), FALSE)
      [] r.fe.pub.id # None /\ ~RequestStale(r.fe, r.digest) /\ RequestInvalid(r.fe) ->
            Published(r, FailedPublish(r.fe, r.digest), FALSE)
      [] OTHER -> [r EXCEPT !.pc = "publish"]

ArtifactFound ==
    /\ rc.pc \in {"artifact", "artifactAgain"}
    /\ MatchingArtifact(ArtifactKey(rc.fe))
    /\ Continue(SyncPublish([rc EXCEPT !.digest = cms[ArtifactKey(rc.fe)].digest,
                                       !.att = 0, !.phase = "Absent"]))

\* Create the Job of a request id, or take the one that exists.
CreateRequestJob(id, job) ==
    /\ IF rjobs[id].uid = 0
       THEN rjobs' = [rjobs EXCEPT ![id] = job] /\ Notify
       ELSE UNCHANGED <<rjobs, queue>>
    /\ UNCHANGED <<fe, cache, pjobs, cms, registry, clock, api, events>>

\* Mutant of PublishJobSynced: the digest is that of the request, which may
\* name none.
PublishJobSyncedAsRequested(job) ==
    Published(rc, PublishFromJob(rc.fe.pub.id, rc.fe.pub.digest, job), job.phase = "Running")

PublishJobSynced(job) ==
    Published(rc, PublishFromJob(rc.fe.pub.id, rc.digest, job), job.phase = "Running")

ObservePublishJob ==
    /\ rc.pc = "publish"
    /\ rjobs[rc.fe.pub.id].uid # 0
    /\ Continue(PublishJobSynced(rjobs[rc.fe.pub.id]))

KeepFinishedPublish ==
    /\ rc.pc = "publish"
    /\ rjobs[rc.fe.pub.id].uid = 0
    /\ PublishAlreadyFinished(rc.fe, rc.digest)
    /\ Continue(Published(rc, rc.fe.status.pub, FALSE))

NeedPublishJob ==
    /\ rc.pc = "publish"
    /\ rjobs[rc.fe.pub.id].uid = 0
    /\ ~PublishAlreadyFinished(rc.fe, rc.digest)
    /\ Continue([rc EXCEPT !.pc = "createPublish"])

CreatePublishJob ==
    /\ rc.pc = "createPublish"
    /\ CreateRequestJob(rc.fe.pub.id,
            [NoRJob EXCEPT !.uid = rc.fe.uid, !.phase = "Running",
                           !.digest = rc.digest, !.key = ArtifactKey(rc.fe)])
    /\ rc' = PublishJobSynced(rjobs'[rc.fe.pub.id])

UnpublishJobSynced(job) ==
    WriteReady(rc, UnpublishFromJob(rc.fe.unpub, job), job.phase = "Running")

ObserveUnpublishJob ==
    /\ rc.pc = "unpublish"
    /\ rjobs[rc.fe.unpub].uid # 0
    /\ Continue(UnpublishJobSynced(rjobs[rc.fe.unpub]))

KeepFinishedUnpublish ==
    /\ rc.pc = "unpublish"
    /\ rjobs[rc.fe.unpub].uid = 0
    /\ UnpublishAlreadyFinished(rc.fe)
    /\ Continue(WriteReady(rc, rc.fe.status.unpub, FALSE))

NeedUnpublishJob ==
    /\ rc.pc = "unpublish"
    /\ rjobs[rc.fe.unpub].uid = 0
    /\ ~UnpublishAlreadyFinished(rc.fe)
    /\ Continue([rc EXCEPT !.pc = "createUnpublish"])

CreateUnpublishJob ==
    /\ rc.pc = "createUnpublish"
    /\ CreateRequestJob(rc.fe.unpub,
            [NoRJob EXCEPT !.uid = rc.fe.uid, !.phase = "Running"])
    /\ rc' = UnpublishJobSynced(rjobs'[rc.fe.unpub])

-----------------------------------------------------------------------------
(* patch_fe_status: get, guard, patch, get again, labels.                  *)

\* A reconcile whose artifact is ready goes on after the status, any other
\* one ends.
StatusDone ==
    IF rc.status.phase = "Ready"
    THEN rc' = [rc EXCEPT !.pc = "after"] /\ UNCHANGED queue
    ELSE Finish

\* The labels follow the status just read, if that status is current.
LabelsOrDone ==
    IF Observes(fe.status, fe) /\ fe.labels # StatusLabels(fe.status)
    THEN /\ rc' = [rc EXCEPT !.pc = "labels", !.labels = StatusLabels(fe.status)]
         /\ UNCHANGED queue
    ELSE StatusDone

\* Mutant of GetLatest: an equal status makes the labels equal.
GetLatestSkipsLabels ==
    /\ rc.pc = "get"
    /\ CASE fe.uid = 0 -> Abort
         [] fe.uid # 0 /\ (~Observes(rc.status, fe) \/ fe.status = rc.status) -> StatusDone
         [] OTHER -> rc' = [rc EXCEPT !.pc = "patch"] /\ UNCHANGED queue
    /\ UNCHANGED <<fe, cache, objectVars, registry, clock, api, events>>

\* Mutant of GetLatest: only the packaging part of the status is compared.
GetLatestByPhase ==
    /\ rc.pc = "get"
    /\ CASE fe.uid = 0 -> Abort
         [] fe.uid # 0 /\ ~Observes(rc.status, fe) -> StatusDone
         [] fe.uid # 0 /\ Observes(rc.status, fe)
            /\ fe.status.phase = rc.status.phase /\ fe.status.art = rc.status.art
            /\ Observes(fe.status, fe) -> LabelsOrDone
         [] OTHER -> rc' = [rc EXCEPT !.pc = "patch"] /\ UNCHANGED queue
    /\ UNCHANGED <<fe, cache, objectVars, registry, clock, api, events>>

GetLatest ==
    /\ rc.pc = "get"
    /\ CASE fe.uid = 0 -> Abort
         [] fe.uid # 0 /\ ~Observes(rc.status, fe) -> StatusDone
         [] fe.uid # 0 /\ Observes(rc.status, fe) /\ fe.status = rc.status -> LabelsOrDone
         [] OTHER -> rc' = [rc EXCEPT !.pc = "patch"] /\ UNCHANGED queue
    /\ UNCHANGED <<fe, cache, objectVars, registry, clock, api, events>>

\* The patch names no resource version: it applies to whatever is there.
PatchStatus ==
    /\ rc.pc = "patch"
    /\ IF fe.uid = 0
       THEN Abort /\ UNCHANGED fe
       ELSE /\ fe' = Stored([fe EXCEPT !.status = MergedStatus(@, rc.status)])
            /\ rc' = [rc EXCEPT !.pc = "reget"]
            /\ UNCHANGED queue
    /\ UNCHANGED <<cache, objectVars, registry, clock, api, events>>

GetPatched ==
    /\ rc.pc = "reget"
    /\ IF fe.uid = 0 THEN Abort ELSE LabelsOrDone
    /\ UNCHANGED <<fe, cache, objectVars, registry, clock, api, events>>

PatchLabels ==
    /\ rc.pc = "labels"
    /\ IF fe.uid = 0
       THEN Abort /\ UNCHANGED fe
       ELSE fe' = Stored([fe EXCEPT !.labels = rc.labels]) /\ StatusDone
    /\ UNCHANGED <<cache, objectVars, registry, clock, api, events>>

-----------------------------------------------------------------------------
(* After the status of a ready FE: delete it, or collect old artifacts.    *)

\* Mutant of ShouldDeleteAfterUnpublish: the phase is not looked at.
ShouldDeleteAfterUnpublishRequest ==
    /\ rc.fe.delAfter # None
    /\ rc.status.unpub.id = rc.fe.delAfter

ShouldDeleteAfterUnpublish ==
    /\ rc.fe.delAfter # None
    /\ rc.status.unpub.phase = "Succeeded"
    /\ rc.status.unpub.id = rc.fe.delAfter

\* The FE is deleted by name; one that is gone already is an error, and one
\* that is being deleted in the foreground stays until that is done.
DeleteFrontendExtension ==
    /\ rc.pc = "after"
    /\ ShouldDeleteAfterUnpublish
    /\ IF fe.uid = 0
       THEN Abort /\ UNCHANGED fe
       ELSE /\ fe' = IF fe.deleting THEN fe ELSE Stored(AbsentFE)
            /\ rc' = NoReconcile
            /\ UNCHANGED queue
    /\ UNCHANGED <<cache, objectVars, registry, clock, api, events>>

ListOldArtifacts ==
    /\ rc.pc = "after"
    /\ ~ShouldDeleteAfterUnpublish
    /\ LET doomed == GcCandidates(cms, rc.fe, KeepNames(rc.fe), RetainOld)
       IN  IF doomed = {} THEN Finish
           ELSE /\ rc' = [NoReconcile EXCEPT !.pc = "gc", !.doomed = doomed,
                                             !.requeue = rc.requeue]
                /\ UNCHANGED queue
    /\ UNCHANGED <<fe, cache, objectVars, registry, clock, api, events>>

\* One that is gone already is no error.
DeleteOldArtifact ==
    /\ rc.pc = "gc"
    /\ \E key \in rc.doomed :
        /\ cms' = [cms EXCEPT ![key] = NoConfigMap]
        /\ rc' = IF rc.doomed = {key} THEN NoReconcile
                 ELSE [rc EXCEPT !.doomed = @ \ {key}]
        /\ CASE cms[key].uid # 0 -> Notify
             [] cms[key].uid = 0 /\ rc.doomed = {key} /\ rc.requeue -> SetTimer
             [] OTHER -> UNCHANGED queue
    /\ UNCHANGED <<fe, cache, pjobs, rjobs, registry, clock, api, events>>

\* A call fails, or the controller restarts, between two steps.
ReconcileError ==
    /\ rc.pc # "idle"
    /\ Disturb("error")
    /\ Abort
    /\ UNCHANGED <<fe, cache, objectVars, registry, clock, api>>

Reconcile ==
    \/ ReconcileStart
    \/ ArtifactFound \/ PackageJobInProgress \/ ReadArtifactAgain
    \/ PackageAttemptsExceeded \/ NextAttempt \/ CreatePackageJob
    \/ ObservePublishJob \/ KeepFinishedPublish
    \/ NeedPublishJob \/ CreatePublishJob
    \/ ObserveUnpublishJob \/ KeepFinishedUnpublish
    \/ NeedUnpublishJob \/ CreateUnpublishJob
    \/ GetLatest \/ PatchStatus \/ GetPatched \/ PatchLabels
    \/ DeleteFrontendExtension \/ ListOldArtifacts \/ DeleteOldArtifact

ControllerNext == CacheSync \/ Reconcile \/ ReconcileError
=============================================================================
