----------------------- MODULE PublishRequests_proofs -----------------------
(***************************************************************************)
(* Publish Jobs install what their requests name: a proof for every value  *)
(* of the constants of FrontendExtension, provided that requests are made  *)
(* through the API and with new ids.                                       *)
(***************************************************************************)
EXTENDS FrontendExtension_proofs

\* Nobody writes publish annotations by hand or gives the API an old id.
NewIdsOnly == {"annotate", "reuse"} \cap Disturbances = {}

-----------------------------------------------------------------------------
(* The inductive invariant.                                                *)

\* Copies of publish requests: on the FE, in the cache, in the hands of the
\* reconcile, on the way to the FE.
Copies == {fe.pub, cache.pub, rc.fe.pub, api.req}

\* A request id stands for one digest.
CopiesAgree ==
    \A q, r \in Copies : q.id \in PublishIds /\ q.id = r.id => q.digest = r.digest

IdsUsed ==
    /\ \A q \in Copies : q.id \in PublishIds => q.id \in api.used
    /\ \A id \in PublishIds : rjobs[id].uid # 0 => id \in api.used

JobsMatch ==
    \A q \in Copies :
        q.id \in PublishIds /\ rjobs[q.id].uid # 0 /\ q.digest # None
        => rjobs[q.id].digest = q.digest

\* A reconcile is about to make a Job only for a request that is not stale.
DigestCurrent(r) ==
    r.pc \in {"publish", "createPublish"} => r.fe.pub.digest \in {None, r.digest}

RequestInv == CopiesAgree /\ IdsUsed /\ JobsMatch /\ DigestCurrent(rc)

\* The publish Jobs there are keep their digest, and none is new.
JobsKept ==
    \A id \in PublishIds :
        rjobs'[id].uid # 0 => rjobs[id].uid # 0 /\ rjobs'[id].digest = rjobs[id].digest

\* What does not exist, and what is new, has no request.
LEMMA NoCopies ==
    /\ AbsentFE.pub = NoRequest /\ NoReconcile.fe.pub = NoRequest /\ NoCall.req = NoRequest
    /\ NoReconcile.pc = "idle" /\ NoReconcile.fe = AbsentFE
    /\ \A uid, src, token, target : NewFE(uid, src, token, target).pub = NoRequest
    /\ NoRequest.id = None /\ None \notin PublishIds
<1>1. \A uid, src, token, target : NewFE(uid, src, token, target).pub = NoRequest
  BY DEF NewFE
<1>2. AbsentFE.pub = NoRequest
  BY <1>1 DEF AbsentFE, NewFE
<1>3. NoReconcile.fe = AbsentFE /\ NoReconcile.pc = "idle" /\ NoCall.req = NoRequest
  BY DEF NoReconcile, NoCall
<1>4. QED
  BY <1>1, <1>2, <1>3, IdsAssumption DEF NoRequest

\* At first nothing is requested and there is no Job.
LEMMA RequestInvInit == Init => RequestInv
<1> SUFFICES ASSUME Init PROVE RequestInv
  OBVIOUS
<1>1. /\ fe.pub = NoRequest /\ cache.pub = NoRequest /\ rc.fe.pub = NoRequest
      /\ api.req = NoRequest /\ rc.pc = "idle"
  BY NoCopies DEF Init
<1>3. \A id \in PublishIds : rjobs[id].uid = 0
  BY DEF Init, NoRJob, RequestIds
<1>4. QED
  BY <1>1, <1>3, NoCopies DEF RequestInv, CopiesAgree, IdsUsed, JobsMatch, DigestCurrent, Copies

\* What a step has to do to preserve the invariant, unless it accepts a request
\* or makes a Job.
LEMMA Kept ==
    ASSUME RequestInv, JobsKept, api.used \subseteq api'.used, DigestCurrent(rc'),
           Copies' \subseteq Copies \cup {NoRequest}
    PROVE  RequestInv'
<1>1. NoRequest.id \notin PublishIds
  BY NoCopies
<1>2. CopiesAgree'
  BY <1>1 DEF RequestInv, CopiesAgree
<1>3. IdsUsed'
  BY <1>1 DEF RequestInv, IdsUsed, JobsKept
<1>4. JobsMatch'
  BY <1>1 DEF RequestInv, JobsMatch, JobsKept
<1>5. QED
  BY <1>2, <1>3, <1>4 DEF RequestInv, DigestCurrent

\* ... in particular one that leaves the Jobs and the API alone.
LEMMA KeptByReconcile ==
    ASSUME RequestInv, UNCHANGED <<cache, rjobs, api>>, DigestCurrent(rc'),
           fe'.pub \in {fe.pub, NoRequest}, rc'.fe.pub \in {rc.fe.pub, cache.pub, NoRequest}
    PROVE  RequestInv'
<1>1. Copies' \subseteq Copies \cup {NoRequest}
  BY DEF Copies
<1>2. JobsKept
  BY DEF JobsKept
<1>3. QED
  BY <1>1, <1>2, Kept

-----------------------------------------------------------------------------
(* The reconcile.                                                          *)

\* A reconcile goes on with the FE it has or without one, and reads or makes a
\* publish Job next only for a request that is not stale.
GoesOn(r, next) == next.fe \in {r.fe, AbsentFE} /\ DigestCurrent(next)

\* A reconcile that goes on to write a status.
LEMMA WriteGets ==
    ASSUME NEW r, NEW status, NEW requeue
    PROVE  /\ Write(r, status, requeue).pc = "get"
           /\ Write(r, status, requeue).fe \in {r.fe, AbsentFE}
<1>1. NoReconcile \in ReconcileState
  BY ObjectTypes
<1>2. QED
  BY <1>1 DEF Write, ReconcileState

\* ... that ends, or that goes on to another step.
LEMMA EndsCurrent ==
    ASSUME NEW r \in ReconcileState, DigestCurrent(r)
    PROVE  /\ GoesOn(r, NoReconcile)
           /\ \A status, requeue : GoesOn(r, Write(r, status, requeue))
           /\ \A pc \in ReconcileSteps \ {"publish"} :
                 pc # "createPublish" \/ r.pc = "publish" => GoesOn(r, [r EXCEPT !.pc = pc])
<1>1. NoReconcile.fe = AbsentFE /\ NoReconcile.pc = "idle"
  BY DEF NoReconcile
<1>2. ASSUME NEW status, NEW requeue
      PROVE  GoesOn(r, Write(r, status, requeue))
  BY WriteGets DEF GoesOn, DigestCurrent
<1>3. ASSUME NEW pc \in ReconcileSteps \ {"publish"}, pc # "createPublish" \/ r.pc = "publish"
      PROVE  GoesOn(r, [r EXCEPT !.pc = pc])
  BY <1>3 DEF GoesOn, DigestCurrent, ReconcileState
<1>4. QED
  BY <1>1, <1>2, <1>3 DEF GoesOn, DigestCurrent

\* A reconcile that has found its artifact.
LEMMA SyncsCurrent ==
    ASSUME NEW r \in ReconcileState
    PROVE  /\ \A unpublish, requeue : GoesOn(r, WriteReady(r, unpublish, requeue))
           /\ \A publish, requeue : GoesOn(r, Published(r, publish, requeue))
           /\ GoesOn(r, SyncPublish(r))
<1>1. ASSUME NEW q, q.fe = r.fe, NEW status, NEW requeue
      PROVE  GoesOn(r, Write(q, status, requeue))
  BY <1>1, WriteGets DEF GoesOn, DigestCurrent
<1>2. ASSUME NEW q, q.fe = r.fe, NEW unpublish, NEW requeue
      PROVE  GoesOn(r, WriteReady(q, unpublish, requeue))
  BY <1>1, <1>2, Zenon DEF WriteReady
<1>3. ASSUME NEW publish, NEW requeue
      PROVE  GoesOn(r, Published(r, publish, requeue))
  <2> DEFINE q == [r EXCEPT !.pub = publish, !.requeue = requeue]
  <2>1. q.fe = r.fe /\ [q EXCEPT !.pc = "unpublish"].fe = r.fe
        /\ [q EXCEPT !.pc = "unpublish"].pc = "unpublish"
    BY DEF ReconcileState
  <2>2. GoesOn(r, [q EXCEPT !.pc = "unpublish"])
    BY <2>1 DEF GoesOn, DigestCurrent
  <2>3. Published(r, publish, requeue) = SyncUnpublish(q)
    BY Zenon DEF Published
  <2> HIDE DEF q
  <2> QED BY <1>2, <2>1, <2>2, <2>3 DEF SyncUnpublish
<1>4. GoesOn(r, SyncPublish(r))
  <2>1. ASSUME ~RequestStale(r.fe, r.digest)
        PROVE  GoesOn(r, [r EXCEPT !.pc = "publish"])
    BY <2>1 DEF RequestStale, GoesOn, DigestCurrent, ReconcileState
  <2> QED BY <1>3, <2>1 DEF SyncPublish
<1>5. QED
  BY <1>2, <1>3, <1>4

\* The steps up to the artifact.
LEMMA PackagingRequests ==
    ASSUME TypeInv, RequestInv,
           \/ ReconcileStart \/ ArtifactFound \/ PackageJobInProgress \/ ReadArtifactAgain
           \/ PackageAttemptsExceeded \/ NextAttempt \/ CreatePackageJob
    PROVE  RequestInv'
<1>1. rc \in ReconcileState /\ DigestCurrent(rc) /\ NoReconcile \in ReconcileState
  BY ObjectTypes DEF TypeInv, TypeOK, RequestInv
<1>2. CASE ReconcileStart
  <2> DEFINE n == LatestAttempt(cache)
             listed == [NoReconcile EXCEPT
                          !.pc = "artifact", !.fe = cache, !.att = n,
                          !.phase = IF n = 0 THEN "Absent"
                                    ELSE pjobs[<<ArtifactKey(cache), n>>].phase]
  <2>1. listed.pc = "artifact" /\ listed.fe = cache
    BY <1>1 DEF ReconcileState
  <2>2. rc' \in {NoReconcile, Write(listed, FailedStatus(cache), FALSE), listed}
    BY <1>2 DEF ReconcileStart
  <2>3. DigestCurrent(rc') /\ rc'.fe \in {cache, AbsentFE}
    <3> HIDE DEF listed
    <3>1. CASE rc' = Write(listed, FailedStatus(cache), FALSE)
      BY <2>1, <3>1, WriteGets DEF DigestCurrent
    <3>2. CASE rc' \in {NoReconcile, listed}
      BY <2>1, <3>2, NoCopies DEF DigestCurrent
    <3> QED BY <2>2, <3>1, <3>2
  <2>4. UNCHANGED <<fe, cache, rjobs, api>>
    BY <1>2 DEF ReconcileStart, objectVars
  <2> QED BY <2>3, <2>4, NoCopies, KeptByReconcile
<1>3. CASE ArtifactFound
  <2> DEFINE r == [rc EXCEPT !.digest = cms[ArtifactKey(rc.fe)].digest,
                             !.att = 0, !.phase = "Absent"]
  <2>1. r \in ReconcileState /\ r.fe = rc.fe
    <3>1. ArtifactKey(rc.fe) \in Keys
      BY <1>3 DEF ArtifactFound, TypeInv, Prepared, WorkSteps
    <3>2. cms[ArtifactKey(rc.fe)].digest \in Maybe(Digests)
      BY <3>1 DEF TypeInv, TypeOK, ConfigMap
    <3>3. 0 \in 0 .. MaxAttempts /\ "Absent" \in JobPhases
      BY MaxAttemptsAssumption DEF JobPhases
    <3> QED BY <1>1, <3>2, <3>3 DEF ReconcileState
  <2>2. rc' = SyncPublish(r) /\ UNCHANGED <<fe, cache, rjobs, api>>
    BY <1>3 DEF ArtifactFound, Continue, objectVars
  <2>3. GoesOn(r, rc')
    <3> HIDE DEF r
    <3> QED BY <2>1, <2>2, SyncsCurrent
  <2> HIDE DEF r
  <2> QED BY <2>1, <2>2, <2>3, NoCopies, KeptByReconcile DEF GoesOn
<1>4. CASE PackageJobInProgress \/ ReadArtifactAgain \/ PackageAttemptsExceeded
             \/ NextAttempt \/ CreatePackageJob
  <2>1. UNCHANGED <<fe, cache, rjobs, api>>
    BY <1>4 DEF PackageJobInProgress, ReadArtifactAgain, PackageAttemptsExceeded,
                NextAttempt, CreatePackageJob, Continue, objectVars
  <2>2. GoesOn(rc, rc')
    BY <1>1, <1>4, EndsCurrent
       DEF PackageJobInProgress, ReadArtifactAgain, PackageAttemptsExceeded,
           NextAttempt, CreatePackageJob, Continue, ReconcileSteps
  <2> QED BY <2>1, <2>2, NoCopies, KeptByReconcile DEF GoesOn
<1>5. QED
  BY <1>2, <1>3, <1>4

\* The steps that answer requests without making a publish Job.
LEMMA AnswerRequests ==
    ASSUME TypeInv, RequestInv,
           \/ ObservePublishJob \/ KeepFinishedPublish \/ NeedPublishJob
           \/ ObserveUnpublishJob \/ KeepFinishedUnpublish \/ NeedUnpublishJob
    PROVE  RequestInv'
<1>1. rc \in ReconcileState /\ DigestCurrent(rc)
  BY DEF TypeInv, TypeOK, RequestInv
<1>2. UNCHANGED <<fe, cache, rjobs, api>>
  BY DEF ObservePublishJob, KeepFinishedPublish, NeedPublishJob, ObserveUnpublishJob,
         KeepFinishedUnpublish, NeedUnpublishJob, Continue, objectVars
<1>3. CASE NeedPublishJob \/ NeedUnpublishJob
  <2>1. GoesOn(rc, rc')
    BY <1>1, <1>3, EndsCurrent DEF NeedPublishJob, NeedUnpublishJob, Continue, ReconcileSteps
  <2> QED BY <1>2, <2>1, NoCopies, KeptByReconcile DEF GoesOn
<1>4. CASE ObservePublishJob \/ KeepFinishedPublish
  <2>1. \E publish, requeue : rc' = Published(rc, publish, requeue)
    BY <1>4, Zenon DEF ObservePublishJob, KeepFinishedPublish, PublishJobSynced, Continue
  <2>2. GoesOn(rc, rc')
    BY <1>1, <2>1, SyncsCurrent
  <2> QED BY <1>2, <2>2, NoCopies, KeptByReconcile DEF GoesOn
<1>5. CASE ObserveUnpublishJob \/ KeepFinishedUnpublish
  <2>1. \E unpublish, requeue : rc' = WriteReady(rc, unpublish, requeue)
    BY <1>5, Zenon
       DEF ObserveUnpublishJob, KeepFinishedUnpublish, UnpublishJobSynced, Continue
  <2>2. GoesOn(rc, rc')
    BY <1>1, <2>1, SyncsCurrent
  <2> QED BY <1>2, <2>2, NoCopies, KeptByReconcile DEF GoesOn
<1>6. QED
  BY <1>3, <1>4, <1>5

\* A publish Job that is made gets the digest of the artifact the reconcile
\* has found, which is that of the request if the request names one.
LEMMA PublishJobMade ==
    ASSUME TypeInv, RequestInv, CreatePublishJob
    PROVE  RequestInv'
<1> DEFINE id == rc.fe.pub.id
           job == [NoRJob EXCEPT !.uid = rc.fe.uid, !.phase = "Running",
                                 !.digest = rc.digest, !.key = ArtifactKey(rc.fe)]
<1>1. /\ rc \in ReconcileState /\ rc.fe.pub.digest \in {None, rc.digest}
      /\ id \in PublishIds /\ rjobs \in [RequestIds -> RequestJob]
  BY DEF TypeInv, TypeOK, RequestInv, DigestCurrent, Prepared, CreatePublishJob
<1>2. UNCHANGED <<fe, cache, api>>
  BY DEF CreatePublishJob, CreateRequestJob
<1>3. GoesOn(rc, rc')
  BY <1>1, SyncsCurrent DEF CreatePublishJob, PublishJobSynced
<1>4. CASE rjobs[id].uid # 0
  <2>1. UNCHANGED rjobs
    BY <1>4 DEF CreatePublishJob, CreateRequestJob
  <2> QED BY <1>2, <1>3, <2>1, NoCopies, KeptByReconcile DEF GoesOn
<1>5. CASE rjobs[id].uid = 0
  <2>1. rjobs' = [rjobs EXCEPT ![id] = job] /\ job.digest = rc.digest
    BY <1>5 DEF CreatePublishJob, CreateRequestJob, NoRJob
  <2> HIDE DEF job
  <2>2. /\ \A i \in PublishIds \ {id} : rjobs'[i] = rjobs[i]
        /\ rjobs'[id].digest = rc.digest
    BY <1>1, <2>1 DEF RequestIds
  <2>3. Copies' \subseteq Copies \cup {NoRequest} /\ rc.fe.pub \in Copies
    BY <1>2, <1>3, NoCopies DEF Copies, GoesOn
  <2>4. id \in api.used /\ \A q \in Copies : q.id = id => q.digest \in {None, rc.digest}
    BY <1>1, <2>3 DEF RequestInv, IdsUsed, CopiesAgree
  <2>5. CopiesAgree'
    BY <2>3, NoCopies DEF RequestInv, CopiesAgree
  <2>6. IdsUsed'
    BY <1>2, <2>2, <2>3, <2>4, NoCopies DEF RequestInv, IdsUsed
  <2>7. JobsMatch'
    BY <2>2, <2>3, <2>4, NoCopies DEF RequestInv, JobsMatch
  <2> QED BY <1>3, <2>5, <2>6, <2>7 DEF RequestInv, GoesOn, DigestCurrent
<1>6. QED
  BY <1>4, <1>5

\* An unpublish Job has another name than any publish Job.
LEMMA UnpublishJobMade ==
    ASSUME TypeInv, RequestInv, CreateUnpublishJob
    PROVE  RequestInv'
<1>1. rc \in ReconcileState /\ rc.fe.unpub \in UnpublishIds
      /\ rjobs \in [RequestIds -> RequestJob]
  BY DEF TypeInv, TypeOK, Prepared, CreateUnpublishJob
<1>2. UNCHANGED <<fe, cache, api>>
  BY DEF CreateUnpublishJob, CreateRequestJob
<1>3. GoesOn(rc, rc')
  BY <1>1, SyncsCurrent DEF CreateUnpublishJob, UnpublishJobSynced
<1>4. \A id \in PublishIds : rjobs'[id] = rjobs[id]
  BY <1>1, IdsAssumption DEF CreateUnpublishJob, CreateRequestJob, RequestIds
<1>5. JobsKept
  BY <1>4 DEF JobsKept
<1>6. Copies' \subseteq Copies \cup {NoRequest}
  BY <1>2, <1>3, NoCopies DEF Copies, GoesOn
<1>7. QED
  BY <1>2, <1>3, <1>5, <1>6, Kept DEF GoesOn

\* What a write leaves of the publish request: it is the one to be stored.
LEMMA StoredRequest ==
    ASSUME fe \in FE, NEW new \in FE
    PROVE  Stored(new).pub = new.pub
BY DEF Stored, FE

\* The status, the labels and what follows them.
LEMMA StatusRequests ==
    ASSUME TypeInv, RequestInv,
           \/ GetLatest \/ PatchStatus \/ GetPatched \/ PatchLabels
           \/ DeleteFrontendExtension \/ ListOldArtifacts \/ DeleteOldArtifact
    PROVE  RequestInv'
<1>1. /\ rc \in ReconcileState /\ DigestCurrent(rc) /\ NoReconcile \in ReconcileState
      /\ fe \in FE /\ AbsentFE \in FE
  BY ObjectTypes DEF TypeInv, TypeOK, RequestInv
<1>2. /\ Finish \/ Abort => rc' = NoReconcile
      /\ StatusDone \/ LabelsOrDone => rc' = NoReconcile
            \/ \E pc \in {"after", "labels"} : \E labels :
                  rc' = [rc EXCEPT !.pc = pc, !.labels = labels]
  <2>1. Finish \/ Abort => rc' = NoReconcile
    BY DEF Finish, Abort
  <2>2. [rc EXCEPT !.pc = "after"] = [rc EXCEPT !.pc = "after", !.labels = rc.labels]
    BY <1>1 DEF ReconcileState
  <2> QED BY <2>1, <2>2, Zenon DEF StatusDone, LabelsOrDone
<1>3. rc'.fe \in {rc.fe, AbsentFE} /\ rc'.pc \notin {"publish", "createPublish"}
  <2>1. CASE rc' = NoReconcile
    BY <2>1, NoCopies
  <2>2. CASE \E pc \in {"after", "labels", "patch", "reget"} : \E labels :
                rc' = [rc EXCEPT !.pc = pc, !.labels = labels]
    BY <1>1, <2>2 DEF ReconcileState
  <2>3. CASE \E pc \in {"patch", "reget"} : rc' = [rc EXCEPT !.pc = pc]
    BY <1>1, <2>3 DEF ReconcileState
  <2>4. CASE ListOldArtifacts
    <3>1. CASE Finish
      BY <1>2, <2>1, <3>1
    <3>2. CASE \E doomed : rc' = [NoReconcile EXCEPT !.pc = "gc", !.doomed = doomed,
                                                     !.requeue = rc.requeue]
      BY <1>1, <3>2, NoCopies DEF ReconcileState
    <3> QED BY <2>4, <3>1, <3>2, Zenon DEF ListOldArtifacts
  <2>5. CASE DeleteOldArtifact
    <3>1. \/ rc' = NoReconcile
          \/ rc.pc = "gc" /\ \E doomed : rc' = [rc EXCEPT !.doomed = doomed]
      BY <2>5, Zenon DEF DeleteOldArtifact
    <3> QED BY <1>1, <2>1, <3>1 DEF ReconcileState
  <2>6. CASE GetLatest \/ PatchStatus \/ GetPatched \/ PatchLabels
    BY <1>2, <2>1, <2>2, <2>3, <2>6, Zenon DEF GetLatest, PatchStatus, GetPatched, PatchLabels
  <2>7. CASE DeleteFrontendExtension
    BY <1>2, <2>1, <2>7 DEF DeleteFrontendExtension
  <2> QED BY <2>4, <2>5, <2>6, <2>7
<1>4. fe'.pub \in {fe.pub, NoRequest}
  <2>1. CASE fe' = fe
    BY <2>1
  <2>2. CASE fe' = Stored(AbsentFE)
    BY <1>1, <2>2, StoredRequest, NoCopies
  <2>3. CASE PatchStatus
    <3>1. MergedStatus(fe.status, rc.status) \in Status
      BY ReconcileTypes, StatusTypes, AbsentTypes DEF Maybe
    <3>2. \A status \in Status :
             [fe EXCEPT !.status = status] \in FE /\ [fe EXCEPT !.status = status].pub = fe.pub
      BY <1>1 DEF FE
    <3>3. fe' = fe \/ fe' = Stored([fe EXCEPT !.status = MergedStatus(fe.status, rc.status)])
      BY <2>3 DEF PatchStatus
    <3> QED BY <1>1, <3>1, <3>2, <3>3, StoredRequest
  <2>4. CASE PatchLabels
    <3>1. [fe EXCEPT !.labels = rc.labels] \in FE /\ [fe EXCEPT !.labels = rc.labels].pub = fe.pub
      BY <1>1, ReconcileTypes DEF FE
    <3>2. fe' = fe \/ fe' = Stored([fe EXCEPT !.labels = rc.labels])
      BY <2>4 DEF PatchLabels
    <3> QED BY <1>1, <3>1, <3>2, StoredRequest
  <2>5. CASE GetLatest \/ GetPatched \/ DeleteFrontendExtension \/ ListOldArtifacts
               \/ DeleteOldArtifact
    BY <2>1, <2>2, <2>5
       DEF GetLatest, GetPatched, DeleteFrontendExtension, ListOldArtifacts, DeleteOldArtifact
  <2> QED BY <2>3, <2>4, <2>5
<1>5. UNCHANGED <<cache, rjobs, api>>
  BY DEF GetLatest, PatchStatus, GetPatched, PatchLabels, DeleteFrontendExtension,
         ListOldArtifacts, DeleteOldArtifact, objectVars
<1>6. QED
  BY <1>3, <1>4, <1>5, NoCopies, KeptByReconcile DEF DigestCurrent

\* The watch, and a reconcile that is cut short.
LEMMA WatchRequests ==
    ASSUME TypeInv, RequestInv, CacheSync \/ ReconcileError
    PROVE  RequestInv'
<1>1. CASE CacheSync
  <2>1. fe'.pub = fe.pub /\ cache'.pub = fe.pub /\ UNCHANGED <<rc, rjobs, api>>
    BY <1>1 DEF CacheSync, TypeInv, TypeOK, FE, objectVars
  <2>2. Copies' \subseteq Copies \cup {NoRequest} /\ JobsKept
    BY <2>1 DEF Copies, JobsKept
  <2> QED BY <2>1, <2>2, Kept DEF RequestInv
<1>2. CASE ReconcileError
  <2>1. rc' = NoReconcile /\ UNCHANGED <<fe, cache, rjobs, api>>
    BY <1>2 DEF ReconcileError, Abort, objectVars
  <2> QED BY <2>1, NoCopies, KeptByReconcile DEF DigestCurrent
<1>3. QED
  BY <1>1, <1>2

-----------------------------------------------------------------------------
(* The Jobs, Kubernetes and the users.                                     *)

\* A step of theirs that changes neither the FE nor the API.
LEMMA KeptByJobs ==
    ASSUME RequestInv, JobsKept, UNCHANGED <<fe, cache, rc, api>>
    PROVE  RequestInv'
<1>1. Copies' \subseteq Copies \cup {NoRequest}
  BY DEF Copies
<1>2. QED
  BY <1>1, Kept DEF RequestInv

\* No step of a publish or unpublish Job changes its digest.
LEMMA JobRequests ==
    ASSUME TypeInv, RequestInv, JobsNext
    PROVE  RequestInv'
<1>1. rjobs \in [RequestIds -> RequestJob] /\ NoRJob.uid = 0
  BY DEF TypeInv, TypeOK, NoRJob
<1>2. ASSUME UNCHANGED <<fe, cache, rc, rjobs, api>>
      PROVE  RequestInv'
  BY <1>2, KeptByJobs DEF JobsKept
<1>3. ASSUME NEW name \in JobNames,
             \/ Packager(name) \/ PackagerFail(name) \/ ExpirePackageJob(name)
             \/ CollectPackageJob(name)
      PROVE  RequestInv'
  BY <1>2, <1>3 DEF Packager, PackagerBuild, PackagerRefuse, PackagerUpsert,
     PackagerSucceed, PackagerFail, ExpirePackageJob, CollectPackageJob, PJobStep
<1>4. ASSUME NEW id \in RequestIds,
             \/ Publisher(id) \/ PublisherFail(id) \/ ExpireRequestJob(id)
             \/ CollectRequestJob(id)
      PROVE  RequestInv'
  <2>1. ASSUME NEW job \in RequestJob, job.uid \in {0, rjobs[id].uid},
               job.uid # 0 => job.digest = rjobs[id].digest,
               rjobs' = [rjobs EXCEPT ![id] = job], UNCHANGED <<fe, cache, rc, api>>
        PROVE  RequestInv'
    <3>1. JobsKept
      BY <1>1, <2>1 DEF JobsKept, RequestIds
    <3> QED BY <2>1, <3>1, KeptByJobs
  <2>2. rjobs[id] \in RequestJob
    BY <1>1
  <2>3. CASE Publisher(id)
    <3>1. UNCHANGED <<fe, cache, rc, api>>
      BY <2>3 DEF Publisher, PublisherInstall, PublisherRefuse, PublisherUninstall,
                  PublisherSucceed, RJobStep
    <3>2. CASE PublisherInstall(id) \/ PublisherUninstall(id)
      <4>1. LET job == [rjobs[id] EXCEPT !.done = TRUE]
            IN  job \in RequestJob /\ job.uid = rjobs[id].uid /\ job.digest = rjobs[id].digest
        BY <2>2 DEF RequestJob
      <4> QED BY <2>1, <3>1, <3>2, <4>1 DEF PublisherInstall, PublisherUninstall, RJobStep
    <3>3. CASE PublisherRefuse(id)
      <4>1. LET job == [rjobs[id] EXCEPT !.phase = "Failed"]
            IN  job \in RequestJob /\ job.uid = rjobs[id].uid /\ job.digest = rjobs[id].digest
        BY <2>2 DEF RequestJob, JobPhases
      <4> QED BY <2>1, <3>1, <3>3, <4>1 DEF PublisherRefuse, RJobStep
    <3>4. CASE PublisherSucceed(id)
      <4>1. clock' \in Nat
        BY <3>4 DEF PublisherSucceed, TypeInv, TypeOK
      <4>2. LET job == [rjobs[id] EXCEPT !.phase = "Succeeded", !.fin = clock']
            IN  job \in RequestJob /\ job.uid = rjobs[id].uid /\ job.digest = rjobs[id].digest
        BY <2>2, <4>1 DEF RequestJob, JobPhases
      <4> QED BY <2>1, <3>1, <3>4, <4>2 DEF PublisherSucceed, RJobStep
    <3> QED BY <2>3, <3>2, <3>3, <3>4 DEF Publisher
  <2>4. CASE PublisherFail(id)
    <3>1. LET job == [rjobs[id] EXCEPT !.phase = "Failed"]
          IN  job \in RequestJob /\ job.uid = rjobs[id].uid /\ job.digest = rjobs[id].digest
      BY <2>2 DEF RequestJob, JobPhases
    <3>2. rjobs' = [rjobs EXCEPT ![id] = [rjobs[id] EXCEPT !.phase = "Failed"]]
          /\ UNCHANGED <<fe, cache, rc, api>>
      BY <1>1, <2>4 DEF PublisherFail, RequestJob
    <3> QED BY <2>1, <3>1, <3>2
  <2>5. CASE ExpireRequestJob(id) \/ CollectRequestJob(id)
    BY <1>1, <2>1, <2>5, ObjectTypes DEF ExpireRequestJob, CollectRequestJob
  <2> QED BY <1>4, <2>3, <2>4, <2>5
<1>5. ASSUME NEW key \in Keys, CollectArtifact(key)
      PROVE  RequestInv'
  BY <1>2, <1>5 DEF CollectArtifact
<1>6. CASE RemoveDeletedFE
  <2>1. fe'.pub = NoRequest
    BY <1>6, StoredRequest, ObjectTypes, NoCopies DEF RemoveDeletedFE, TypeInv, TypeOK
  <2> QED BY <1>6, <2>1, KeptByReconcile
          DEF RemoveDeletedFE, controllerVars, objectVars, RequestInv
<1>7. QED
  BY <1>3, <1>4, <1>5, <1>6 DEF JobsNext, Collector

\* A write of the FE by somebody who leaves its publish request alone or
\* makes it a new FE.
LEMMA UserWriteRequests ==
    ASSUME TypeInv, RequestInv, NEW kind, NEW new \in FE, new.pub \in {fe.pub, NoRequest},
           UserWrites(kind, new)
    PROVE  RequestInv'
<1>1. fe'.pub = new.pub
  BY StoredRequest DEF UserWrites, TypeInv, TypeOK
<1>2. UNCHANGED <<cache, rc, rjobs, api>>
  BY DEF UserWrites, controllerVars, objectVars
<1>3. QED
  BY <1>1, <1>2, KeptByReconcile DEF RequestInv

\* Edits of the FE and of artifacts.
LEMMA UserRequests ==
    ASSUME NewIdsOnly, TypeInv, RequestInv,
           \/ \E source \in Sources : EditSpec(source)
           \/ \E token \in Tokens : SetRebuildToken(token)
           \/ \E id \in PublishIds, source \in {None, fe.src}, digest \in Digests \cup {None} :
                 AnnotatePublish(id, source, digest)
           \/ \E id \in UnpublishIds : AnnotateUnpublish(id)
           \/ DeleteInBackground \/ DeleteInForeground
           \/ \E source \in Sources, token \in Tokens : Recreate(source, token)
           \/ \E key \in Keys : TamperArtifact(key)
    PROVE  RequestInv'
<1>1. fe \in FE /\ fe.gen \in Nat /\ events \in 0 .. MaxEvents /\ "annotate" \notin Disturbances
  BY DEF TypeInv, TypeOK, FE, NewIdsOnly
<1>2. ASSUME NEW source \in Sources, EditSpec(source)
      PROVE  RequestInv'
  <2>1. LET new == [fe EXCEPT !.src = source, !.gen = fe.gen + 1]
        IN  new \in FE /\ new.pub = fe.pub
    <3>1. source \in Maybe(Sources) /\ fe.gen + 1 \in Nat
      BY <1>1 DEF Maybe
    <3> QED BY <1>1, <3>1 DEF FE
  <2> QED BY <1>2, <2>1, UserWriteRequests DEF EditSpec
<1>3. ASSUME NEW token \in Tokens, SetRebuildToken(token)
      PROVE  RequestInv'
  <2>1. [fe EXCEPT !.token = token] \in FE /\ [fe EXCEPT !.token = token].pub = fe.pub
    BY <1>1 DEF FE, Maybe
  <2> QED BY <1>3, <2>1, UserWriteRequests DEF SetRebuildToken
<1>4. ASSUME NEW id \in UnpublishIds, AnnotateUnpublish(id)
      PROVE  FALSE
  BY <1>1, <1>4 DEF AnnotateUnpublish, UserWrites, Disturb
<1>5. ASSUME NEW id \in PublishIds, NEW source \in {None, fe.src},
             NEW digest \in Digests \cup {None}, AnnotatePublish(id, source, digest)
      PROVE  FALSE
  BY <1>1, <1>5 DEF AnnotatePublish, UserWrites, Disturb
<1>6. CASE DeleteInBackground
  BY <1>6, UserWriteRequests, ObjectTypes, NoCopies DEF DeleteInBackground
<1>7. CASE DeleteInForeground
  <2>1. [fe EXCEPT !.deleting = TRUE] \in FE /\ [fe EXCEPT !.deleting = TRUE].pub = fe.pub
    BY <1>1 DEF FE
  <2> QED BY <1>7, <2>1, UserWriteRequests DEF DeleteInForeground
<1>8. ASSUME NEW source \in Sources, NEW token \in Tokens, Recreate(source, token)
      PROVE  RequestInv'
  <2>1. NewFE(events + 2, source, token, TRUE) \in FE
    <3>1. events + 2 \in Uids
      BY <1>1, <1>8, BoundsAssumption DEF Recreate, UserWrites, Disturb, Uids
    <3> QED BY <3>1, ObjectTypes
  <2> QED BY <1>8, <2>1, NoCopies, UserWriteRequests DEF Recreate
<1>9. ASSUME NEW key \in Keys, TamperArtifact(key)
      PROVE  RequestInv'
  BY <1>9, KeptByJobs DEF TamperArtifact, JobsKept
<1>10. QED
  BY <1>2, <1>3, <1>4, <1>5, <1>6, <1>7, <1>8, <1>9

\* The API accepts a request: a publish request with an id that has no copy
\* and no Job, any other without a copy.
LEMMA AcceptRequests ==
    ASSUME NewIdsOnly, RequestInv, NEW kind, NEW op, NEW id, NEW req,
           req.id \in {id, None}, Accept(kind, op, id, req)
    PROVE  RequestInv'
<1>1. /\ api'.req = req /\ api'.used = api.used \cup ({id} \ {None})
      /\ UNCHANGED <<fe, cache, rc, rjobs>> /\ id \notin api.used
  BY DEF Accept, controllerVars, objectVars, NewIdsOnly
<1>2. Copies' \subseteq Copies \cup {req}
  BY <1>1 DEF Copies
<1>3. req.id \in PublishIds => req.id = id /\ id \in api'.used
  BY <1>1, IdsAssumption
<1>4. id \in PublishIds => rjobs[id].uid = 0 /\ \A q \in Copies : q.id # id
  BY <1>1 DEF RequestInv, IdsUsed
<1>5. CopiesAgree'
  BY <1>2, <1>3, <1>4 DEF RequestInv, CopiesAgree
<1>6. IdsUsed'
  BY <1>1, <1>2, <1>3 DEF RequestInv, IdsUsed
<1>7. JobsMatch'
  BY <1>1, <1>2, <1>3, <1>4 DEF RequestInv, JobsMatch
<1>8. QED
  BY <1>1, <1>5, <1>6, <1>7 DEF RequestInv, DigestCurrent

\* The requests that the API accepts.
LEMMA TriggerRequests ==
    ASSUME NewIdsOnly, RequestInv,
           \/ \E id \in PublishIds : TriggerPublish(id)
           \/ \E id \in UnpublishIds : TriggerUnpublish(id)
           \/ \E id \in UnpublishIds, unpublish \in BOOLEAN : DeleteExtension(id, unpublish)
    PROVE  RequestInv'
<1>1. ASSUME NEW id \in PublishIds, TriggerPublish(id)
      PROVE  RequestInv'
  <2> DEFINE req == [id |-> id, gen |-> fe.gen, src |-> fe.src, digest |-> ReadyArtifact]
  <2>1. req.id = id /\ Accept("publish", "publish", id, req)
    BY <1>1, Zenon DEF TriggerPublish
  <2> HIDE DEF req
  <2> QED BY <2>1, AcceptRequests
<1>2. ASSUME NEW id \in UnpublishIds, TriggerUnpublish(id)
      PROVE  RequestInv'
  BY <1>2, AcceptRequests, NoCopies DEF TriggerUnpublish
<1>3. ASSUME NEW id \in UnpublishIds, NEW unpublish \in BOOLEAN,
             DeleteExtension(id, unpublish)
      PROVE  RequestInv'
  BY <1>3, AcceptRequests, NoCopies DEF DeleteExtension
<1>4. QED
  BY <1>1, <1>2, <1>3

\* A request that the API completes goes from its hands to the FE.
LEMMA CompleteRequests ==
    ASSUME TypeInv, RequestInv, ApiCompletes
    PROVE  RequestInv'
<1>1. api \in Call /\ fe \in FE /\ CallPrepared
  BY DEF TypeInv, TypeOK
<1>2. api'.req = NoRequest /\ api'.used = api.used
  BY NoCopies DEF ApiCompletes, PatchPublishRequest, PatchUnpublishRequest, DeleteByName, NoCall
<1>3. UNCHANGED <<cache, rc, rjobs>>
  BY DEF ApiCompletes, PatchPublishRequest, PatchUnpublishRequest, DeleteByName,
         controllerVars, objectVars
<1>4. fe'.pub \in {fe.pub, api.req, NoRequest}
  <2>1. CASE PatchPublishRequest
    <3>1. LET new == [fe EXCEPT !.pub = api.req, !.target = TRUE]
          IN  new \in FE /\ new.pub = api.req
      BY <1>1 DEF FE, Call
    <3> QED BY <1>1, <2>1, <3>1, StoredRequest DEF PatchPublishRequest
  <2>2. CASE PatchUnpublishRequest
    <3>1. api.id \in UnpublishIds
      BY <1>1, <2>2 DEF PatchUnpublishRequest, CallPrepared
    <3>2. \A delAfter \in {fe.delAfter, api.id} :
            LET new == [fe EXCEPT !.unpub = api.id, !.target = TRUE, !.delAfter = delAfter]
            IN  new \in FE /\ new.pub = fe.pub
      BY <1>1, <3>1 DEF FE, Maybe
    <3>3. PICK delAfter \in {fe.delAfter, api.id} :
            \/ fe' = fe
            \/ fe' = Stored([fe EXCEPT !.unpub = api.id, !.target = TRUE,
                                       !.delAfter = delAfter])
      BY <2>2 DEF PatchUnpublishRequest
    <3> QED BY <1>1, <3>2, <3>3, StoredRequest
  <2>3. CASE DeleteByName
    BY <1>1, <2>3, StoredRequest, ObjectTypes, NoCopies DEF DeleteByName
  <2> QED BY <2>1, <2>2, <2>3 DEF ApiCompletes
<1>5. Copies' \subseteq Copies \cup {NoRequest} /\ JobsKept
  BY <1>2, <1>3, <1>4 DEF Copies, JobsKept
<1>6. QED
  BY <1>2, <1>3, <1>5, Kept DEF RequestInv

-----------------------------------------------------------------------------
(* The theorem.                                                            *)

\* Every step preserves the invariant.
LEMMA RequestInvStep ==
    ASSUME NewIdsOnly, TypeInv, RequestInv, [Next]_vars
    PROVE  RequestInv'
<1>1. CASE ControllerNext
  BY <1>1, PackagingRequests, AnswerRequests, PublishJobMade, UnpublishJobMade,
     StatusRequests, WatchRequests DEF ControllerNext, Reconcile
<1>2. CASE JobsNext
  BY <1>2, JobRequests
<1>3. CASE ApiNext
  BY <1>3, UserRequests, TriggerRequests, CompleteRequests DEF ApiNext
<1>4. CASE UNCHANGED vars
  BY <1>4 DEF vars, RequestInv, CopiesAgree, IdsUsed, JobsMatch, DigestCurrent, Copies
<1>5. QED
  BY <1>1, <1>2, <1>3, <1>4 DEF Next

\* A publish Job installs the digest that the request on the FE names, if it
\* names one, however the FE is edited, repackaged and recreated while the
\* request is on its way, the reconcile works on an old copy of the FE, and
\* Jobs fail, expire and are made again.  It takes that an id stands for one
\* request only: nobody writes the annotations by hand or gives an old id.
THEOREM JobsMatchTheirRequests ==
    ASSUME NewIdsOnly
    PROVE  Spec => []PublishJobMatchesRequest
<1>1. TypeInv /\ RequestInv /\ [Next]_vars => RequestInv'
  BY RequestInvStep
<1>2. RequestInv => PublishJobMatchesRequest
  <2> SUFFICES ASSUME RequestInv, NEW id \in PublishIds, rjobs[id].uid = fe.uid,
                      rjobs[id].phase = "Running",
                      fe.pub.id = id, fe.pub.digest # None, fe.uid # 0
               PROVE  rjobs[id].digest = fe.pub.digest
    BY DEF PublishJobMatchesRequest
  <2> QED BY DEF RequestInv, JobsMatch, Copies
<1>3. QED
  BY <1>1, <1>2, RequestInvInit, TypeInvariance, PTL DEF Spec
=============================================================================
