---------------------- MODULE FinishedRequests_proofs ----------------------
(***************************************************************************)
(* A request that was carried out is not carried out again, and an FE that *)
(* is deleted after its unpublish leaves nothing installed: proofs for     *)
(* every value of the constants of FrontendExtension, provided that the FE *)
(* stays what it is.                                                       *)
(***************************************************************************)
EXTENDS FeRest_proofs

\* The FE keeps its source and its rebuild token until it goes, and then there
\* is no other; its artifact is neither spoilt nor replaced by a packager that
\* outlived its Job; requests come through the API, with new ids; and a Job
\* stays until the controller has seen what became of it.  With any one of
\* these there are behaviours in which a finished request gets a second Job.
Steady ==
    {"edit", "rebuild", "foreground", "recreate", "tamper", "linger", "annotate",
     "reuse", "downtime"} \cap Disturbances = {}

LEMMA SteadyIs ==
    ASSUME Steady
    PROVE  /\ "reuse" \notin Disturbances /\ "linger" \notin Disturbances
           /\ "tamper" \notin Disturbances /\ "downtime" \notin Disturbances
           /\ "edit" \notin Disturbances /\ "foreground" \notin Disturbances
BY DEF Steady

-----------------------------------------------------------------------------
(* The inductive invariant: the FE and its objects.                        *)

Alive == fe.uid # 0

\* The artifact of the FE.
Built == cms[CurrentKey].uid # 0
Digest == cms[CurrentKey].digest

\* A copy x of the FE y is of the same spec, and its requests came through
\* the API.
CopyOf(x, y) ==
    /\ x.uid = y.uid /\ x.gen = y.gen /\ x.src = y.src /\ x.token = y.token
    /\ x.target = y.target /\ ~x.deleting
    /\ x.pub.id # None => x.pub.src = x.src /\ x.target
    /\ x.unpub # None => x.target
    /\ x.delAfter # None => x.unpub # None

RequestOps == {"publish", "unpublish", "unpublishAndDelete"}

\* There is one FE, and all is of it.
LifeInv ==
    /\ fe.uid \in {0, 1} /\ ~fe.deleting
    /\ Alive =>
        /\ rc.pc \in {"idle", "gc"} =>
              rc.fe = AbsentFE /\ rc.status = NoStatus /\ rc.pub = NoPublish
        /\ rc.pc \in WorkSteps \/ rc.pc = "after" => rc.fe.uid # 0
        /\ rc.pc \in {"get", "patch", "reget", "labels"} /\ rc.status.phase = "Ready" =>
              rc.fe.uid # 0
        /\ rc.pc = "after" => rc.status.phase = "Ready"
        /\ \A x \in {fe, cache, rc.fe} : x.uid # 0 => CopyOf(x, fe)
        /\ api.op \in RequestOps => fe.target
        /\ api.op = "publish" => api.req.src = fe.src
        /\ \A name \in JobNames :
              /\ pjobs[name].uid \in {0, 1}
              /\ pjobs[name].pod = "built" => pjobs[name].owner = 1
        /\ \A id \in RequestIds :
              /\ rjobs[id].uid \in {0, 1}
              /\ rjobs[id].uid = 0 <=> rjobs[id].phase = "Absent"
              /\ rjobs[id].done => rjobs[id].uid # 0
        /\ \A key \in Keys : cms[key].uid \in {0, 1}

-----------------------------------------------------------------------------
(* What a step may change of the FE.                                       *)

SameSpec(x, y) ==
    x.uid = y.uid /\ x.gen = y.gen /\ x.src = y.src /\ x.token = y.token

SameRequests(x, y) ==
    x.pub = y.pub /\ x.unpub = y.unpub /\ x.delAfter = y.delAfter /\ x.target = y.target

\* As long as it is there the FE stays what it is; it may get a status or a
\* request.
FeMoves ==
    /\ SameSpec(fe', fe) /\ ~fe'.deleting
    /\ \/ SameRequests(fe', fe) /\ fe'.status = fe.status
       \/ /\ PatchStatus
          /\ SameRequests(fe', fe) /\ fe'.status = MergedStatus(fe.status, rc.status)
       \/ /\ PatchPublishRequest
          /\ fe'.pub = api.req /\ fe'.target
          /\ fe'.unpub = fe.unpub /\ fe'.delAfter = fe.delAfter /\ fe'.status = fe.status
       \/ /\ PatchUnpublishRequest
          /\ fe'.unpub = api.id /\ fe'.target
          /\ fe'.delAfter = IF api.op = "unpublish" THEN fe.delAfter ELSE api.id
          /\ fe'.pub = fe.pub /\ fe'.status = fe.status

\* What is stored is what was to be written, seen later or not.
LEMMA StoredIs ==
    ASSUME TypeInv, NEW new \in FE
    PROVE  LET x == Stored(new)
           IN  /\ SameSpec(x, new) /\ SameRequests(x, new) /\ x.status = new.status
               /\ x.deleting = new.deleting
<1>1. fe \in FE
  BY DEF TypeInv, TypeOK
<1> QED BY <1>1 DEF Stored, FE, SameSpec, SameRequests

\* ... and when its spec is edited nothing else happens.
FeEdited ==
    /\ "edit" \in Disturbances /\ ~fe.deleting
    /\ fe'.uid = fe.uid /\ fe'.token = fe.token /\ ~fe'.deleting /\ fe'.gen = fe.gen + 1
    /\ SameRequests(fe', fe) /\ fe'.status = fe.status
    /\ UNCHANGED <<controllerVars, objectVars, registry, clock, api>>

LEMMA FeTurns ==
    ASSUME {"rebuild", "recreate", "annotate"} \cap Disturbances = {}, TypeInv, [Next]_vars
    PROVE  \/ fe'.uid = 0 /\ ~fe'.deleting
           \/ fe'.deleting /\ (fe.deleting \/ "foreground" \in Disturbances)
           \/ ~fe.deleting /\ (FeMoves \/ FeEdited)
<1> USE Parts
<1> DEFINE moved ==
             /\ SameSpec(fe', fe) /\ fe'.deleting = fe.deleting
             /\ fe'.deleting \/ FeMoves
           edited == fe'.deleting = fe.deleting /\ (fe'.deleting \/ FeEdited)
           gone == fe'.uid = 0 /\ ~fe'.deleting
<1>0. /\ rc.status \in Status /\ AbsentFE \in FE /\ AbsentFE.uid = 0
      /\ ~AbsentFE.deleting
      /\ api.req \in Request
      /\ api.op \in {"unpublish", "unpublishAndDelete"} => api.id \in UnpublishIds
      /\ fe.delAfter \in Maybe(UnpublishIds)
  BY DEF TypeInv, TypeOK, CallPrepared, Call, FE, AbsentFE, NewFE
<1>1. fe' = fe => moved
  BY DEF FeMoves, SameSpec, SameRequests
<1>2. fe' = Stored(AbsentFE) => gone
  BY <1>0, StoredIs DEF SameSpec
<1>3. ASSUME CacheSync PROVE moved
  <2>1. fe' = [fe EXCEPT !.unseen = FALSE]
    BY <1>3 DEF CacheSync
  <2>2. /\ SameSpec(fe', fe) /\ fe'.deleting = fe.deleting /\ SameRequests(fe', fe)
        /\ fe'.status = fe.status
    BY <1>0, <2>1 DEF FE, SameSpec, SameRequests
  <2> QED BY <2>2 DEF FeMoves
<1>4. ASSUME PatchStatus PROVE moved
  <2> DEFINE merged == MergedStatus(fe.status, rc.status)
             new == [fe EXCEPT !.status = merged]
  <2>1. merged \in Status
    BY <1>0, StatusTypes, AbsentTypes DEF Maybe
  <2>2. fe' = fe \/ fe' = Stored(new)
    BY <1>4 DEF PatchStatus
  <2> HIDE DEF merged
  <2>3. /\ new \in FE /\ SameSpec(new, fe) /\ SameRequests(new, fe) /\ new.status = merged
        /\ new.deleting = fe.deleting
    BY <2>1 DEF FE, SameSpec, SameRequests
  <2> HIDE DEF new
  <2>4. CASE fe' = Stored(new)
    <3>1. /\ SameSpec(fe', new) /\ SameRequests(fe', new) /\ fe'.status = new.status
          /\ fe'.deleting = new.deleting
      BY <2>3, <2>4, StoredIs
    <3>2. SameSpec(fe', fe) /\ SameRequests(fe', fe) /\ fe'.status = merged
          /\ fe'.deleting = fe.deleting
      BY <1>0, <2>3, <3>1 DEF SameSpec, SameRequests
    <3> QED BY <1>4, <3>2 DEF FeMoves, merged
  <2> QED BY <1>1, <2>2, <2>4
<1>5. ASSUME PatchLabels PROVE moved
  <2> DEFINE new == [fe EXCEPT !.labels = rc.labels]
  <2>1. fe' = fe \/ fe' = Stored(new)
    BY <1>5 DEF PatchLabels
  <2>2. /\ new \in FE /\ SameSpec(new, fe) /\ SameRequests(new, fe) /\ new.status = fe.status
        /\ new.deleting = fe.deleting
    BY DEF FE, SameSpec, SameRequests
  <2> HIDE DEF new
  <2>3. CASE fe' = Stored(new)
    <3>1. /\ SameSpec(fe', new) /\ SameRequests(fe', new) /\ fe'.status = new.status
          /\ fe'.deleting = new.deleting
      BY <2>2, <2>3, StoredIs
    <3> QED BY <1>0, <2>2, <3>1 DEF FeMoves, SameSpec, SameRequests
  <2> QED BY <1>1, <2>1, <2>3
<1>6. ASSUME PatchPublishRequest PROVE moved
  <2> DEFINE new == [fe EXCEPT !.pub = api.req, !.target = TRUE]
  <2>1. fe.uid # 0 => fe' = Stored(new)
    BY <1>6 DEF PatchPublishRequest
  <2>2. /\ new \in FE /\ SameSpec(new, fe) /\ new.status = fe.status
        /\ new.deleting = fe.deleting /\ new.pub = api.req /\ new.target
        /\ new.unpub = fe.unpub /\ new.delAfter = fe.delAfter
    BY <1>0 DEF FE, SameSpec
  <2> HIDE DEF new
  <2>3. CASE fe.uid # 0
    <3>1. /\ SameSpec(fe', new) /\ SameRequests(fe', new) /\ fe'.status = new.status
          /\ fe'.deleting = new.deleting
      BY <2>1, <2>2, <2>3, StoredIs
    <3> QED BY <1>0, <1>6, <2>2, <3>1 DEF FeMoves, SameSpec, SameRequests
  <2> QED BY <1>1, <1>6, <2>3 DEF PatchPublishRequest
<1>7. ASSUME PatchUnpublishRequest PROVE moved
  <2> DEFINE after == IF api.op = "unpublish" THEN fe.delAfter ELSE api.id
             new == [fe EXCEPT !.unpub = api.id, !.target = TRUE, !.delAfter = after]
  <2>1. fe.uid # 0 => fe' = Stored(new)
    BY <1>7 DEF PatchUnpublishRequest
  <2>2. after \in Maybe(UnpublishIds) /\ api.id \in Maybe(UnpublishIds)
    BY <1>0, <1>7 DEF PatchUnpublishRequest, Maybe
  <2> HIDE DEF after
  <2>3. /\ new \in FE /\ SameSpec(new, fe) /\ new.status = fe.status
        /\ new.deleting = fe.deleting /\ new.unpub = api.id /\ new.target
        /\ new.delAfter = after /\ new.pub = fe.pub
    BY <2>2 DEF FE, SameSpec
  <2> HIDE DEF new
  <2>4. CASE fe.uid # 0
    <3>1. /\ SameSpec(fe', new) /\ SameRequests(fe', new) /\ fe'.status = new.status
          /\ fe'.deleting = new.deleting
      BY <2>1, <2>3, <2>4, StoredIs
    <3> QED BY <1>0, <1>7, <2>3, <3>1 DEF FeMoves, SameSpec, SameRequests, after
  <2> QED BY <1>1, <1>7, <2>4 DEF PatchUnpublishRequest
<1>8. ASSUME Reconcile \/ ReconcileError PROVE moved \/ gone
  <2>1. CASE DeleteFrontendExtension
    BY <1>1, <1>2, <2>1 DEF DeleteFrontendExtension
  <2>2. CASE \/ ReconcileStart \/ ArtifactFound \/ PackageJobInProgress
             \/ ReadArtifactAgain \/ PackageAttemptsExceeded \/ NextAttempt
             \/ CreatePackageJob \/ ObservePublishJob \/ KeepFinishedPublish
             \/ NeedPublishJob \/ CreatePublishJob \/ ObserveUnpublishJob
             \/ KeepFinishedUnpublish \/ NeedUnpublishJob \/ CreateUnpublishJob
             \/ GetLatest \/ GetPatched \/ ListOldArtifacts \/ DeleteOldArtifact
             \/ ReconcileError
    <3>1. UNCHANGED fe
      BY <2>2 DEF Continue, ReconcileStart,
       ArtifactFound, PackageJobInProgress, ReadArtifactAgain, PackageAttemptsExceeded,
       NextAttempt, CreatePackageJob, ObservePublishJob, KeepFinishedPublish,
       NeedPublishJob, CreatePublishJob, ObserveUnpublishJob, KeepFinishedUnpublish,
       NeedUnpublishJob, CreateUnpublishJob, CreateRequestJob, GetLatest, GetPatched,
       ListOldArtifacts, DeleteOldArtifact, ReconcileError
    <3> QED BY <1>1, <3>1
  <2> QED BY <1>4, <1>5, <1>8, <2>1, <2>2 DEF Reconcile
<1>9. ASSUME JobsNext PROVE moved \/ gone
  <2>1. RemoveDeletedFE => gone
    BY <1>2 DEF RemoveDeletedFE
  <2> QED BY <1>1, <1>9, <2>1
          DEF JobsNext, Packager, PackagerBuild, PackagerRefuse, PackagerUpsert,
              PackagerSucceed, PJobStep, PackagerFail, ExpirePackageJob, Publisher,
              PublisherInstall, PublisherRefuse, PublisherUninstall, PublisherSucceed,
              RJobStep, PublisherFail, ExpireRequestJob, Collector, CollectPackageJob,
              CollectRequestJob, CollectArtifact
<1>10. ASSUME ApiNext
       PROVE  moved \/ edited \/ gone \/ (fe'.deleting /\ "foreground" \in Disturbances)
  <2>1. \A kind \in {"rebuild", "recreate", "annotate"} : ~Disturb(kind)
    BY DEF Disturb
  <2>2. \/ DeleteInBackground \/ DeleteInForeground \/ ApiCompletes \/ UNCHANGED fe
        \/ \E source \in Sources : EditSpec(source)
    BY <1>10, <2>1
       DEF ApiNext, SetRebuildToken, AnnotatePublish, AnnotateUnpublish, Recreate, UserWrites,
           TamperArtifact, TriggerPublish, TriggerUnpublish, DeleteExtension, Accept
  <2>3. DeleteInBackground \/ DeleteByName => fe' = fe \/ fe' = Stored(AbsentFE)
    BY DEF DeleteInBackground, UserWrites, DeleteByName
  <2>4. ASSUME DeleteInForeground
        PROVE  fe'.deleting /\ "foreground" \in Disturbances
    <3> DEFINE new == [fe EXCEPT !.deleting = TRUE]
    <3>1. new \in FE /\ new.deleting
      BY DEF FE
    <3>2. fe' = Stored(new) /\ "foreground" \in Disturbances
      BY <2>4 DEF DeleteInForeground, UserWrites, Disturb
    <3> HIDE DEF new
    <3> QED BY <3>1, <3>2, StoredIs
  <2>5. ASSUME NEW source \in Sources, EditSpec(source)
        PROVE  edited
    <3> DEFINE new == [fe EXCEPT !.src = source, !.gen = fe.gen + 1]
    <3>0. fe.gen + 1 \in Nat /\ source \in Maybe(Sources)
      BY DEF FE, Maybe
    <3>1. /\ new \in FE /\ new.deleting = fe.deleting /\ new.gen = fe.gen + 1
          /\ new.uid = fe.uid /\ new.token = fe.token /\ SameRequests(new, fe)
          /\ new.status = fe.status
      BY <3>0 DEF FE, SameRequests
    <3>2. /\ fe' = Stored(new) /\ "edit" \in Disturbances
          /\ UNCHANGED <<controllerVars, objectVars, registry, clock, api>>
      BY <2>5 DEF EditSpec, UserWrites, Disturb
    <3> HIDE DEF new
    <3>3. /\ SameSpec(fe', new) /\ SameRequests(fe', new) /\ fe'.status = new.status
          /\ fe'.deleting = new.deleting
      BY <3>1, <3>2, StoredIs
    <3>4. /\ fe'.uid = fe.uid /\ fe'.token = fe.token /\ fe'.deleting = fe.deleting
          /\ fe'.gen = fe.gen + 1
          /\ SameRequests(fe', fe) /\ fe'.status = fe.status
      BY <3>1, <3>3 DEF SameSpec, SameRequests
    <3> QED BY <3>2, <3>4 DEF FeEdited
  <2> QED BY <1>1, <1>2, <1>6, <1>7, <2>2, <2>3, <2>4, <2>5 DEF ApiCompletes
<1> HIDE DEF moved, edited, gone
<1>11. moved \/ edited \/ gone \/ (fe'.deleting /\ "foreground" \in Disturbances)
  BY <1>1, <1>3, <1>8, <1>9, <1>10 DEF Next, ControllerNext, vars
<1> QED BY <1>11 DEF moved, edited, gone

LEMMA FeSteps ==
    ASSUME Steady, TypeInv, LifeInv, [Next]_vars
    PROVE  (fe'.uid = 0 /\ ~fe'.deleting) \/ FeMoves
<1>1. {"rebuild", "recreate", "annotate"} \cap Disturbances = {}
  BY DEF Steady
<1> QED BY <1>1, FeTurns, SteadyIs DEF LifeInv, FeEdited

-----------------------------------------------------------------------------
(* How a reconcile moves.                                                  *)

\* It goes on with what it has.
Kept ==
    /\ rc'.fe = rc.fe /\ rc'.status = rc.status /\ rc'.pub = rc.pub
    /\ rc'.digest = rc.digest /\ rc'.doomed = rc.doomed

LooksAt(pcs) == rc.pc \in pcs /\ MatchingArtifact(ArtifactKey(rc.fe))

Decides(status) ==
    /\ rc'.pc = "get" /\ rc'.status = status
    /\ rc'.pub = NoPublish /\ rc'.doomed = {}

Begins ==
    /\ rc.pc = "idle" /\ cache.uid # 0 /\ cache.src \in ValidSources
    /\ rc'.pc = "artifact" /\ rc'.fe = cache
    /\ rc'.status = NoStatus /\ rc'.pub = NoPublish /\ rc'.doomed = {}

LooksOn ==
    /\ rc.pc \in {"artifact", "artifactAgain"} /\ ~MatchingArtifact(ArtifactKey(rc.fe))
    /\ rc'.pc \in {"artifactAgain", "create"} /\ Kept

GivesUp(x) ==
    /\ x.uid # 0
    /\ \/ rc.pc = "idle" /\ x = cache /\ x.src \notin ValidSources
       \/ /\ rc.pc \in {"artifact", "artifactAgain"} /\ x = rc.fe
          /\ ~MatchingArtifact(ArtifactKey(x))
       \/ rc.pc = "create" /\ x = rc.fe
    /\ Decides(PackagingStatus(x)) \/ Decides(FailedStatus(x))
    /\ rc'.fe = AbsentFE

AsksPublish ==
    /\ LooksAt({"artifact", "artifactAgain"})
    /\ rc'.digest = cms[ArtifactKey(rc.fe)].digest
    /\ rc.fe.pub.id # None /\ ~RequestStale(rc.fe, rc'.digest)
    /\ rc'.pc = "publish" /\ rc'.fe = rc.fe /\ rc'.status = rc.status
    /\ rc'.pub = rc.pub /\ rc'.doomed = rc.doomed

NeedsPublish ==
    /\ rc.pc = "publish" /\ rjobs[rc.fe.pub.id].uid = 0
    /\ ~PublishAlreadyFinished(rc.fe, rc.digest)
    /\ rc'.pc = "createPublish" /\ Kept

\* The answer to the publish request, for the artifact of that digest.
PublishAnswer(publish, digest) ==
    \/ /\ LooksAt({"artifact", "artifactAgain"})
       /\ digest = cms[ArtifactKey(rc.fe)].digest
       /\ rc.fe.pub.id = None \/ RequestStale(rc.fe, digest)
       /\ publish = RetainedPublish(rc.fe)
    \/ /\ rc.pc \in {"publish", "createPublish"} /\ digest = rc.digest
       /\ rjobs'[rc.fe.pub.id].uid # 0
       /\ publish = PublishFromJob(rc.fe.pub.id, digest, rjobs'[rc.fe.pub.id])
    \/ /\ rc.pc = "publish" /\ digest = rc.digest
       /\ PublishAlreadyFinished(rc.fe, digest) /\ publish = rc.fe.status.pub

AnswersPublish(publish, digest) ==
    /\ PublishAnswer(publish, digest)
    /\ rc'.fe = rc.fe
    /\ \/ /\ rc.fe.unpub # None /\ rc'.pc = "unpublish" /\ rc'.status = rc.status
          /\ rc'.pub = publish /\ rc'.digest = digest /\ rc'.doomed = rc.doomed
       \/ /\ rc.fe.unpub = None
          /\ Decides(ReadyStatus(rc.fe, digest, publish, rc.fe.status.unpub))

NeedsUnpublish ==
    /\ rc.pc = "unpublish" /\ rjobs[rc.fe.unpub].uid = 0
    /\ ~UnpublishAlreadyFinished(rc.fe)
    /\ rc'.pc = "createUnpublish" /\ Kept

UnpublishAnswer(unpublish) ==
    \/ /\ rc.pc \in {"unpublish", "createUnpublish"} /\ rjobs'[rc.fe.unpub].uid # 0
       /\ unpublish = UnpublishFromJob(rc.fe.unpub, rjobs'[rc.fe.unpub])
    \/ /\ rc.pc = "unpublish" /\ UnpublishAlreadyFinished(rc.fe)
       /\ unpublish = rc.fe.status.unpub

AnswersUnpublish(unpublish) ==
    /\ UnpublishAnswer(unpublish)
    /\ rc'.fe = rc.fe
    /\ Decides(ReadyStatus(rc.fe, rc.digest, rc.pub, unpublish))

Writes ==
    /\ rc.pc \in {"get", "patch", "reget", "labels"}
    /\ rc'.pc \in {"patch", "reget", "labels", "after"} /\ Kept
    /\ rc'.pc = "patch" => rc.pc = "get"
    /\ rc'.pc = "after" => rc.status.phase = "Ready"
    /\ rc.pc = "patch" => rc'.pc = "reget" /\ PatchStatus
    /\ rc.pc = "get" /\ rc'.pc # "patch" => fe.status = rc.status \/ ~Observes(rc.status, fe)

Collects ==
    /\ \/ rc.pc = "gc" /\ rc'.doomed \subseteq rc.doomed
       \/ /\ rc.pc = "after" /\ ArtifactKey(rc.fe) \notin rc'.doomed
          /\ ~ShouldDeleteAfterUnpublish
    /\ rc'.pc = "gc" /\ rc'.fe = AbsentFE /\ rc'.status = NoStatus /\ rc'.pub = NoPublish

Ends ==
    /\ rc' = NoReconcile
    /\ rc.pc = "get" =>
          queue' = "event" \/ fe.status = rc.status \/ ~Observes(rc.status, fe)
    /\ \/ queue' = "event" \/ fe'.uid = 0 \/ rc.pc = "gc"
       \/ rc.pc = "after" /\ (fe.deleting \/ ~ShouldDeleteAfterUnpublish)
       \/ rc.pc \in {"get", "reget", "labels"} /\ rc.status.phase # "Ready"

ReconcileMoves ==
    \/ Begins \/ LooksOn \/ (\E x \in {cache, rc.fe} : GivesUp(x))
    \/ AsksPublish \/ NeedsPublish
    \/ (\E publish \in PublishStatus, digest \in Maybe(Digests) :
           AnswersPublish(publish, digest))
    \/ NeedsUnpublish \/ (\E unpublish \in UnpublishStatus : AnswersUnpublish(unpublish))
    \/ Writes \/ Collects \/ Ends

\* What a reconcile that has decided looks like.
LEMMA WriteDecides ==
    ASSUME NEW r \in ReconcileState, NEW status \in Status, NEW requeue \in BOOLEAN,
           NEW q \in {Write(r, status, requeue)}
    PROVE  /\ q.pc = "get" /\ q.status = status /\ q.pub = NoPublish /\ q.doomed = {}
           /\ q.fe = IF status.phase = "Ready" THEN r.fe ELSE AbsentFE
<1>1. NoReconcile \in ReconcileState /\ AbsentFE \in FE /\ r.fe \in FE
      /\ NoReconcile.pub = NoPublish /\ NoReconcile.doomed = {}
  BY ObjectTypes DEF ReconcileState, NoReconcile
<1> DEFINE who == IF status.phase = "Ready" THEN r.fe ELSE AbsentFE
<1>2. who \in FE
  BY <1>1
<1>3. q = [NoReconcile EXCEPT !.pc = "get", !.status = status, !.requeue = requeue, !.fe = who]
  BY DEF Write
<1> HIDE DEF who
<1>4. q.pc = "get" /\ q.status = status /\ q.fe = who /\ q.pub = NoPublish /\ q.doomed = {}
  BY <1>1, <1>2, <1>3 DEF ReconcileState, ReconcileSteps
<1> QED BY <1>4 DEF who

\* ... and one whose artifact is ready.
LEMMA ReadyDecides ==
    ASSUME NEW r \in ReconcileState, NEW unpublish \in UnpublishStatus,
           NEW requeue \in BOOLEAN, NEW q \in {WriteReady(r, unpublish, requeue)}
    PROVE  /\ q.pc = "get" /\ q.status = ReadyStatus(r.fe, r.digest, r.pub, unpublish)
           /\ q.pub = NoPublish /\ q.doomed = {} /\ q.fe = r.fe
           /\ q.status \in Status
<1>1. /\ r.fe \in FE /\ r.digest \in Maybe(Digests) /\ r.pub \in PublishStatus
      /\ r.requeue \in BOOLEAN
  BY DEF ReconcileState
<1> DEFINE status == ReadyStatus(r.fe, r.digest, r.pub, unpublish)
           again == r.requeue \/ requeue
<1>2. status \in Status /\ status.phase = "Ready"
  BY <1>1, StatusTypes, AbsentTypes DEF ReadyStatus, StatusFor
<1>3. again \in BOOLEAN /\ q = Write(r, status, again)
  BY DEF WriteReady
<1> HIDE DEF status, again
<1>4. /\ q.pc = "get" /\ q.status = status /\ q.pub = NoPublish /\ q.doomed = {}
      /\ q.fe = r.fe
  BY <1>2, <1>3, WriteDecides
<1> QED BY <1>2, <1>4 DEF status

\* The unpublish request is looked at when the publish request is answered.
LEMMA PublishedMoves ==
    ASSUME NEW r \in ReconcileState, NEW publish \in PublishStatus, NEW requeue \in BOOLEAN,
           r.fe.unpub # None => r.fe.target,
           NEW q \in {Published(r, publish, requeue)}
    PROVE  /\ q.fe = r.fe
           /\ \/ /\ r.fe.unpub # None /\ q.pc = "unpublish" /\ q.status = r.status
                 /\ q.pub = publish /\ q.digest = r.digest /\ q.doomed = r.doomed
              \/ /\ r.fe.unpub = None /\ q.pc = "get"
                 /\ q.status = ReadyStatus(r.fe, r.digest, publish, r.fe.status.unpub)
                 /\ q.pub = NoPublish /\ q.doomed = {}
<1> DEFINE p == [r EXCEPT !.pub = publish, !.requeue = requeue]
<1>1. /\ p \in ReconcileState /\ p.fe = r.fe /\ p.status = r.status /\ p.pub = publish
      /\ p.digest = r.digest /\ p.doomed = r.doomed
  BY DEF ReconcileState
<1>2. q = SyncUnpublish(p) /\ r.fe.status.unpub \in UnpublishStatus
  BY DEF Published, ReconcileState, FE, Status
<1> HIDE DEF p
<1>3. CASE r.fe.unpub = None
  <2>1. PICK again \in BOOLEAN : q = WriteReady(p, p.fe.status.unpub, again)
    BY <1>1, <1>2, <1>3 DEF SyncUnpublish
  <2> QED BY <1>1, <1>2, <1>3, <2>1, ReadyDecides
<1>4. CASE r.fe.unpub # None
  <2>1. q = [p EXCEPT !.pc = "unpublish"]
    BY <1>1, <1>2, <1>4 DEF SyncUnpublish
  <2>2. /\ q.pc = "unpublish" /\ q.fe = p.fe /\ q.status = p.status /\ q.pub = p.pub
        /\ q.digest = p.digest /\ q.doomed = p.doomed
    BY <1>1, <2>1, GotoIs DEF ReconcileSteps
  <2> QED BY <1>1, <1>4, <2>2
<1> QED BY <1>3, <1>4

\* A reconcile is not about an FE that is being deleted, and the requests of
\* the copy it works on are valid.
WorkValid ==
    /\ cache.uid # 0 => ~cache.deleting
    /\ rc.pc \in {"idle", "gc"} =>
          rc.fe = AbsentFE /\ rc.status = NoStatus /\ rc.pub = NoPublish
    /\ rc.pc \in WorkSteps =>
          /\ rc.fe.uid # 0
          /\ rc.fe.unpub # None => rc.fe.target
          /\ rc.fe.pub.id # None => ~RequestInvalid(rc.fe)

LEMMA WorkIsValid ==
    ASSUME TypeInv, LifeInv, Alive
    PROVE  WorkValid
<1>1. \A x \in {cache, rc.fe} : x.uid # 0 => CopyOf(x, fe)
  BY DEF LifeInv
<1>2. fe.src # None
  BY NoneAssumption DEF TypeInv, Keyed, Alive
<1>3. cache.uid # 0 => ~cache.deleting
  BY <1>1 DEF CopyOf
<1> QED BY <1>1, <1>2, <1>3 DEF CopyOf, RequestInvalid, LifeInv, WorkValid

\* It starts, and looks for the artifact.
LEMMA PackagingMoves ==
    ASSUME TypeInv, WorkValid,
           \/ ReconcileStart \/ ArtifactFound \/ PackageJobInProgress \/ ReadArtifactAgain
           \/ PackageAttemptsExceeded \/ NextAttempt \/ CreatePackageJob
    PROVE  ReconcileMoves
<1> USE Parts
<1>1. CASE ReconcileStart
  <2>1. /\ rc.pc = "idle" /\ cache.uid # 0 /\ ~cache.deleting
    BY <1>1 DEF ReconcileStart, WorkValid
  <2> DEFINE n == LatestAttempt(cache)
             phase == IF n = 0 THEN "Absent" ELSE pjobs[<<ArtifactKey(cache), n>>].phase
             listed == [NoReconcile EXCEPT !.pc = "artifact", !.fe = cache, !.att = n,
                                           !.phase = phase]
  <2>2. rc' = IF cache.src \notin ValidSources THEN Write(listed, FailedStatus(cache), FALSE)
              ELSE listed
    BY <1>1, <2>1 DEF ReconcileStart
  <2>3. n \in 0 .. MaxAttempts
    BY LatestAttemptIsLatest
  <2>4. phase \in JobPhases
    <3>1. ArtifactKey(cache) \in Keys
      BY <2>1 DEF TypeInv, Keyed, ArtifactKey, Keys
    <3>2. n # 0 => <<ArtifactKey(cache), n>> \in JobNames
      BY <2>3, <3>1, MaxAttemptsAssumption DEF JobNames, Attempts
    <3>3. \A name \in JobNames : pjobs[name].phase \in JobPhases
      BY DEF PackageJob
    <3> HIDE DEF n
    <3> QED BY <3>2, <3>3 DEF JobPhases
  <2> HIDE DEF n, phase
  <2>5. /\ listed \in ReconcileState /\ listed.pc = "artifact" /\ listed.fe = cache
        /\ listed.status = NoStatus /\ listed.pub = NoPublish /\ listed.doomed = {}
    <3>1. /\ NoReconcile.status = NoStatus /\ NoReconcile.pub = NoPublish
          /\ NoReconcile.doomed = {}
      BY DEF NoReconcile
    <3> QED BY <2>3, <2>4, <3>1 DEF ReconcileState, ReconcileSteps
  <2> HIDE DEF listed
  <2>6. CASE cache.src \in ValidSources
    BY <2>1, <2>2, <2>5, <2>6 DEF ReconcileMoves, Begins
  <2>7. CASE cache.src \notin ValidSources
    <3>1. FailedStatus(cache) \in Status /\ FailedStatus(cache).phase = "Failed"
      BY StatusTypes, AbsentTypes DEF Maybe, FailedStatus, StatusFor
    <3>2. PICK requeue \in BOOLEAN : rc' = Write(listed, FailedStatus(cache), requeue)
      BY <2>2, <2>7
    <3>3. Decides(FailedStatus(cache)) /\ rc'.fe = AbsentFE
      BY <2>5, <3>1, <3>2, WriteDecides DEF Decides
    <3> QED BY <2>1, <2>7, <3>3 DEF ReconcileMoves, GivesUp
  <2> QED BY <2>6, <2>7
<1>2. CASE ~ReconcileStart
  <2>1. rc.pc \in {"artifact", "artifactAgain", "create"}
    BY <1>2 DEF ArtifactFound, PackageJobInProgress, ReadArtifactAgain,
       PackageAttemptsExceeded, NextAttempt, CreatePackageJob, NoArtifact, AttemptWasted
  <2>2. /\ rc.fe.uid # 0 /\ ArtifactKey(rc.fe) \in Keys
        /\ rc.fe.unpub # None => rc.fe.target
        /\ rc.fe.pub.id # None => ~RequestInvalid(rc.fe)
    BY <2>1 DEF WorkValid, WorkSteps, TypeInv, Prepared
  <2>3. /\ PackagingStatus(rc.fe) \in Status /\ PackagingStatus(rc.fe).phase = "Packaging"
        /\ FailedStatus(rc.fe) \in Status /\ FailedStatus(rc.fe).phase = "Failed"
    BY StatusTypes, AbsentTypes DEF Maybe, PackagingStatus, FailedStatus, StatusFor
  <2>4. CASE PackageJobInProgress \/ PackageAttemptsExceeded \/ CreatePackageJob
    <3>1. \/ rc.pc \in {"artifact", "artifactAgain"} /\ ~MatchingArtifact(ArtifactKey(rc.fe))
          \/ rc.pc = "create"
      BY <2>4 DEF PackageJobInProgress, PackageAttemptsExceeded, CreatePackageJob,
                  NoArtifact, AttemptWasted
    <3>2. PICK requeue \in BOOLEAN : \/ rc' = Write(rc, PackagingStatus(rc.fe), requeue)
                                     \/ rc' = Write(rc, FailedStatus(rc.fe), requeue)
      BY <2>4 DEF PackageJobInProgress, PackageAttemptsExceeded, CreatePackageJob, Continue
    <3>3. /\ Decides(PackagingStatus(rc.fe)) \/ Decides(FailedStatus(rc.fe))
          /\ rc'.fe = AbsentFE
      BY <2>3, <3>2, WriteDecides DEF Decides
    <3> QED BY <2>2, <3>1, <3>3 DEF ReconcileMoves, GivesUp
  <2>5. CASE ReadArtifactAgain \/ NextAttempt
    <3>1. /\ rc.pc \in {"artifact", "artifactAgain"} /\ ~MatchingArtifact(ArtifactKey(rc.fe))
          /\ \E pc \in {"artifactAgain", "create"} : rc' = [rc EXCEPT !.pc = pc]
      BY <2>5 DEF ReadArtifactAgain, NextAttempt, NoArtifact, AttemptWasted, Continue
    <3>2. rc'.pc \in {"artifactAgain", "create"} /\ Kept
      BY <3>1 DEF Kept, ReconcileState
    <3> QED BY <3>1, <3>2 DEF ReconcileMoves, LooksOn
  <2>6. CASE ArtifactFound
    <3> DEFINE digest == cms[ArtifactKey(rc.fe)].digest
               r == [rc EXCEPT !.digest = digest, !.att = 0, !.phase = "Absent"]
    <3>1. rc' = SyncPublish(r) /\ LooksAt({"artifact", "artifactAgain"})
      BY <2>6 DEF ArtifactFound, Continue, LooksAt
    <3>2. digest \in Maybe(Digests) /\ 0 \in 0 .. MaxAttempts
      BY <2>2, MaxAttemptsAssumption DEF ConfigMap
    <3> HIDE DEF digest
    <3>3. /\ r \in ReconcileState /\ r.fe = rc.fe /\ r.status = rc.status /\ r.pub = rc.pub
          /\ r.digest = digest /\ r.doomed = rc.doomed
      BY <3>2 DEF ReconcileState, JobPhases
    <3> HIDE DEF r
    <3>4. CASE rc.fe.pub.id = None \/ RequestStale(rc.fe, digest)
      <4> DEFINE publish == RetainedPublish(rc.fe)
      <4>1. publish \in PublishStatus
        <5>1. PICK job \in RequestJob : TRUE
          BY ObjectTypes
        <5> QED BY <5>1, SectionTypes, AbsentTypes DEF Maybe
      <4>2. PICK requeue \in BOOLEAN : rc' = Published(r, publish, requeue)
        BY <3>1, <3>3, <3>4 DEF SyncPublish
      <4>3. PublishAnswer(publish, digest)
        BY <3>1, <3>4 DEF PublishAnswer, digest
      <4> HIDE DEF publish
      <4>4. AnswersPublish(publish, digest)
        BY <2>2, <3>3, <4>1, <4>2, <4>3, PublishedMoves DEF AnswersPublish, Decides
      <4> QED BY <3>2, <4>1, <4>4 DEF ReconcileMoves
    <3>5. CASE rc.fe.pub.id # None /\ ~RequestStale(rc.fe, digest)
      <4>1. rc' = [r EXCEPT !.pc = "publish"]
        BY <2>2, <3>1, <3>3, <3>5 DEF SyncPublish
      <4>2. /\ rc'.pc = "publish" /\ rc'.fe = r.fe /\ rc'.status = r.status
            /\ rc'.pub = r.pub /\ rc'.digest = r.digest /\ rc'.doomed = r.doomed
        BY <3>3, <4>1, GotoIs DEF ReconcileSteps
      <4> QED BY <3>1, <3>3, <3>5, <4>2 DEF ReconcileMoves, AsksPublish, digest
    <3> QED BY <3>4, <3>5
  <2> QED BY <1>2, <2>4, <2>5, <2>6
<1> QED BY <1>1, <1>2

\* It looks at the Jobs of the requests.
LEMMA RequestMoves ==
    ASSUME TypeInv, WorkValid,
           \/ ObservePublishJob \/ KeepFinishedPublish \/ NeedPublishJob \/ CreatePublishJob
           \/ ObserveUnpublishJob \/ KeepFinishedUnpublish \/ NeedUnpublishJob
           \/ CreateUnpublishJob
    PROVE  ReconcileMoves
<1> USE Parts
<1>1. CASE ObservePublishJob \/ KeepFinishedPublish \/ NeedPublishJob \/ CreatePublishJob
  <2>1. rc.pc \in {"publish", "createPublish"}
    BY <1>1 DEF ObservePublishJob, KeepFinishedPublish, NeedPublishJob, CreatePublishJob
  <2>2. rc.fe.uid # 0 /\ (rc.fe.unpub # None => rc.fe.target)
    BY <2>1 DEF WorkValid, WorkSteps
  <2>3. rc.fe.pub.id \in PublishIds /\ rc.fe.status.pub \in PublishStatus
    BY <2>1 DEF TypeInv, Prepared, FE, Status
  <2>4. ASSUME NEW publish \in PublishStatus, NEW requeue \in BOOLEAN,
               rc' = Published(rc, publish, requeue), PublishAnswer(publish, rc.digest)
        PROVE  ReconcileMoves
    <3>1. AnswersPublish(publish, rc.digest)
      BY <2>2, <2>4, PublishedMoves DEF AnswersPublish, Decides
    <3> QED BY <3>1 DEF ReconcileMoves
  <2>5. ASSUME NEW job \in RequestJob, rjobs'[rc.fe.pub.id] = job, job.uid # 0,
               rc' = PublishJobSynced(job)
        PROVE  ReconcileMoves
    <3> DEFINE publish == PublishFromJob(rc.fe.pub.id, rc.digest, job)
    <3>1. publish \in PublishStatus
      <4>1. job.phase \in JobPhases /\ job.fin \in Nat
        BY DEF RequestJob
      <4> QED BY <2>3, <4>1 DEF PublishFromJob, PublishStatus, Maybe
    <3>2. PublishAnswer(publish, rc.digest)
      BY <2>1, <2>5 DEF PublishAnswer
    <3>3. PICK requeue \in BOOLEAN : rc' = Published(rc, publish, requeue)
      BY <2>5 DEF PublishJobSynced
    <3> HIDE DEF publish
    <3> QED BY <2>4, <3>1, <3>2, <3>3
  <2>6. rjobs[rc.fe.pub.id] \in RequestJob
    BY <2>3 DEF RequestIds
  <2>7. CASE ObservePublishJob
    BY <2>5, <2>6, <2>7 DEF ObservePublishJob, Continue, objectVars
  <2>8. CASE CreatePublishJob
    <3> DEFINE made == [NoRJob EXCEPT !.uid = rc.fe.uid, !.phase = "Running",
                                      !.digest = rc.digest, !.key = ArtifactKey(rc.fe)]
    <3>1. made \in RequestJob /\ made.uid = rc.fe.uid
      <4>1. ArtifactKey(rc.fe) \in Keys /\ rc.fe.uid \in Nat
        BY <2>1 DEF TypeInv, Prepared, WorkSteps, FE, Uids
      <4> QED BY <4>1, ObjectTypes DEF RequestJob, JobPhases, Maybe
    <3>2. \/ rjobs[rc.fe.pub.id].uid = 0 /\ rjobs' = [rjobs EXCEPT ![rc.fe.pub.id] = made]
          \/ rjobs[rc.fe.pub.id].uid # 0 /\ rjobs' = rjobs
      BY <2>8 DEF CreatePublishJob, CreateRequestJob
    <3> HIDE DEF made
    <3>3. rjobs'[rc.fe.pub.id] \in RequestJob /\ rjobs'[rc.fe.pub.id].uid # 0
      BY <2>2, <2>3, <2>6, <3>1, <3>2 DEF RequestIds
    <3> QED BY <2>5, <2>8, <3>3 DEF CreatePublishJob
  <2>9. CASE KeepFinishedPublish
    <3>1. rc' = Published(rc, rc.fe.status.pub, FALSE)
      BY <2>9 DEF KeepFinishedPublish, Continue
    <3>2. PublishAnswer(rc.fe.status.pub, rc.digest)
      BY <2>9 DEF KeepFinishedPublish, PublishAnswer
    <3> QED BY <2>3, <2>4, <3>1, <3>2
  <2>10. CASE NeedPublishJob
    <3>1. rc'.pc = "createPublish" /\ Kept
      BY <2>10 DEF NeedPublishJob, Continue, Kept, ReconcileState
    <3> QED BY <2>10, <3>1 DEF ReconcileMoves, NeedsPublish, NeedPublishJob
  <2> QED BY <1>1, <2>7, <2>8, <2>9, <2>10
<1>2. CASE \/ ObserveUnpublishJob \/ KeepFinishedUnpublish \/ NeedUnpublishJob
           \/ CreateUnpublishJob
  <2>1. rc.pc \in {"unpublish", "createUnpublish"}
    BY <1>2 DEF ObserveUnpublishJob, KeepFinishedUnpublish, NeedUnpublishJob,
                CreateUnpublishJob
  <2>2. rc.fe.uid # 0
    BY <2>1 DEF WorkValid, WorkSteps
  <2>3. rc.fe.unpub \in UnpublishIds /\ rc.fe.status.unpub \in UnpublishStatus
    BY <2>1 DEF TypeInv, Prepared, FE, Status
  <2>4. ASSUME NEW unpublish \in UnpublishStatus, NEW requeue \in BOOLEAN,
               rc' = WriteReady(rc, unpublish, requeue), UnpublishAnswer(unpublish)
        PROVE  ReconcileMoves
    <3>1. AnswersUnpublish(unpublish)
      BY <2>4, ReadyDecides DEF AnswersUnpublish, Decides
    <3> QED BY <3>1 DEF ReconcileMoves
  <2>5. ASSUME NEW job \in RequestJob, rjobs'[rc.fe.unpub] = job, job.uid # 0,
               rc' = UnpublishJobSynced(job)
        PROVE  ReconcileMoves
    <3> DEFINE unpublish == UnpublishFromJob(rc.fe.unpub, job)
    <3>1. unpublish \in UnpublishStatus
      <4>1. job.phase \in JobPhases /\ job.fin \in Nat
        BY DEF RequestJob
      <4> QED BY <2>3, <4>1 DEF UnpublishFromJob, UnpublishStatus, Maybe
    <3>2. UnpublishAnswer(unpublish)
      BY <2>1, <2>5 DEF UnpublishAnswer
    <3>3. PICK requeue \in BOOLEAN : rc' = WriteReady(rc, unpublish, requeue)
      BY <2>5 DEF UnpublishJobSynced
    <3> HIDE DEF unpublish
    <3> QED BY <2>4, <3>1, <3>2, <3>3
  <2>6. rjobs[rc.fe.unpub] \in RequestJob
    BY <2>3 DEF RequestIds
  <2>7. CASE ObserveUnpublishJob
    BY <2>5, <2>6, <2>7 DEF ObserveUnpublishJob, Continue, objectVars
  <2>8. CASE CreateUnpublishJob
    <3> DEFINE made == [NoRJob EXCEPT !.uid = rc.fe.uid, !.phase = "Running"]
    <3>1. made \in RequestJob /\ made.uid = rc.fe.uid
      <4>1. rc.fe.uid \in Nat
        BY DEF FE, Uids
      <4> QED BY <4>1, ObjectTypes DEF RequestJob, JobPhases
    <3>2. \/ rjobs[rc.fe.unpub].uid = 0 /\ rjobs' = [rjobs EXCEPT ![rc.fe.unpub] = made]
          \/ rjobs[rc.fe.unpub].uid # 0 /\ rjobs' = rjobs
      BY <2>8 DEF CreateUnpublishJob, CreateRequestJob
    <3> HIDE DEF made
    <3>3. rjobs'[rc.fe.unpub] \in RequestJob /\ rjobs'[rc.fe.unpub].uid # 0
      BY <2>2, <2>3, <2>6, <3>1, <3>2 DEF RequestIds
    <3> QED BY <2>5, <2>8, <3>3 DEF CreateUnpublishJob
  <2>9. CASE KeepFinishedUnpublish
    <3>1. rc' = WriteReady(rc, rc.fe.status.unpub, FALSE)
      BY <2>9 DEF KeepFinishedUnpublish, Continue
    <3>2. UnpublishAnswer(rc.fe.status.unpub)
      BY <2>9 DEF KeepFinishedUnpublish, UnpublishAnswer
    <3> QED BY <2>3, <2>4, <3>1, <3>2
  <2>10. CASE NeedUnpublishJob
    <3>1. rc'.pc = "createUnpublish" /\ Kept
      BY <2>10 DEF NeedUnpublishJob, Continue, Kept, ReconcileState
    <3> QED BY <2>10, <3>1 DEF ReconcileMoves, NeedsUnpublish, NeedUnpublishJob
  <2> QED BY <1>2, <2>7, <2>8, <2>9, <2>10
<1> QED BY <1>1, <1>2

\* It writes the status and what comes after.
LEMMA WritingMoves ==
    ASSUME TypeInv, WorkValid,
           \/ GetLatest \/ PatchStatus \/ GetPatched \/ PatchLabels
           \/ DeleteFrontendExtension \/ ListOldArtifacts \/ DeleteOldArtifact
           \/ ReconcileError
    PROVE  ReconcileMoves
<1> USE Parts
<1>1. ASSUME NEW pc \in {"patch", "reget", "after"}, rc' = [rc EXCEPT !.pc = pc]
      PROVE  rc'.pc = pc /\ Kept
  BY <1>1 DEF Kept, ReconcileState
<1>2. ASSUME StatusDone, rc.pc \in {"get", "reget", "labels"},
             rc.pc = "get" => fe.status = rc.status \/ ~Observes(rc.status, fe)
      PROVE  Writes \/ Ends
  <2>1. CASE rc.status.phase = "Ready"
    BY <1>1, <1>2, <2>1 DEF StatusDone, Writes
  <2>2. CASE rc.status.phase # "Ready"
    BY <1>2, <2>2 DEF StatusDone, Finish, Ends
  <2> QED BY <2>1, <2>2
<1>3. ASSUME LabelsOrDone, rc.pc \in {"get", "reget"},
             rc.pc = "get" => fe.status = rc.status
      PROVE  Writes \/ Ends
  <2>1. CASE rc' = [rc EXCEPT !.pc = "labels", !.labels = StatusLabels(fe.status)]
    <3>1. rc'.pc = "labels" /\ Kept
      BY <2>1 DEF Kept, ReconcileState
    <3> QED BY <1>3, <3>1 DEF Writes
  <2> QED BY <1>2, <1>3, <2>1 DEF LabelsOrDone
<1>4. Abort => Ends
  BY DEF Abort, Notify, Ends
<1>5. CASE GetLatest
  <2>1. /\ rc.pc = "get"
        /\ \/ Abort \/ rc' = [rc EXCEPT !.pc = "patch"]
           \/ StatusDone /\ ~Observes(rc.status, fe)
           \/ LabelsOrDone /\ fe.status = rc.status
    BY <1>5 DEF GetLatest
  <2>2. rc' = [rc EXCEPT !.pc = "patch"] => Writes
    BY <1>1, <2>1 DEF Writes
  <2> QED BY <1>2, <1>3, <1>4, <2>1, <2>2 DEF ReconcileMoves
<1>6. CASE PatchStatus
  <2>1. rc.pc = "patch" /\ (Abort \/ rc' = [rc EXCEPT !.pc = "reget"])
    BY <1>6 DEF PatchStatus
  <2>2. rc' = [rc EXCEPT !.pc = "reget"] => Writes
    BY <1>1, <1>6, <2>1 DEF Writes
  <2> QED BY <1>4, <2>1, <2>2 DEF ReconcileMoves
<1>7. CASE GetPatched
  BY <1>3, <1>4, <1>7 DEF GetPatched, ReconcileMoves
<1>8. CASE PatchLabels
  BY <1>2, <1>4, <1>8 DEF PatchLabels, ReconcileMoves
<1>9. CASE DeleteFrontendExtension
  <2>1. fe' = Stored(AbsentFE) => fe'.uid = 0
    BY StoredIs DEF SameSpec
  <2> QED BY <1>4, <1>9, <2>1 DEF DeleteFrontendExtension, ReconcileMoves, Ends
<1>10. CASE ListOldArtifacts
  <2> DEFINE doomed == GcCandidates(cms, rc.fe, KeepNames(rc.fe), RetainOld)
  <2>1. CASE doomed = {}
    BY <1>10, <2>1 DEF ListOldArtifacts, Finish, ReconcileMoves, Ends
  <2>2. CASE doomed # {}
    <3>1. /\ rc.pc = "after" /\ ~ShouldDeleteAfterUnpublish
          /\ rc' = [NoReconcile EXCEPT !.pc = "gc", !.doomed = doomed, !.requeue = rc.requeue]
      BY <1>10, <2>2 DEF ListOldArtifacts
    <3>2. ArtifactKey(rc.fe) \notin doomed
      BY DEF GcCandidates, KeepNames
    <3> HIDE DEF doomed
    <3>3. /\ rc'.pc = "gc" /\ rc'.doomed = doomed /\ rc'.fe = AbsentFE
          /\ rc'.status = NoStatus /\ rc'.pub = NoPublish
      BY <3>1 DEF NoReconcile
    <3> QED BY <3>1, <3>2, <3>3 DEF ReconcileMoves, Collects
  <2> QED BY <2>1, <2>2
<1>11. CASE DeleteOldArtifact
  <2>1. PICK key \in rc.doomed :
          rc' = IF rc.doomed = {key} THEN NoReconcile ELSE [rc EXCEPT !.doomed = @ \ {key}]
    BY <1>11 DEF DeleteOldArtifact
  <2>2. rc.pc = "gc"
    BY <1>11 DEF DeleteOldArtifact
  <2>3. CASE rc' = NoReconcile
    BY <2>2, <2>3 DEF ReconcileMoves, Ends
  <2>4. CASE rc' = [rc EXCEPT !.doomed = @ \ {key}]
    <3>1. /\ rc'.pc = "gc" /\ rc'.doomed \subseteq rc.doomed /\ rc'.fe = rc.fe
          /\ rc'.status = rc.status /\ rc'.pub = rc.pub
      BY <2>2, <2>4 DEF ReconcileState
    <3> QED BY <2>2, <3>1 DEF ReconcileMoves, Collects, WorkValid
  <2> QED BY <2>1, <2>3, <2>4
<1>12. CASE ReconcileError
  BY <1>4, <1>12 DEF ReconcileError, ReconcileMoves
<1> QED BY <1>5, <1>6, <1>7, <1>8, <1>9, <1>10, <1>11, <1>12

\* These are all its moves.
LEMMA Moves ==
    ASSUME TypeInv, WorkValid, Reconcile \/ ReconcileError
    PROVE  ReconcileMoves
BY PackagingMoves, RequestMoves, WritingMoves DEF Reconcile

-----------------------------------------------------------------------------
(* What a step may do to the other objects.                                *)

SetJob(id, job) == job \in RequestJob /\ rjobs' = [rjobs EXCEPT ![id] = job]

JobMade(id) ==
    /\ rjobs[id].uid = 0
    /\ \/ rc.pc = "createPublish" /\ id = rc.fe.pub.id
       \/ rc.pc = "createUnpublish" /\ id = rc.fe.unpub
    /\ \E job \in RequestJob :
          /\ SetJob(id, job)
          /\ job.uid = rc.fe.uid /\ job.phase = "Running" /\ ~job.done
          /\ rc.pc = "createPublish" => job.digest = rc.digest
    /\ UNCHANGED <<fe, cache, cms, registry, clock, api>>

JobWorks(id) ==
    /\ rjobs[id].phase = "Running" /\ ~rjobs[id].done
    /\ \E job \in RequestJob :
          /\ SetJob(id, job)
          /\ job.uid = rjobs[id].uid /\ job.phase = "Running" /\ job.done
          /\ job.digest = rjobs[id].digest
    /\ registry'.done = registry.done
    /\ registry'.digest = IF id \in PublishIds THEN rjobs[id].digest ELSE None
    /\ UNCHANGED <<fe, cache, rc, cms, clock, api>>

JobEnds(id) ==
    /\ rjobs[id].phase = "Running"
    /\ \E job \in RequestJob :
          /\ SetJob(id, job)
          /\ job.uid = rjobs[id].uid /\ job.done = rjobs[id].done
          /\ job.digest = rjobs[id].digest
          /\ \/ job.phase = "Failed" /\ registry' = registry /\ clock' = clock
             \/ /\ job.phase = "Succeeded" /\ job.done
                /\ registry' = [registry EXCEPT !.done = @ \cup {<<id, rjobs[id].key>>}]
                /\ clock' = (IF clock < MaxTime THEN clock + 1 ELSE clock) /\ job.fin = clock'
    /\ UNCHANGED <<fe, cache, rc, cms, api>>

JobExpires(id) ==
    /\ "ttl" \in Disturbances
    /\ rjobs[id].phase \in Terminal
    /\ CaughtUp \/ "downtime" \in Disturbances
    /\ rjobs' = [rjobs EXCEPT ![id] = NoRJob]
    /\ UNCHANGED <<fe, cache, rc, cms, registry, clock, api>>

\* The FE is not being deleted, and what there is of an earlier one is gone.
OwnObjects ==
    /\ ~fe.deleting
    /\ \A id \in RequestIds : rjobs[id].uid \in {0, fe.uid}
    /\ \A key \in Keys : cms[key].uid \in {0, fe.uid}

LEMMA LifeOwns ==
    ASSUME LifeInv, Alive
    PROVE  OwnObjects
BY DEF LifeInv, Alive, OwnObjects

\* A request Job is made, works, ends or expires.
LEMMA RequestJobSteps ==
    ASSUME TypeInv, OwnObjects, [Next]_vars
    PROVE  \/ UNCHANGED <<rjobs, registry, clock>>
           \/ \E id \in RequestIds : JobMade(id) \/ JobWorks(id) \/ JobEnds(id) \/ JobExpires(id)
<1> USE Parts
<1>1. CASE CreatePublishJob
  <2> DEFINE id == rc.fe.pub.id
             made == [NoRJob EXCEPT !.uid = rc.fe.uid, !.phase = "Running",
                                    !.digest = rc.digest, !.key = ArtifactKey(rc.fe)]
  <2>1. rc.pc = "createPublish" /\ id \in RequestIds
    BY <1>1 DEF CreatePublishJob, TypeInv, Prepared, RequestIds
  <2>2. /\ made \in RequestJob /\ made.uid = rc.fe.uid /\ made.phase = "Running"
        /\ ~made.done /\ made.digest = rc.digest
    <3>1. ArtifactKey(rc.fe) \in Keys /\ rc.fe.uid \in Nat
      BY <2>1 DEF TypeInv, Prepared, WorkSteps, FE, Uids
    <3>2. NoRJob \in RequestJob /\ ~NoRJob.done
      BY ObjectTypes DEF NoRJob
    <3> QED BY <3>1, <3>2 DEF RequestJob, JobPhases, Maybe
  <2>3. /\ UNCHANGED <<fe, cache, cms, registry, clock, api>>
        /\ \/ rjobs[id].uid = 0 /\ rjobs' = [rjobs EXCEPT ![id] = made]
           \/ rjobs' = rjobs
    BY <1>1 DEF CreatePublishJob, CreateRequestJob
  <2> HIDE DEF made
  <2>4. rjobs[id].uid = 0 /\ rjobs' = [rjobs EXCEPT ![id] = made] => JobMade(id)
    BY <2>1, <2>2, <2>3 DEF JobMade, SetJob
  <2> QED BY <2>1, <2>3, <2>4
<1>2. CASE CreateUnpublishJob
  <2> DEFINE id == rc.fe.unpub
             made == [NoRJob EXCEPT !.uid = rc.fe.uid, !.phase = "Running"]
  <2>1. rc.pc = "createUnpublish" /\ rc.pc # "createPublish" /\ id \in RequestIds
    BY <1>2 DEF CreateUnpublishJob, TypeInv, Prepared, RequestIds
  <2>2. /\ made \in RequestJob /\ made.uid = rc.fe.uid /\ made.phase = "Running"
        /\ ~made.done
    <3>1. rc.fe.uid \in Nat
      BY DEF FE, Uids
    <3>2. NoRJob \in RequestJob /\ ~NoRJob.done
      BY ObjectTypes DEF NoRJob
    <3> QED BY <3>1, <3>2 DEF RequestJob, JobPhases
  <2>3. /\ UNCHANGED <<fe, cache, cms, registry, clock, api>>
        /\ \/ rjobs[id].uid = 0 /\ rjobs' = [rjobs EXCEPT ![id] = made]
           \/ rjobs' = rjobs
    BY <1>2 DEF CreateUnpublishJob, CreateRequestJob
  <2> HIDE DEF made
  <2>4. rjobs[id].uid = 0 /\ rjobs' = [rjobs EXCEPT ![id] = made] => JobMade(id)
    BY <2>1, <2>2, <2>3 DEF JobMade, SetJob
  <2> QED BY <2>1, <2>3, <2>4
<1>3. CASE ControllerNext /\ ~CreatePublishJob /\ ~CreateUnpublishJob
  BY <1>3 DEF ControllerNext, Reconcile, CacheSync, ReconcileError, Continue, ReconcileStart,
     ArtifactFound, PackageJobInProgress, ReadArtifactAgain, PackageAttemptsExceeded,
     NextAttempt, CreatePackageJob, ObservePublishJob, KeepFinishedPublish, NeedPublishJob,
     ObserveUnpublishJob, KeepFinishedUnpublish, NeedUnpublishJob,
     GetLatest, PatchStatus, GetPatched, PatchLabels,
     DeleteFrontendExtension, ListOldArtifacts, DeleteOldArtifact, objectVars
<1>4. CASE JobsNext
  <2>1. ASSUME NEW id \in RequestIds, PublisherInstall(id) \/ PublisherUninstall(id)
        PROVE  JobWorks(id)
    <3> DEFINE job == [rjobs[id] EXCEPT !.done = TRUE]
    <3>1. rjobs[id] \in RequestJob
      OBVIOUS
    <3>2. job \in RequestJob /\ job.uid = rjobs[id].uid /\ job.phase = rjobs[id].phase
          /\ job.done /\ job.digest = rjobs[id].digest
      BY <3>1 DEF RequestJob
    <3>3. /\ rjobs[id].phase = "Running" /\ ~rjobs[id].done
          /\ rjobs' = [rjobs EXCEPT ![id] = job] /\ UNCHANGED <<fe, cache, rc, cms, clock, api>>
      BY <2>1 DEF PublisherInstall, PublisherUninstall, RJobStep
    <3>4. registry \in Registry
      BY DEF TypeInv, TypeOK
    <3>5. /\ registry'.done = registry.done
          /\ registry'.digest = IF id \in PublishIds THEN rjobs[id].digest ELSE None
      BY <2>1, <3>4, IdsAssumption DEF PublisherInstall, PublisherUninstall, Registry
    <3> HIDE DEF job
    <3> QED BY <3>2, <3>3, <3>5 DEF JobWorks, SetJob
  <2>2. ASSUME NEW id \in RequestIds, PublisherRefuse(id) \/ PublisherFail(id)
        PROVE  JobEnds(id)
    <3> DEFINE job == [rjobs[id] EXCEPT !.phase = "Failed"]
    <3>1. rjobs[id] \in RequestJob
      OBVIOUS
    <3>2. job \in RequestJob /\ job.uid = rjobs[id].uid /\ job.done = rjobs[id].done
          /\ job.phase = "Failed" /\ job.digest = rjobs[id].digest
      BY <3>1 DEF RequestJob, JobPhases
    <3>3. /\ rjobs[id].phase = "Running" /\ registry' = registry /\ clock' = clock
          /\ rjobs' = [rjobs EXCEPT ![id] = job] /\ UNCHANGED <<fe, cache, rc, cms, api>>
      BY <2>2 DEF PublisherRefuse, PublisherFail, RJobStep
    <3> HIDE DEF job
    <3> QED BY <3>2, <3>3 DEF JobEnds, SetJob
  <2>3. ASSUME NEW id \in RequestIds, PublisherSucceed(id)
        PROVE  JobEnds(id)
    <3> DEFINE job == [rjobs[id] EXCEPT !.phase = "Succeeded", !.fin = clock']
    <3>1. rjobs[id] \in RequestJob /\ clock' \in Nat
      BY <2>3 DEF PublisherSucceed, TypeInv, TypeOK
    <3>2. job \in RequestJob /\ job.uid = rjobs[id].uid /\ job.done = rjobs[id].done
          /\ job.phase = "Succeeded" /\ job.digest = rjobs[id].digest /\ job.fin = clock'
      BY <3>1 DEF RequestJob, JobPhases
    <3>3. /\ rjobs[id].phase = "Running" /\ rjobs[id].done
          /\ registry' = [registry EXCEPT !.done = @ \cup {<<id, rjobs[id].key>>}]
          /\ clock' = IF clock < MaxTime THEN clock + 1 ELSE clock
          /\ rjobs' = [rjobs EXCEPT ![id] = job] /\ UNCHANGED <<fe, cache, rc, cms, api>>
      BY <2>3 DEF PublisherSucceed, RJobStep
    <3> HIDE DEF job
    <3> QED BY <3>2, <3>3 DEF JobEnds, SetJob
  <2>4. ASSUME NEW id \in RequestIds, ExpireRequestJob(id)
        PROVE  JobExpires(id)
    BY <2>4 DEF ExpireRequestJob, LongFinished, JobExpires, Disturb
  <2>5. ASSUME NEW id \in RequestIds, CollectRequestJob(id)
        PROVE  FALSE
    BY <2>5 DEF CollectRequestJob, Orphaned, OwnObjects
  <2>6. ASSUME NEW name \in JobNames,
               Packager(name) \/ PackagerFail(name) \/ ExpirePackageJob(name)
                  \/ CollectPackageJob(name)
        PROVE  UNCHANGED <<rjobs, registry, clock>>
    BY <2>6 DEF Packager, PackagerBuild, PackagerRefuse, PackagerUpsert,
       PackagerSucceed, PackagerFail, ExpirePackageJob, CollectPackageJob, PJobStep
  <2>7. CASE RemoveDeletedFE \/ \E key \in Keys : CollectArtifact(key)
    BY <2>7 DEF RemoveDeletedFE, CollectArtifact, objectVars
  <2> QED BY <1>4, <2>1, <2>2, <2>3, <2>4, <2>5, <2>6, <2>7
          DEF JobsNext, Collector, Publisher
<1>5. CASE ApiNext
  BY <1>5 DEF ApiNext, UserWrites, EditSpec, SetRebuildToken, AnnotatePublish,
     AnnotateUnpublish, DeleteInBackground, DeleteInForeground, Recreate, TamperArtifact,
     TriggerPublish, TriggerUnpublish, DeleteExtension, Accept, ApiCompletes,
     PatchPublishRequest, PatchUnpublishRequest, DeleteByName, objectVars
<1> QED BY <1>1, <1>2, <1>3, <1>4, <1>5 DEF Next, vars

\* The request that the API is about to write.
Asked ==
    {id \in RequestIds :
        \/ api.op = "publish" /\ id = api.req.id
        \/ api.op \in {"unpublish", "unpublishAndDelete"} /\ id = api.id}

Accepted(id) ==
    /\ api.op = "none" /\ fe.target /\ id \notin api.used
    /\ Calm \/ "overlap" \in Disturbances
    /\ api'.id = id
    /\ \/ /\ id \in PublishIds /\ api'.op = "publish" /\ api'.req.id = id /\ api'.req.src = fe.src
          /\ api'.req.gen = fe.gen /\ api'.req.digest = ReadyArtifact
       \/ /\ id \in UnpublishIds /\ api'.op \in {"unpublish", "unpublishAndDelete"}
    /\ api'.op = "unpublishAndDelete" => CurrentlyPublished
    /\ api'.used = api.used \cup {id}
    /\ UNCHANGED <<fe, cache, rc, rjobs, cms, registry>>

Unasked ==
    /\ api'.op \notin RequestOps /\ api'.used = api.used
    /\ UNCHANGED <<cache, rc, rjobs, cms, registry>>

\* The API accepts a request with a new id, or has done with one.
LEMMA ApiSteps ==
    ASSUME "reuse" \notin Disturbances, TypeInv, [Next]_vars
    PROVE  UNCHANGED api \/ (\E id \in RequestIds : Accepted(id)) \/ Unasked
<1>1. CASE ControllerNext
  BY <1>1 DEF ControllerNext, Reconcile, CacheSync, ReconcileError, Continue, ReconcileStart,
     ArtifactFound, PackageJobInProgress, ReadArtifactAgain, PackageAttemptsExceeded,
     NextAttempt, CreatePackageJob, ObservePublishJob, KeepFinishedPublish, NeedPublishJob,
     CreatePublishJob, ObserveUnpublishJob, KeepFinishedUnpublish, NeedUnpublishJob,
     CreateUnpublishJob, CreateRequestJob, GetLatest, PatchStatus, GetPatched, PatchLabels,
     DeleteFrontendExtension, ListOldArtifacts, DeleteOldArtifact
<1>2. CASE JobsNext
  BY <1>2 DEF JobsNext, Packager, PackagerBuild, PackagerRefuse, PackagerUpsert,
     PackagerSucceed, PJobStep, PackagerFail, ExpirePackageJob, Publisher, PublisherInstall,
     PublisherRefuse, PublisherUninstall, PublisherSucceed, RJobStep, PublisherFail,
     ExpireRequestJob, Collector, CollectPackageJob, CollectRequestJob, CollectArtifact,
     RemoveDeletedFE
<1>3. CASE ApiNext
  <2>2. ASSUME NEW id \in PublishIds, TriggerPublish(id)
        PROVE  Accepted(id)
    <3> DEFINE req == [id |-> id, gen |-> fe.gen, src |-> fe.src, digest |-> ReadyArtifact]
    <3>1. /\ api.op = "none" /\ fe.target /\ id \notin api.used
          /\ Calm \/ "overlap" \in Disturbances
          /\ api' = [op |-> "publish", id |-> id, req |-> req,
                     used |-> api.used \cup ({id} \ {None})]
          /\ UNCHANGED <<fe, cache, rc, rjobs, cms, registry>>
      BY <2>2 DEF TriggerPublish, Accept, controllerVars, objectVars
    <3>2. req.id = id /\ req.src = fe.src /\ req.gen = fe.gen /\ req.digest = ReadyArtifact
      OBVIOUS
    <3> HIDE DEF req
    <3>3. {id} \ {None} = {id}
      BY IdsAssumption
    <3> QED BY <3>1, <3>2, <3>3 DEF Accepted
  <2>3. ASSUME NEW id \in UnpublishIds,
               \/ TriggerUnpublish(id)
               \/ DeleteExtension(id, TRUE) /\ CurrentlyPublished
        PROVE  Accepted(id)
    <3>1. PICK op \in {"unpublish", "unpublishAndDelete"} :
             /\ fe.target /\ (op = "unpublishAndDelete" => CurrentlyPublished)
             /\ \E kind \in {"unpublish", "delete"} : Accept(kind, op, id, NoRequest)
      BY <2>3 DEF TriggerUnpublish, DeleteExtension
    <3>2. /\ api.op = "none" /\ fe.target /\ id \notin api.used
          /\ Calm \/ "overlap" \in Disturbances
          /\ api' = [op |-> op, id |-> id, req |-> NoRequest,
                     used |-> api.used \cup ({id} \ {None})]
          /\ UNCHANGED <<fe, cache, rc, rjobs, cms, registry>>
      BY <3>1 DEF Accept, controllerVars, objectVars
    <3>3. {id} \ {None} = {id}
      BY IdsAssumption
    <3> QED BY <3>1, <3>2, <3>3 DEF Accepted
  <2>4. ASSUME NEW id \in UnpublishIds, NEW unpublish \in BOOLEAN,
               DeleteExtension(id, unpublish), ~(unpublish /\ CurrentlyPublished)
        PROVE  Unasked
    <3>1. PICK op \in {"delete", "deleteUnpublished"} : Accept("delete", op, None, NoRequest)
      BY <2>4 DEF DeleteExtension
    <3>2. /\ api' = [op |-> op, id |-> None, req |-> NoRequest,
                     used |-> api.used \cup ({None} \ {None})]
          /\ UNCHANGED <<fe, cache, rc, rjobs, cms, registry>>
      BY <3>1 DEF Accept, controllerVars, objectVars
    <3> QED BY <3>2 DEF Unasked, RequestOps
  <2>5. CASE ApiCompletes
    <3>1. /\ api' = [NoCall EXCEPT !.used = api.used]
          /\ UNCHANGED <<cache, rc, rjobs, cms, registry>>
      BY <2>5 DEF ApiCompletes, PatchPublishRequest, PatchUnpublishRequest, DeleteByName,
                  controllerVars, objectVars
    <3> QED BY <3>1 DEF Unasked, RequestOps, NoCall
  <2>6. CASE \/ \E source \in Sources : EditSpec(source)
             \/ \E token \in Tokens : SetRebuildToken(token)
             \/ \E id \in PublishIds, source \in {None, fe.src}, digest \in Digests \cup {None} :
                   AnnotatePublish(id, source, digest)
             \/ \E id \in UnpublishIds : AnnotateUnpublish(id)
             \/ DeleteInBackground \/ DeleteInForeground
             \/ \E source \in Sources, token \in Tokens : Recreate(source, token)
             \/ \E key \in Keys : TamperArtifact(key)
    BY <2>6 DEF EditSpec, SetRebuildToken, AnnotatePublish, AnnotateUnpublish,
       DeleteInBackground, DeleteInForeground, Recreate, UserWrites, TamperArtifact
  <2>7. CASE \E id \in UnpublishIds, unpublish \in BOOLEAN : DeleteExtension(id, unpublish)
    <3>1. PICK id \in UnpublishIds, unpublish \in BOOLEAN : DeleteExtension(id, unpublish)
      BY <2>7
    <3>2. CASE unpublish /\ CurrentlyPublished
      BY <2>3, <3>1, <3>2 DEF RequestIds, DeleteExtension
    <3> QED BY <2>4, <3>1, <3>2
  <2> QED BY <1>3, <2>2, <2>3, <2>5, <2>6, <2>7 DEF ApiNext, RequestIds
<1> QED BY <1>1, <1>2, <1>3 DEF Next, vars

PodMade(name) ==
    /\ rc.pc = "create" /\ name[1] = ArtifactKey(rc.fe) /\ pjobs[name].uid = 0
    /\ pjobs'[name].uid = rc.fe.uid /\ pjobs'[name].phase = "Running"
    /\ pjobs'[name].pod = "new"

PodBuilds(name) ==
    /\ pjobs[name].phase = "Running" /\ pjobs[name].pod = "new"
    /\ pjobs'[name].uid = pjobs[name].uid /\ pjobs'[name].phase = "Running"
    /\ pjobs'[name].pod = "built" /\ pjobs'[name].owner = fe.uid
    /\ name[1][1] = fe.src /\ \E v \in Variants : pjobs'[name].digest = <<fe.src, v>>

PodWrites(name) ==
    /\ PackagerUpsert(name) /\ pjobs[name].pod = "built"
    /\ pjobs'[name].uid = pjobs[name].uid /\ pjobs'[name].phase = pjobs[name].phase
    /\ pjobs'[name].pod = IF pjobs[name].phase = "Running" THEN "wrote" ELSE "gone"
    /\ cms'[name[1]].uid = pjobs[name].owner /\ cms'[name[1]].intact
    /\ cms'[name[1]].digest = pjobs[name].digest

PodGoes(name) ==
    /\ pjobs'[name].uid \in {0, pjobs[name].uid}
    /\ pjobs'[name].pod = "gone"

\* A package Job is made, builds, writes, ends or expires.
LEMMA PackageJobMoves ==
    ASSUME "linger" \notin Disturbances, TypeInv, [Next]_vars, NEW name \in JobNames
    PROVE  \/ pjobs'[name] = pjobs[name]
           \/ PodMade(name) \/ PodBuilds(name) \/ PodWrites(name) \/ PodGoes(name)
<1> USE Parts
<1>1. NoPJob \in PackageJob /\ NoPJob.uid = 0 /\ NoPJob.pod = "gone"
  BY ObjectTypes DEF NoPJob
<1>2. CASE CreatePackageJob
  <2> DEFINE at == <<ArtifactKey(rc.fe), rc.att + 1>>
             made == [NoPJob EXCEPT !.uid = rc.fe.uid, !.phase = "Running", !.pod = "new"]
  <2>1. made.uid = rc.fe.uid /\ made.phase = "Running" /\ made.pod = "new"
    BY <1>1 DEF PackageJob
  <2>2. rc.pc = "create" /\ (pjobs' = pjobs \/ (pjobs[at].uid = 0 /\ pjobs' = [pjobs EXCEPT ![at] = made]))
    BY <1>2 DEF CreatePackageJob
  <2>3. at[1] = ArtifactKey(rc.fe)
    OBVIOUS
  <2> HIDE DEF at, made
  <2> QED BY <2>1, <2>2, <2>3 DEF PodMade
<1>3. ASSUME NEW other \in JobNames, PackageJobAct(other)
      PROVE  \/ pjobs'[name] = pjobs[name]
             \/ PodBuilds(name) \/ PodWrites(name) \/ PodGoes(name)
  <2>0. pjobs[other] \in PackageJob /\ cms \in [Keys -> ConfigMap] /\ other[1] \in Keys
    BY DEF JobNames
  <2>1. ASSUME NEW job, pjobs' = [pjobs EXCEPT ![other] = job]
        PROVE  name # other => pjobs'[name] = pjobs[name]
    BY <2>1
  <2>2. ASSUME NEW job, pjobs' = [pjobs EXCEPT ![other] = job],
               job.uid \in {0, pjobs[other].uid}, job.pod = "gone"
        PROVE  pjobs'[name] = pjobs[name] \/ PodGoes(name)
    BY <2>2 DEF PodGoes
  <2>3. CASE PackagerBuild(other)
    <3>1. PICK v \in Variants :
            pjobs' = [pjobs EXCEPT ![other] = [pjobs[other] EXCEPT !.pod = "built",
                                                  !.owner = fe.uid, !.digest = <<fe.src, v>>]]
      BY <2>3 DEF PackagerBuild, PJobStep
    <3> DEFINE job == [pjobs[other] EXCEPT !.pod = "built", !.owner = fe.uid,
                                           !.digest = <<fe.src, v>>]
    <3>2. /\ job.uid = pjobs[other].uid /\ job.phase = pjobs[other].phase /\ job.pod = "built"
          /\ job.owner = fe.uid /\ job.digest = <<fe.src, v>>
      BY <2>0 DEF PackageJob
    <3>3. pjobs' = [pjobs EXCEPT ![other] = job]
      BY <3>1
    <3> HIDE DEF job
    <3> QED BY <2>1, <2>3, <3>2, <3>3 DEF PackagerBuild, PodBuilds
  <2>4. CASE PackagerUpsert(other)
    <3> DEFINE pod == IF pjobs[other].phase = "Running" THEN "wrote" ELSE "gone"
               job == [pjobs[other] EXCEPT !.pod = pod]
               born == IF cms[other[1]].uid # 0 THEN cms[other[1]].born ELSE 1 + Max(Births)
               cm == [uid |-> pjobs[other].owner, digest |-> pjobs[other].digest,
                      intact |-> TRUE, born |-> born]
    <3>1. pjobs' = [pjobs EXCEPT ![other] = job] /\ cms' = [cms EXCEPT ![other[1]] = cm]
          /\ pjobs[other].pod = "built"
      BY <2>4 DEF PackagerUpsert, PJobStep
    <3>2. cm.uid = pjobs[other].owner /\ cm.digest = pjobs[other].digest /\ cm.intact
      OBVIOUS
    <3>3. /\ job.uid = pjobs[other].uid /\ job.phase = pjobs[other].phase /\ job.pod = pod
      BY <2>0 DEF PackageJob
    <3> HIDE DEF cm, job
    <3>4. cms'[other[1]] = cm
      BY <2>0, <3>1
    <3> QED BY <2>1, <2>4, <3>1, <3>2, <3>3, <3>4 DEF PodWrites
  <2>5. CASE PackagerRefuse(other)
    BY <2>0, <2>2, <2>5 DEF PackagerRefuse, PJobStep, PackageJob
  <2>6. CASE PackagerSucceed(other)
    BY <2>0, <2>2, <2>6 DEF PackagerSucceed, PJobStep, PackageJob
  <2>7. CASE PackagerFail(other)
    <3>1. PICK pod \in {"gone"} :
            pjobs' = [pjobs EXCEPT ![other].phase = "Failed", ![other].pod = pod]
      BY <2>7 DEF PackagerFail
    <3>2. pjobs' = [pjobs EXCEPT ![other] =
                      [pjobs[other] EXCEPT !.phase = "Failed", !.pod = "gone"]]
      BY <2>0, <3>1 DEF PackageJob
    <3> QED BY <2>0, <2>2, <3>2 DEF PackageJob
  <2>8. CASE ExpirePackageJob(other)
    BY <1>1, <2>2, <2>8 DEF ExpirePackageJob
  <2>9. CASE CollectPackageJob(other)
    BY <1>1, <2>2, <2>9 DEF CollectPackageJob
  <2> QED BY <1>3, <2>3, <2>4, <2>5, <2>6, <2>7, <2>8, <2>9 DEF PackageJobAct, Packager
<1> QED BY <1>2, <1>3, PackageJobSteps

\* An artifact is written by a Job at its key, or is doomed.
LEMMA ArtifactMoves ==
    ASSUME "tamper" \notin Disturbances, TypeInv, OwnObjects, [Next]_vars, NEW key \in Keys
    PROVE  \/ cms'[key] = cms[key]
           \/ key \in rc.doomed /\ rc.pc = "gc" /\ cms'[key].uid = 0
           \/ \E n \in Attempts : PodWrites(<<key, n>>)
<1> USE Parts
<1>1. CASE \E name \in JobNames : PackagerUpsert(name)
  <2>1. PICK name \in JobNames : PackagerUpsert(name)
    BY <1>1
  <2>2. name[1] \in Keys /\ name[2] \in Attempts /\ name = <<name[1], name[2]>>
        /\ pjobs[name] \in PackageJob
    BY DEF JobNames
  <2>3. CASE key = name[1]
    <3> DEFINE pod == IF pjobs[name].phase = "Running" THEN "wrote" ELSE "gone"
               job == [pjobs[name] EXCEPT !.pod = pod]
               born == IF cms[key].uid # 0 THEN cms[key].born ELSE 1 + Max(Births)
               cm == [uid |-> pjobs[name].owner, digest |-> pjobs[name].digest,
                      intact |-> TRUE, born |-> born]
    <3>1. pjobs' = [pjobs EXCEPT ![name] = job] /\ cms' = [cms EXCEPT ![key] = cm]
          /\ pjobs[name].pod = "built"
      BY <2>1, <2>3 DEF PackagerUpsert, PJobStep
    <3>2. cm.uid = pjobs[name].owner /\ cm.digest = pjobs[name].digest /\ cm.intact
      OBVIOUS
    <3>3. /\ job.uid = pjobs[name].uid /\ job.phase = pjobs[name].phase /\ job.pod = pod
      BY <2>2 DEF PackageJob
    <3> HIDE DEF cm, job
    <3>4. cms'[key] = cm /\ pjobs'[name] = job
      BY <3>1
    <3>5. PodWrites(name)
      BY <2>1, <2>3, <3>1, <3>2, <3>3, <3>4 DEF PodWrites
    <3> QED BY <2>2, <2>3, <3>5
  <2>4. CASE key # name[1]
    <3>1. \E cm : cms' = [cms EXCEPT ![name[1]] = cm]
      BY <2>1 DEF PackagerUpsert
    <3> QED BY <2>2, <2>4, <3>1
  <2> QED BY <2>3, <2>4
<1>2. CASE \E other \in Keys : CollectArtifact(other)
  BY <1>2 DEF CollectArtifact, Orphaned, OwnObjects
<1>3. CASE DeleteOldArtifact
  <2>1. PICK other \in rc.doomed : cms' = [cms EXCEPT ![other] = NoConfigMap]
    BY <1>3 DEF DeleteOldArtifact
  <2>2. NoConfigMap.uid = 0 /\ rc.pc = "gc"
    BY <1>3 DEF NoConfigMap, DeleteOldArtifact
  <2> QED BY <2>1, <2>2
<1>4. CASE /\ ~DeleteOldArtifact
           /\ ~(\E name \in JobNames : PackagerUpsert(name))
           /\ ~(\E other \in Keys : CollectArtifact(other))
  <2>1. CASE ControllerNext
    BY <1>4, <2>1 DEF ControllerNext, Reconcile, CacheSync, ReconcileError, Continue,
     ReconcileStart, ArtifactFound, PackageJobInProgress, ReadArtifactAgain,
     PackageAttemptsExceeded, NextAttempt, CreatePackageJob, ObservePublishJob,
     KeepFinishedPublish, NeedPublishJob, CreatePublishJob, ObserveUnpublishJob,
     KeepFinishedUnpublish, NeedUnpublishJob, CreateUnpublishJob, CreateRequestJob,
     GetLatest, PatchStatus, GetPatched, PatchLabels, DeleteFrontendExtension,
     ListOldArtifacts, objectVars
  <2>2. CASE JobsNext
    BY <1>4, <2>2 DEF JobsNext, Packager, PackagerBuild, PackagerRefuse, PackagerSucceed,
     PJobStep, PackagerFail, ExpirePackageJob, Publisher, PublisherInstall,
     PublisherRefuse, PublisherUninstall, PublisherSucceed, RJobStep, PublisherFail,
     ExpireRequestJob, Collector, CollectPackageJob, CollectRequestJob, RemoveDeletedFE,
     objectVars
  <2>3. CASE ApiNext
    <3>1. ~(\E other \in Keys : TamperArtifact(other))
      BY DEF TamperArtifact, Disturb
    <3> QED BY <2>3, <3>1 DEF ApiNext, UserWrites, EditSpec, SetRebuildToken,
     AnnotatePublish, AnnotateUnpublish, DeleteInBackground, DeleteInForeground, Recreate,
     TriggerPublish, TriggerUnpublish, DeleteExtension, Accept, ApiCompletes,
     PatchPublishRequest, PatchUnpublishRequest, DeleteByName, objectVars
  <2> QED BY <2>1, <2>2, <2>3 DEF Next, vars
<1> QED BY <1>1, <1>2, <1>3, <1>4

-----------------------------------------------------------------------------
(* The FE and its objects stay what they are.                              *)

\* Two copies say the same, whatever their labels.
SaysAs(x, y) == SameSpec(x, y) /\ SameRequests(x, y) /\ x.status = y.status /\ ~x.deleting

\* Copies are made of the FE and of one another.
LEMMA CopiesFollow ==
    ASSUME TypeInv, WorkValid, ~fe.deleting, [Next]_vars
    PROVE  /\ rc' = rc \/ (ReconcileMoves /\ cache' = cache /\ api' = api)
           /\ rc'.fe \in {rc.fe, cache, AbsentFE}
           /\ cache' = cache \/ (SaysAs(cache', fe) /\ SaysAs(fe', fe) /\ rc' = rc)
<1> USE Parts
<1>1. CASE Reconcile \/ ReconcileError
  <2>1. ReconcileMoves
    BY <1>1, Moves
  <2>2. cache' = cache /\ api' = api
    BY <1>1 DEF Reconcile, ReconcileError, Continue, ReconcileStart,
     ArtifactFound, PackageJobInProgress, ReadArtifactAgain, PackageAttemptsExceeded,
     NextAttempt, CreatePackageJob, ObservePublishJob, KeepFinishedPublish, NeedPublishJob,
     CreatePublishJob, ObserveUnpublishJob, KeepFinishedUnpublish, NeedUnpublishJob,
     CreateUnpublishJob, CreateRequestJob, GetLatest, PatchStatus, GetPatched, PatchLabels,
     DeleteFrontendExtension, ListOldArtifacts, DeleteOldArtifact
  <2>3. rc'.fe \in {rc.fe, cache, AbsentFE}
    BY <2>1 DEF ReconcileMoves, Begins, LooksOn, Kept, GivesUp, AsksPublish, NeedsPublish,
       AnswersPublish, NeedsUnpublish, AnswersUnpublish, Writes, Collects, Ends, NoReconcile
  <2> QED BY <2>1, <2>2, <2>3
<1>2. CASE CacheSync
  <2>1. fe' = [fe EXCEPT !.unseen = FALSE] /\ cache' = fe' /\ rc' = rc
    BY <1>2 DEF CacheSync
  <2>2. SaysAs(fe', fe)
    BY <2>1 DEF FE, SaysAs, SameSpec, SameRequests
  <2> QED BY <2>1, <2>2
<1>3. CASE JobsNext
  <2>1. rc' = rc /\ cache' = cache
    BY <1>3
          DEF JobsNext, Packager, PackagerBuild, PackagerRefuse, PackagerUpsert,
              PackagerSucceed, PJobStep, PackagerFail, ExpirePackageJob, Publisher,
              PublisherInstall, PublisherRefuse, PublisherUninstall, PublisherSucceed,
              RJobStep, PublisherFail, ExpireRequestJob, Collector, CollectPackageJob,
              CollectRequestJob, CollectArtifact, RemoveDeletedFE, controllerVars
  <2> QED BY <2>1
<1>4. CASE ApiNext
  <2>1. rc' = rc /\ cache' = cache
    BY <1>4 DEF ApiNext, UserWrites, EditSpec, SetRebuildToken, AnnotatePublish,
       AnnotateUnpublish, DeleteInBackground, DeleteInForeground, Recreate, TamperArtifact,
       TriggerPublish, TriggerUnpublish, DeleteExtension, Accept, ApiCompletes,
       PatchPublishRequest, PatchUnpublishRequest, DeleteByName, controllerVars
  <2> QED BY <2>1
<1> QED BY <1>1, <1>2, <1>3, <1>4 DEF Next, ControllerNext, vars

\* ... and as long as it is there the FE stays what it is.
LEMMA CopiesMove ==
    ASSUME Steady, TypeInv, LifeInv, Alive, Alive', [Next]_vars
    PROVE  /\ FeMoves
           /\ rc' = rc \/ (ReconcileMoves /\ cache' = cache /\ api' = api)
           /\ rc'.fe \in {rc.fe, cache, AbsentFE}
           /\ cache' = cache \/ (SaysAs(cache', fe) /\ SaysAs(fe', fe) /\ rc' = rc)
<1>1. FeMoves
  BY FeSteps DEF Alive
<1>2. WorkValid /\ ~fe.deleting
  BY WorkIsValid DEF LifeInv
<1> QED BY <1>1, <1>2, CopiesFollow

LEMMA LifeInit ==
    ASSUME Init
    PROVE  LifeInv
<1>1. PICK source \in Sources, token \in Tokens, target \in Targets :
        fe = NewFE(1, source, token, target)
  BY DEF Init
<1>2. /\ fe.uid = 1 /\ ~fe.deleting /\ fe.pub.id = None /\ fe.unpub = None
      /\ fe.delAfter = None
  BY <1>1 DEF NewFE, NoRequest
<1>3. cache = AbsentFE /\ AbsentFE.uid = 0 /\ rc = NoReconcile
  BY AbsentTypes DEF Init, AbsentFE, NewFE
<1>4. /\ rc.fe = AbsentFE /\ rc.status = NoStatus /\ rc.pub = NoPublish /\ rc.pc = "idle"
  BY <1>3 DEF NoReconcile
<1>5. api.op = "none"
  BY DEF Init, NoCall
<1>6. /\ \A name \in JobNames : pjobs[name].uid = 0 /\ pjobs[name].pod = "gone"
      /\ \A id \in RequestIds :
            rjobs[id].uid = 0 /\ rjobs[id].phase = "Absent" /\ ~rjobs[id].done
      /\ \A key \in Keys : cms[key].uid = 0
  BY DEF Init, NoPJob, NoRJob, NoConfigMap
<1> QED BY <1>2, <1>3, <1>4, <1>5, <1>6 DEF LifeInv, CopyOf, WorkSteps, RequestOps

LEMMA LifeStep ==
    ASSUME Steady, TypeInv, LifeInv, [Next]_vars
    PROVE  LifeInv'
<1> USE Parts
<1>1. fe'.uid \in {0, 1} /\ ~fe'.deleting /\ (fe'.uid # 0 => Alive /\ fe'.uid = fe.uid)
  BY FeSteps DEF LifeInv, FeMoves, SameSpec, Alive
<1> SUFFICES ASSUME Alive, Alive'
             PROVE  LifeInv'
  BY <1>1 DEF LifeInv, Alive
<1>2. /\ FeMoves
      /\ rc' = rc \/ (ReconcileMoves /\ cache' = cache /\ api' = api)
      /\ rc'.fe \in {rc.fe, cache, AbsentFE}
      /\ cache' = cache \/ (SaysAs(cache', fe) /\ SaysAs(fe', fe) /\ rc' = rc)
  BY CopiesMove
<1>3. fe'.target = fe.target /\ CopyOf(fe', fe')
  <2>1. CopyOf(fe, fe) /\ ~fe.deleting /\ ~fe'.deleting /\ SameSpec(fe', fe)
    BY <1>2 DEF LifeInv, Alive, FeMoves
  <2>2. CASE SameRequests(fe', fe)
    BY <2>1, <2>2 DEF CopyOf, SameRequests, SameSpec
  <2>3. CASE PatchPublishRequest /\ ~SameRequests(fe', fe)
    <3>1. api.op = "publish"
      BY <2>3 DEF PatchPublishRequest
    <3>2. /\ fe'.pub = api.req /\ fe'.target
          /\ fe'.unpub = fe.unpub /\ fe'.delAfter = fe.delAfter
      BY <1>2, <2>3, <3>1 DEF FeMoves, PatchStatus, PatchUnpublishRequest
    <3>3. fe.target /\ api.req.src = fe.src
      BY <3>1 DEF LifeInv, Alive, RequestOps
    <3> QED BY <2>1, <3>2, <3>3 DEF CopyOf, SameSpec
  <2>4. CASE PatchUnpublishRequest /\ ~SameRequests(fe', fe)
    <3>1. api.op \in {"unpublish", "unpublishAndDelete"}
      BY <2>4 DEF PatchUnpublishRequest
    <3>2. /\ fe'.unpub = api.id /\ fe'.target /\ fe'.pub = fe.pub
          /\ fe'.delAfter = IF api.op = "unpublish" THEN fe.delAfter ELSE api.id
      BY <1>2, <2>4, <3>1 DEF FeMoves, PatchStatus, PatchPublishRequest
    <3>3. fe.target /\ api.id # None
      BY <3>1, IdsAssumption DEF LifeInv, Alive, RequestOps, TypeInv, CallPrepared
    <3> QED BY <2>1, <3>2, <3>3 DEF CopyOf, SameSpec
  <2> QED BY <1>2, <2>2, <2>3, <2>4 DEF FeMoves
<1>4. /\ rc'.pc \in {"idle", "gc"} =>
            rc'.fe = AbsentFE /\ rc'.status = NoStatus /\ rc'.pub = NoPublish
      /\ rc'.pc \in WorkSteps \/ rc'.pc = "after" => rc'.fe.uid # 0
      /\ rc'.pc \in {"get", "patch", "reget", "labels"} /\ rc'.status.phase = "Ready" =>
            rc'.fe.uid # 0
      /\ rc'.pc = "after" => rc'.status.phase = "Ready"
  <2>1. /\ rc.pc \in {"idle", "gc"} =>
              rc.fe = AbsentFE /\ rc.status = NoStatus /\ rc.pub = NoPublish
        /\ rc.pc \in WorkSteps \/ rc.pc = "after" => rc.fe.uid # 0
        /\ rc.pc \in {"get", "patch", "reget", "labels"} /\ rc.status.phase = "Ready" =>
              rc.fe.uid # 0
        /\ rc.pc = "after" => rc.status.phase = "Ready"
    BY DEF LifeInv
  <2>2. CASE ReconcileMoves
    <3>1. CASE Begins
      BY <3>1 DEF Begins, WorkSteps
    <3>2. CASE LooksOn \/ NeedsPublish \/ NeedsUnpublish
      BY <2>1, <3>2 DEF LooksOn, NeedsPublish, NeedsUnpublish, Kept, WorkSteps
    <3>3. CASE \E x \in {cache, rc.fe} : GivesUp(x)
      BY <3>3 DEF GivesUp, Decides, PackagingStatus, FailedStatus, StatusFor, WorkSteps
    <3>4. CASE AsksPublish
      BY <2>1, <3>4 DEF AsksPublish, LooksAt, WorkSteps
    <3>5. CASE \E publish \in PublishStatus, digest \in Maybe(Digests) :
                  AnswersPublish(publish, digest)
      <4>1. rc.pc \in WorkSteps /\ rc'.fe = rc.fe /\ rc'.pc \in {"get", "unpublish"}
        BY <3>5 DEF AnswersPublish, PublishAnswer, LooksAt, WorkSteps, Decides
      <4> QED BY <2>1, <4>1 DEF WorkSteps
    <3>6. CASE \E unpublish \in UnpublishStatus : AnswersUnpublish(unpublish)
      <4>1. rc.pc \in WorkSteps /\ rc'.fe = rc.fe /\ rc'.pc = "get"
        BY <3>6 DEF AnswersUnpublish, UnpublishAnswer, WorkSteps, Decides
      <4> QED BY <2>1, <4>1 DEF WorkSteps
    <3>7. CASE Writes
      BY <2>1, <3>7 DEF Writes, Kept, WorkSteps
    <3>8. CASE Collects
      BY <3>8 DEF Collects, WorkSteps
    <3>9. CASE Ends
      BY <3>9 DEF Ends, NoReconcile, WorkSteps
    <3> QED BY <2>2, <3>1, <3>2, <3>3, <3>4, <3>5, <3>6, <3>7, <3>8, <3>9
            DEF ReconcileMoves
  <2> QED BY <1>2, <2>1, <2>2
<1>5. \A x \in {fe', cache', rc'.fe} : x.uid # 0 => CopyOf(x, fe')
  <2>1. \A x \in {fe, cache, rc.fe} : x.uid # 0 => CopyOf(x, fe')
    BY <1>2, <1>3 DEF LifeInv, CopyOf, FeMoves, SameSpec
  <2>2. \A x, y : SaysAs(x, y) /\ CopyOf(y, fe') => CopyOf(x, fe')
    BY DEF SaysAs, SameSpec, SameRequests, CopyOf
  <2> QED BY <1>2, <1>3, <2>1, <2>2 DEF Alive
<1>6. /\ api'.op \in RequestOps => fe'.target
      /\ api'.op = "publish" => api'.req.src = fe'.src
  <2>1. CASE UNCHANGED api
    BY <1>2, <1>3, <2>1 DEF LifeInv, FeMoves, SameSpec
  <2>2. CASE \E id \in RequestIds : Accepted(id)
    BY <2>2 DEF Accepted
  <2>3. CASE Unasked
    BY <2>3 DEF Unasked, RequestOps
  <2> QED BY <2>1, <2>2, <2>3, ApiSteps, SteadyIs
<1>7. ASSUME NEW name \in JobNames
      PROVE  /\ pjobs'[name].uid \in {0, 1}
             /\ pjobs'[name].pod = "built" => pjobs'[name].owner = 1
  <2>1. /\ pjobs[name].uid \in {0, 1}
        /\ pjobs[name].pod = "built" => pjobs[name].owner = 1
        /\ fe.uid = 1
        /\ rc.pc = "create" => rc.fe.uid = 1
    BY DEF LifeInv, Alive, CopyOf, WorkSteps
  <2> QED BY <2>1, PackageJobMoves, SteadyIs DEF PodMade, PodBuilds, PodWrites, PodGoes
<1>8. ASSUME NEW id \in RequestIds
      PROVE  /\ rjobs'[id].uid \in {0, 1}
             /\ rjobs'[id].uid = 0 <=> rjobs'[id].phase = "Absent"
             /\ rjobs'[id].done => rjobs'[id].uid # 0
  <2>1. /\ \A other \in RequestIds :
              /\ rjobs[other].uid \in {0, 1}
              /\ rjobs[other].uid = 0 <=> rjobs[other].phase = "Absent"
              /\ rjobs[other].done => rjobs[other].uid # 0
        /\ fe.uid = 1
        /\ rc.pc \in {"createPublish", "createUnpublish"} => rc.fe.uid = 1
    BY DEF LifeInv, Alive, CopyOf, WorkSteps
  <2>2. CASE UNCHANGED <<rjobs, registry, clock>>
    BY <2>1, <2>2
  <2>3. CASE \E other \in RequestIds :
                JobMade(other) \/ JobWorks(other) \/ JobEnds(other) \/ JobExpires(other)
    <3>1. PICK other \in RequestIds :
                JobMade(other) \/ JobWorks(other) \/ JobEnds(other) \/ JobExpires(other)
      BY <2>3
    <3>2. CASE JobExpires(other)
      BY <2>1, <3>2 DEF JobExpires, NoRJob
    <3>3. CASE ~JobExpires(other)
      <4>1. PICK job \in RequestJob :
               /\ rjobs' = [rjobs EXCEPT ![other] = job]
               /\ job.uid = 1 /\ job.phase # "Absent"
        BY <2>1, <3>1, <3>3 DEF JobMade, JobWorks, JobEnds, SetJob
      <4> QED BY <2>1, <4>1
    <3> QED BY <3>2, <3>3
  <2> QED BY <2>2, <2>3, RequestJobSteps, LifeOwns
<1>9. ASSUME NEW key \in Keys
      PROVE  cms'[key].uid \in {0, 1}
  <2>1. /\ cms[key].uid \in {0, 1}
        /\ \A n \in Attempts : pjobs[<<key, n>>].pod = "built" => pjobs[<<key, n>>].owner = 1
    BY DEF LifeInv, JobNames
  <2>2. CASE \E n \in Attempts : PodWrites(<<key, n>>)
    <3>1. PICK n \in Attempts : PodWrites(<<key, n>>)
      BY <2>2
    <3>2. cms'[key].uid = pjobs[<<key, n>>].owner /\ pjobs[<<key, n>>].pod = "built"
      BY <3>1 DEF PodWrites
    <3> QED BY <2>1, <3>2
  <2> QED BY <2>1, <2>2, ArtifactMoves, LifeOwns, SteadyIs
<1> QED BY <1>1, <1>3, <1>4, <1>5, <1>6, <1>7, <1>8, <1>9 DEF LifeInv, Alive

-----------------------------------------------------------------------------
(* The artifact, once it is there, stays.                                  *)

PodInv(job) ==
    /\ job.pod # "gone" => job.phase = "Running"
    /\ job.pod \in {"new", "built"} => ~Built
    /\ job.pod = "built" => job.digest \in Digests /\ job.digest[1] = fe.src
    /\ job.uid # 0 => fe.src \in ValidSources

\* It is made by a Job of the FE, and nobody works on it any more.  Whoever
\* looks at requests knows it.
ArtifactInv ==
    Alive =>
    /\ CurrentKey \notin rc.doomed
    /\ \A n \in Attempts : PodInv(pjobs[<<CurrentKey, n>>])
    /\ Built => fe.src \in ValidSources /\ MatchingArtifact(CurrentKey) /\ Digest \in Digests
    /\ rc.pc \in LookingSteps => fe.src \in ValidSources
    /\ rc.pc = "create" => ~Built
    /\ (\E id \in RequestIds : rjobs[id].uid # 0) => Built
    /\ rc.pc \in {"publish", "createPublish", "unpublish", "createUnpublish"} =>
          Built /\ rc.digest = Digest
    /\ rc.pc \in {"publish", "createPublish"} =>
          rc.fe.pub.id # None /\ ~RequestStale(rc.fe, rc.digest)
    /\ rc.pc \in {"get", "patch"} /\ rc.status.phase = "Ready" =>
          Built /\ rc.status.art = Digest /\ ArtifactKey(rc.status) = CurrentKey

\* The key of the artifact is one, and that of all who work for the FE.
LEMMA KeyIs ==
    ASSUME TypeInv, LifeInv, Alive
    PROVE  /\ CurrentKey \in Keys /\ cms[CurrentKey] \in ConfigMap /\ CurrentKey[1] = fe.src
           /\ fe.uid = 1
           /\ rc.pc \in WorkSteps \/ rc.pc = "after" =>
                 rc.fe.uid # 0 /\ CopyOf(rc.fe, fe) /\ ArtifactKey(rc.fe) = CurrentKey
           /\ cache.uid # 0 => CopyOf(cache, fe) /\ ArtifactKey(cache) = CurrentKey
           /\ \A n \in Attempts :
                 <<CurrentKey, n>> \in JobNames /\ pjobs[<<CurrentKey, n>>] \in PackageJob
<1> USE Parts
<1>1. CurrentKey \in Keys /\ CurrentKey[1] = fe.src
  BY DEF TypeInv, Keyed, Alive, CurrentKey, ArtifactKey, Keys
<1>2. \A x \in {fe, cache, rc.fe} : x.uid # 0 => CopyOf(x, fe) /\ ArtifactKey(x) = CurrentKey
  BY DEF LifeInv, CopyOf, CurrentKey, ArtifactKey
<1> QED BY <1>1, <1>2 DEF LifeInv, Alive, JobNames

\* Two Jobs do not work on it.
LEMMA OneWorks ==
    ASSUME TypeInv, OrderInv, LifeInv, Alive,
           NEW m \in Attempts, NEW n \in Attempts, m # n,
           pjobs[<<CurrentKey, m>>].phase = "Running"
    PROVE  pjobs[<<CurrentKey, n>>].phase # "Running"
<1>1. CurrentKey \in Keys /\ <<CurrentKey, m>> \in JobNames /\ <<CurrentKey, n>> \in JobNames
  BY KeyIs
<1>2. ASSUME pjobs[<<CurrentKey, n>>].phase = "Running"
      PROVE  FALSE
  <2>1. pjobs[<<CurrentKey, m>>].uid = pjobs[<<CurrentKey, n>>].uid
    BY <1>1, <1>2 DEF OrderInv, RunningExists, LifeInv
  <2>2. m < n \/ n < m
    BY MaxAttemptsAssumption DEF Attempts
  <2> QED BY <1>1, <1>2, <2>1, <2>2 DEF OrderInv, LaterAttemptEndsEarlier, Attempt
<1> QED BY <1>2

\* A Job that writes it is alone.
LEMMA WriterIsAlone ==
    ASSUME TypeInv, OrderInv, LifeInv, ArtifactInv, Alive,
           NEW n \in Attempts, PodWrites(<<CurrentKey, n>>)
    PROVE  /\ ~Built /\ rc' = rc /\ rc.pc # "create"
           /\ cms'[CurrentKey].uid = 1 /\ cms'[CurrentKey].intact
           /\ cms'[CurrentKey].digest \in Digests /\ cms'[CurrentKey].digest[1] = fe.src
           /\ pjobs'[<<CurrentKey, n>>].pod = "wrote"
           /\ pjobs[<<CurrentKey, n>>].phase = "Running"
           /\ fe.src \in ValidSources
           /\ \A m \in Attempts \ {n} :
                 /\ pjobs'[<<CurrentKey, m>>] = pjobs[<<CurrentKey, m>>]
                 /\ pjobs[<<CurrentKey, m>>].pod = "gone"
<1> DEFINE name == <<CurrentKey, n>>
<1>1. name \in JobNames /\ name[1] = CurrentKey
  BY KeyIs
<1>2. PodInv(pjobs[name])
  BY DEF ArtifactInv
<1>3. /\ pjobs[name].pod = "built" /\ pjobs[name].phase = "Running"
      /\ pjobs[name].digest \in Digests /\ pjobs[name].digest[1] = fe.src /\ ~Built
      /\ pjobs[name].owner = 1
  BY <1>1, <1>2 DEF PodWrites, PodInv, LifeInv
<1>4. pjobs[name].uid # 0 /\ fe.src \in ValidSources /\ pjobs[name].uid = fe.uid
  BY <1>1, <1>2, <1>3 DEF OrderInv, RunningExists, PodInv, LifeInv, Alive
<1>5. rc.pc # "create"
  BY <1>3, <1>4, KeyIs DEF OrderInv, LatestKnown, Attempt, WorkSteps, CopyOf
<1>6. rc' = rc /\ PackageJobAct(name)
  BY DEF PodWrites, PackagerUpsert, PJobStep, PackageJobAct, Packager
<1>7. ASSUME NEW m \in Attempts \ {n}
      PROVE  /\ pjobs'[<<CurrentKey, m>>] = pjobs[<<CurrentKey, m>>]
             /\ pjobs[<<CurrentKey, m>>].pod = "gone"
  <2>1. <<CurrentKey, m>> \in JobNames \ {name}
    BY KeyIs
  <2>2. pjobs[<<CurrentKey, m>>].phase # "Running"
    BY <1>3, OneWorks
  <2> QED BY <1>1, <1>6, <2>1, <2>2, ActsOnOne DEF ArtifactInv, PodInv
<1> QED BY <1>1, <1>3, <1>4, <1>5, <1>6, <1>7 DEF PodWrites

\* It is not touched by anybody else, so what is there stays.
LEMMA ArtifactKept ==
    ASSUME Steady, TypeInv, OrderInv, LifeInv, ArtifactInv, Alive, Alive', [Next]_vars
    PROVE  /\ CurrentKey' = CurrentKey /\ fe'.src = fe.src /\ SameSpec(fe', fe)
           /\ \/ cms'[CurrentKey] = cms[CurrentKey]
              \/ \E n \in Attempts : PodWrites(<<CurrentKey, n>>)
           /\ Built => /\ Built' /\ Digest' = Digest
                       /\ MatchingArtifact(CurrentKey) /\ MatchingArtifact(CurrentKey)'
                       /\ fe.src \in ValidSources /\ Digest \in Digests
           /\ cms'[CurrentKey] = cms[CurrentKey] => Built' = Built /\ Digest' = Digest
<1>1. FeMoves
  BY CopiesMove
<1>2. CurrentKey' = CurrentKey /\ fe'.src = fe.src /\ SameSpec(fe', fe)
  BY <1>1 DEF FeMoves, SameSpec, CurrentKey, ArtifactKey
<1>3. \/ cms'[CurrentKey] = cms[CurrentKey]
      \/ \E n \in Attempts : PodWrites(<<CurrentKey, n>>)
  BY ArtifactMoves, LifeOwns, SteadyIs, KeyIs DEF ArtifactInv
<1>4. Built => cms'[CurrentKey] = cms[CurrentKey]
  BY <1>3, WriterIsAlone
<1>5. Built => MatchingArtifact(CurrentKey) /\ fe.src \in ValidSources /\ Digest \in Digests
  BY DEF ArtifactInv
<1>6. cms'[CurrentKey] = cms[CurrentKey] =>
         /\ Built' = Built /\ Digest' = Digest
         /\ MatchingArtifact(CurrentKey) => MatchingArtifact(CurrentKey)'
  BY <1>2 DEF Built, Digest, MatchingArtifact
<1> QED BY <1>2, <1>3, <1>4, <1>5, <1>6

LEMMA ArtifactInit ==
    ASSUME Init
    PROVE  ArtifactInv
<1>1. rc.pc = "idle" /\ rc.doomed = {}
  BY DEF Init, NoReconcile
<1>2. Alive => CurrentKey \in Keys
  BY TypeInvInit DEF TypeInv, Keyed, Alive, CurrentKey, ArtifactKey, Keys
<1>3. /\ \A name \in JobNames : pjobs[name].uid = 0 /\ pjobs[name].pod = "gone"
      /\ \A id \in RequestIds : rjobs[id].uid = 0
      /\ \A key \in Keys : cms[key].uid = 0
  BY DEF Init, NoPJob, NoRJob, NoConfigMap
<1> QED BY <1>1, <1>2, <1>3 DEF ArtifactInv, PodInv, Built, JobNames, LookingSteps

\* What the moves of a reconcile find out about the artifact.
LEMMA ArtifactLooked ==
    ASSUME Steady, TypeInv, OrderInv, LifeInv, ArtifactInv, Alive, ReconcileMoves
    PROVE  /\ CurrentKey \notin rc'.doomed
           /\ rc'.pc \in LookingSteps => fe.src \in ValidSources
           /\ rc'.pc = "create" => ~Built
           /\ rc'.pc \in {"publish", "createPublish", "unpublish", "createUnpublish"} =>
                 Built /\ rc'.digest = Digest
           /\ rc'.pc \in {"publish", "createPublish"} =>
                 rc'.fe.pub.id # None /\ ~RequestStale(rc'.fe, rc'.digest)
           /\ rc'.pc \in {"get", "patch"} /\ rc'.status.phase = "Ready" =>
                 Built /\ rc'.status.art = Digest /\ ArtifactKey(rc'.status) = CurrentKey
           /\ Built => ~(\E x \in {cache, rc.fe} : GivesUp(x))
<1> USE Parts
<1>0. /\ CurrentKey \notin rc.doomed
      /\ Built => fe.src \in ValidSources /\ MatchingArtifact(CurrentKey) /\ Digest \in Digests
      /\ rc.pc \in LookingSteps => fe.src \in ValidSources
      /\ rc.pc = "create" => ~Built
      /\ rc.pc \in {"publish", "createPublish", "unpublish", "createUnpublish"} =>
            Built /\ rc.digest = Digest
      /\ rc.pc \in {"publish", "createPublish"} =>
            rc.fe.pub.id # None /\ ~RequestStale(rc.fe, rc.digest)
      /\ rc.pc \in {"get", "patch"} /\ rc.status.phase = "Ready" =>
            Built /\ rc.status.art = Digest /\ ArtifactKey(rc.status) = CurrentKey
  BY DEF ArtifactInv
<1>1. ASSUME NEW x \in {cache, rc.fe}, GivesUp(x)
      PROVE  ~Built
  <2>1. x.uid # 0 => x.src = fe.src /\ ArtifactKey(x) = CurrentKey
    BY DEF LifeInv, Alive, CopyOf, CurrentKey, ArtifactKey
  <2> QED BY <1>0, <1>1, <2>1 DEF GivesUp
<1>2. rc.pc \in WorkSteps \/ rc.pc = "after" =>
         /\ ArtifactKey(rc.fe) = CurrentKey /\ rc.fe.src = fe.src
         /\ rc.fe.token = fe.token
  BY KeyIs DEF CopyOf
<1>3. LooksAt({"artifact", "artifactAgain"}) =>
         /\ MatchingArtifact(CurrentKey) /\ Built
         /\ cms[ArtifactKey(rc.fe)].digest = Digest
  BY <1>2 DEF LooksAt, MatchingArtifact, Built, Digest, WorkSteps
<1>4. CASE Begins
  <2>1. cache.src = fe.src
    BY <1>4, KeyIs DEF Begins, CopyOf
  <2> QED BY <1>1, <1>4, <2>1 DEF Begins, LookingSteps
<1>5. CASE LooksOn
  <2>1. ~MatchingArtifact(CurrentKey) /\ rc.pc \in LookingSteps
    BY <1>2, <1>5 DEF LooksOn, WorkSteps, LookingSteps
  <2> QED BY <1>0, <1>1, <1>5, <2>1 DEF LooksOn, Kept, LookingSteps
<1>6. CASE \E x \in {cache, rc.fe} : GivesUp(x)
  <2>1. rc'.pc = "get" /\ rc'.doomed = {} /\ rc'.status.phase # "Ready"
    BY <1>6 DEF GivesUp, Decides, PackagingStatus, FailedStatus, StatusFor
  <2> QED BY <1>1, <2>1 DEF LookingSteps
<1>7. CASE AsksPublish
  BY <1>0, <1>1, <1>3, <1>7 DEF AsksPublish, LookingSteps
<1>8. CASE NeedsPublish \/ NeedsUnpublish
  BY <1>0, <1>1, <1>8 DEF NeedsPublish, NeedsUnpublish, Kept, LookingSteps
<1>10. CASE \E publish \in PublishStatus, digest \in Maybe(Digests) :
               AnswersPublish(publish, digest)
  <2>1. PICK publish \in PublishStatus, digest \in Maybe(Digests) :
               AnswersPublish(publish, digest)
    BY <1>10
  <2>2. Built /\ digest = Digest /\ rc.pc \in WorkSteps
    BY <1>0, <1>3, <2>1 DEF AnswersPublish, PublishAnswer, LooksAt, WorkSteps
  <2>3. CASE rc'.pc = "unpublish"
    BY <1>0, <1>1, <2>1, <2>2, <2>3 DEF AnswersPublish, Decides, LookingSteps
  <2>4. CASE rc'.pc # "unpublish"
    <3> DEFINE status == ReadyStatus(rc.fe, digest, publish, rc.fe.status.unpub)
    <3>1. Decides(status)
      BY <2>1, <2>4 DEF AnswersPublish
    <3>2. status.art = Digest /\ ArtifactKey(status) = CurrentKey
      BY <1>2, <2>2 DEF ReadyStatus, StatusFor, ArtifactKey
    <3> HIDE DEF status
    <3>3. /\ rc'.doomed = {} /\ rc'.pc = "get" /\ rc'.status.art = Digest
          /\ ArtifactKey(rc'.status) = CurrentKey
      BY <3>1, <3>2 DEF Decides
    <3> QED BY <1>1, <2>2, <3>3 DEF LookingSteps
  <2> QED BY <2>3, <2>4
<1>11. CASE \E unpublish \in UnpublishStatus : AnswersUnpublish(unpublish)
  <2>1. PICK unpublish \in UnpublishStatus : AnswersUnpublish(unpublish)
    BY <1>11
  <2>2. Built /\ rc.digest = Digest /\ rc.pc \in WorkSteps
    BY <1>0, <2>1 DEF AnswersUnpublish, UnpublishAnswer, WorkSteps
  <2> DEFINE status == ReadyStatus(rc.fe, rc.digest, rc.pub, unpublish)
  <2>3. Decides(status)
    BY <2>1 DEF AnswersUnpublish
  <2>4. status.art = Digest /\ ArtifactKey(status) = CurrentKey
    BY <1>2, <2>2 DEF ReadyStatus, StatusFor, ArtifactKey
  <2> HIDE DEF status
  <2>5. /\ rc'.doomed = {} /\ rc'.pc = "get" /\ rc'.status.art = Digest
        /\ ArtifactKey(rc'.status) = CurrentKey
    BY <2>3, <2>4 DEF Decides
  <2> QED BY <1>1, <2>2, <2>5 DEF LookingSteps
<1>12. CASE Writes
  BY <1>0, <1>1, <1>12 DEF Writes, Kept, LookingSteps
<1>13. CASE Collects
  BY <1>0, <1>1, <1>2, <1>13 DEF Collects, LookingSteps
<1>14. CASE Ends
  BY <1>1, <1>14 DEF Ends, NoReconcile, LookingSteps
<1> QED BY <1>4, <1>5, <1>6, <1>7, <1>8, <1>10, <1>11, <1>12, <1>13, <1>14
        DEF ReconcileMoves

LEMMA ArtifactStep ==
    ASSUME Steady, TypeInv, OrderInv, LifeInv, ArtifactInv, [Next]_vars
    PROVE  ArtifactInv'
<1> USE Parts
<1> SUFFICES ASSUME Alive, Alive'
             PROVE  ArtifactInv'
  BY FeSteps DEF ArtifactInv, Alive, FeMoves, SameSpec
<1>0. /\ CurrentKey \notin rc.doomed
      /\ \A n \in Attempts : PodInv(pjobs[<<CurrentKey, n>>])
      /\ Built => fe.src \in ValidSources /\ MatchingArtifact(CurrentKey) /\ Digest \in Digests
      /\ rc.pc \in LookingSteps => fe.src \in ValidSources
      /\ rc.pc = "create" => ~Built
      /\ (\E id \in RequestIds : rjobs[id].uid # 0) => Built
      /\ rc.pc \in {"publish", "createPublish", "unpublish", "createUnpublish"} =>
            Built /\ rc.digest = Digest
      /\ rc.pc \in {"publish", "createPublish"} =>
            rc.fe.pub.id # None /\ ~RequestStale(rc.fe, rc.digest)
      /\ rc.pc \in {"get", "patch"} /\ rc.status.phase = "Ready" =>
            Built /\ rc.status.art = Digest /\ ArtifactKey(rc.status) = CurrentKey
  BY DEF ArtifactInv
<1>1. /\ CurrentKey' = CurrentKey /\ fe'.src = fe.src
      /\ \/ cms'[CurrentKey] = cms[CurrentKey]
         \/ \E n \in Attempts : PodWrites(<<CurrentKey, n>>)
      /\ Built => Built' /\ Digest' = Digest
      /\ cms'[CurrentKey] = cms[CurrentKey] => Built' = Built /\ Digest' = Digest
  BY ArtifactKept
<1>2. rc' = rc \/ ReconcileMoves
  BY CopiesMove
<1>3. /\ CurrentKey \notin rc'.doomed
      /\ rc'.pc \in LookingSteps => fe.src \in ValidSources
      /\ rc'.pc = "create" => ~Built
      /\ rc'.pc \in {"publish", "createPublish", "unpublish", "createUnpublish"} =>
            Built /\ rc'.digest = Digest
      /\ rc'.pc \in {"publish", "createPublish"} =>
            rc'.fe.pub.id # None /\ ~RequestStale(rc'.fe, rc'.digest)
      /\ rc'.pc \in {"get", "patch"} /\ rc'.status.phase = "Ready" =>
            Built /\ rc'.status.art = Digest /\ ArtifactKey(rc'.status) = CurrentKey
  <2>1. CASE rc' = rc
    BY <1>0, <2>1
  <2> QED BY <1>2, <2>1, ArtifactLooked
<1>4. rc'.pc = "create" => ~Built'
  BY <1>1, <1>3, WriterIsAlone
<1>5. Built' => fe'.src \in ValidSources /\ MatchingArtifact(CurrentKey)' /\ Digest' \in Digests
  <2>1. CASE cms'[CurrentKey] = cms[CurrentKey]
    BY <1>0, <1>1, <2>1 DEF MatchingArtifact
  <2>2. CASE \E n \in Attempts : PodWrites(<<CurrentKey, n>>)
    <3>1. /\ cms'[CurrentKey].intact /\ cms'[CurrentKey].uid = 1
          /\ cms'[CurrentKey].digest \in Digests /\ cms'[CurrentKey].digest[1] = fe.src
          /\ fe.src \in ValidSources /\ CurrentKey[1] = fe.src
      BY <2>2, WriterIsAlone, KeyIs
    <3> QED BY <1>1, <3>1 DEF MatchingArtifact, Digest
  <2> QED BY <1>1, <2>1, <2>2
<1>6. (\E id \in RequestIds : rjobs'[id].uid # 0) => Built'
  <2> SUFFICES ASSUME NEW id \in RequestIds, rjobs'[id].uid # 0, ~Built
               PROVE  FALSE
    BY <1>1
  <2>1. rjobs[id].uid = 0
    BY <1>0
  <2>2. PICK other \in RequestIds :
          JobMade(other) \/ JobWorks(other) \/ JobEnds(other) \/ JobExpires(other)
    BY <2>1, RequestJobSteps, LifeOwns
  <2>3. CASE JobMade(other)
    BY <1>0, <2>3 DEF JobMade
  <2>4. CASE JobExpires(other)
    BY <2>1, <2>4 DEF JobExpires, NoRJob
  <2>5. CASE JobWorks(other) \/ JobEnds(other)
    BY <1>0, <2>1, <2>5 DEF JobWorks, JobEnds, SetJob, LifeInv
  <2> QED BY <2>2, <2>3, <2>4, <2>5
<1>7. ASSUME NEW n \in Attempts
      PROVE  PodInv(pjobs[<<CurrentKey, n>>])'
  <2> DEFINE name == <<CurrentKey, n>>
             job == pjobs'[name]
  <2>1. name \in JobNames /\ name[1] = CurrentKey /\ pjobs[name] \in PackageJob
    BY KeyIs
  <2>2. PodInv(pjobs[name])
    BY <1>0
  <2>3. CASE \E m \in Attempts : PodWrites(<<CurrentKey, m>>)
    <3>1. PICK m \in Attempts : PodWrites(<<CurrentKey, m>>)
      BY <2>3
    <3>2. CASE m = n
      <4>1. /\ job.pod = "wrote" /\ job.phase = pjobs[name].phase
            /\ pjobs[name].phase = "Running" /\ fe.src \in ValidSources
        BY <3>1, <3>2, WriterIsAlone DEF PodWrites
      <4> QED BY <1>1, <4>1 DEF PodInv
    <3>3. CASE m # n
      <4>1. job = pjobs[name] /\ job.pod = "gone" /\ fe.src \in ValidSources
        BY <3>1, <3>3, WriterIsAlone
      <4> QED BY <1>1, <4>1 DEF PodInv
    <3> QED BY <3>2, <3>3
  <2>4. CASE ~(\E m \in Attempts : PodWrites(<<CurrentKey, m>>))
    <3>1. Built' = Built
      BY <1>1, <2>4
    <3>2. CASE pjobs'[name] = pjobs[name]
      BY <1>1, <2>2, <3>1, <3>2 DEF PodInv
    <3>3. CASE PodMade(name)
      BY <1>0, <1>1, <3>1, <3>3 DEF PodMade, PodInv, LookingSteps
    <3>4. CASE PodBuilds(name)
      <4>1. PICK v \in Variants : pjobs'[name].digest = <<fe.src, v>>
        BY <3>4 DEF PodBuilds
      <4>2. /\ job.pod = "built" /\ job.phase = "Running" /\ job.uid = pjobs[name].uid
            /\ pjobs[name].pod = "new"
        BY <3>4 DEF PodBuilds
      <4>3. job.digest \in Digests /\ job.digest[1] = fe.src
        BY <4>1 DEF Digests, TypeInv, Keyed, Alive
      <4> QED BY <1>1, <2>2, <3>1, <4>2, <4>3 DEF PodInv
    <3>5. CASE PodGoes(name)
      BY <1>1, <2>2, <3>5 DEF PodGoes, PodInv
    <3> QED BY <2>1, <2>4, <3>2, <3>3, <3>4, <3>5, PackageJobMoves, SteadyIs
  <2> QED BY <1>1, <2>3, <2>4
<1>8. /\ rc'.pc \in {"publish", "createPublish", "unpublish", "createUnpublish"} =>
            Built' /\ rc'.digest = Digest'
      /\ rc'.pc \in {"get", "patch"} /\ rc'.status.phase = "Ready" =>
            Built' /\ rc'.status.art = Digest' /\ ArtifactKey(rc'.status) = CurrentKey'
  BY <1>1, <1>3
<1> QED BY <1>1, <1>3, <1>4, <1>5, <1>6, <1>7, <1>8 DEF ArtifactInv

-----------------------------------------------------------------------------
(* What a status says of a publish Job it says of this artifact.           *)

PubHonest(publish) ==
    publish.phase \in {"Running", "Succeeded", "Failed"} => Built /\ publish.digest = Digest

HonestPublishes ==
    Alive =>
    /\ PubHonest(rc.pub) /\ PubHonest(rc.status.pub)
    /\ \A x \in {fe, cache, rc.fe} : x.uid # 0 => PubHonest(x.status.pub)

LEMMA AnswerHonest ==
    ASSUME Steady, TypeInv, LifeInv, ArtifactInv, HonestPublishes, Alive,
           NEW publish, NEW digest, PublishAnswer(publish, digest)
    PROVE  PubHonest(publish)
<1>1. rc.pc \in WorkSteps /\ PubHonest(rc.fe.status.pub) /\ PubHonest(NoPublish)
  BY KeyIs DEF PublishAnswer, LooksAt, WorkSteps, HonestPublishes, PubHonest, NoPublish
<1>2. RetainedPublish(rc.fe) \in {rc.fe.status.pub, NoPublish}
  BY DEF RetainedPublish
<1>3. ASSUME NEW job, publish = PublishFromJob(rc.fe.pub.id, digest, job),
             digest = rc.digest, rc.pc \in {"publish", "createPublish"}
      PROVE  PubHonest(publish)
  <2>1. Built /\ rc.digest = Digest
    BY <1>3 DEF ArtifactInv
  <2>2. publish.digest = digest
    BY <1>3 DEF PublishFromJob
  <2> QED BY <1>3, <2>1, <2>2 DEF PubHonest
<1> QED BY <1>1, <1>2, <1>3 DEF PublishAnswer

LEMMA ApplyKeeps ==
    ASSUME NEW publish \in PublishStatus, NEW unpublish
    PROVE  LET after == ApplyUnpublish(publish, unpublish)
           IN  /\ after.phase = publish.phase /\ after.digest = publish.digest
               /\ after.id = publish.id
<1>1. [publish EXCEPT !.active = FALSE].phase = publish.phase
      /\ [publish EXCEPT !.active = FALSE].digest = publish.digest
      /\ [publish EXCEPT !.active = FALSE].id = publish.id
  BY DEF PublishStatus
<1> QED BY <1>1 DEF ApplyUnpublish

LEMMA MovesHonest ==
    ASSUME Steady, TypeInv, OrderInv, LifeInv, ArtifactInv, HonestPublishes, Alive,
           ReconcileMoves
    PROVE  PubHonest(rc'.pub) /\ PubHonest(rc'.status.pub)
<1> USE Parts
<1>1. /\ PubHonest(rc.pub) /\ PubHonest(rc.status.pub)
      /\ PubHonest(NoPublish) /\ PubHonest(NoStatus.pub)
      /\ \A x \in {fe, cache, rc.fe} : x.uid # 0 => PubHonest(x.status.pub)
  BY DEF HonestPublishes, PubHonest, NoPublish, NoStatus
<1>2. CASE Begins \/ Collects \/ Ends
  BY <1>1, <1>2 DEF Begins, Collects, Ends, NoReconcile
<1>3. CASE LooksOn \/ NeedsPublish \/ NeedsUnpublish \/ Writes \/ AsksPublish
  BY <1>1, <1>3 DEF LooksOn, NeedsPublish, NeedsUnpublish, Writes, Kept, AsksPublish
<1>4. ASSUME NEW x \in {cache, rc.fe}, GivesUp(x)
      PROVE  PubHonest(rc'.pub) /\ PubHonest(rc'.status.pub)
  <2>1. /\ rc'.pub = NoPublish /\ rc'.status \in {PackagingStatus(x), FailedStatus(x)}
        /\ PubHonest(x.status.pub)
    BY <1>1, <1>4 DEF GivesUp, Decides
  <2>2. rc'.status.pub = PublishWithoutArtifact(x)
    BY <2>1 DEF PackagingStatus, FailedStatus, StatusFor
  <2>3. PubHonest([NoPublish EXCEPT !.phase = "Pending", !.id = x.pub.id])
    BY DEF NoPublish, PubHonest
  <2>4. RetainedPublish(x) \in {x.status.pub, NoPublish}
    BY DEF RetainedPublish
  <2> QED BY <1>1, <2>1, <2>2, <2>3, <2>4 DEF PublishWithoutArtifact
<1>5. ASSUME NEW publish \in PublishStatus, PubHonest(publish),
             NEW unpublish, NEW digest, Decides(ReadyStatus(rc.fe, digest, publish, unpublish))
      PROVE  PubHonest(rc'.pub) /\ PubHonest(rc'.status.pub)
  <2>1. rc'.pub = NoPublish /\ rc'.status.pub = ApplyUnpublish(publish, unpublish)
    BY <1>5 DEF Decides, ReadyStatus, StatusFor
  <2> QED BY <1>1, <1>5, <2>1, ApplyKeeps DEF PubHonest
<1>6. ASSUME NEW publish \in PublishStatus, NEW digest, AnswersPublish(publish, digest)
      PROVE  PubHonest(rc'.pub) /\ PubHonest(rc'.status.pub)
  <2>1. PubHonest(publish)
    BY <1>6, AnswerHonest DEF AnswersPublish
  <2> QED BY <1>1, <1>5, <1>6, <2>1 DEF AnswersPublish
<1>7. ASSUME NEW unpublish, AnswersUnpublish(unpublish)
      PROVE  PubHonest(rc'.pub) /\ PubHonest(rc'.status.pub)
  BY <1>1, <1>5, <1>7 DEF AnswersUnpublish
<1> QED BY <1>2, <1>3, <1>4, <1>6, <1>7 DEF ReconcileMoves

\* What the patch leaves of a publish section that says something.
LEMMA MergedSays ==
    ASSUME NEW old \in Status, NEW new \in Status,
           NEW merged \in {MergedStatus(old, new)}
    PROVE  /\ merged.phase = new.phase /\ merged.src = new.src /\ merged.token = new.token
           /\ merged.art = new.art
           /\ merged.pub.phase = new.pub.phase /\ merged.unpub.phase = new.unpub.phase
           /\ new.pub.phase # "Absent" /\ new.pub.id # None => merged.pub.id = new.pub.id
           /\ new.pub.phase # "Absent" /\ new.pub.digest # None =>
                 merged.pub.digest = new.pub.digest
           /\ new.unpub.phase # "Absent" /\ new.unpub.id # None =>
                 merged.unpub.id = new.unpub.id
<1>1. new.pub \in PublishStatus /\ new.unpub \in UnpublishStatus
  BY DEF Status
<1> DEFINE p == MergedPublish(old.pub, new.pub)
           u == MergedUnpublish(old.unpub, new.unpub)
<1>2. /\ merged.phase = new.phase /\ merged.src = new.src /\ merged.token = new.token
      /\ merged.art = new.art /\ merged.pub = p /\ merged.unpub = u
  BY DEF MergedStatus, Status
<1>3. /\ p.phase = new.pub.phase
      /\ new.pub.phase # "Absent" /\ new.pub.id # None => p.id = new.pub.id
      /\ new.pub.phase # "Absent" /\ new.pub.digest # None => p.digest = new.pub.digest
  BY <1>1 DEF MergedPublish, PublishStatus, Or
<1>4. /\ u.phase = new.unpub.phase
      /\ new.unpub.phase # "Absent" /\ new.unpub.id # None => u.id = new.unpub.id
  BY <1>1 DEF MergedUnpublish, UnpublishStatus, Or
<1> QED BY <1>2, <1>3, <1>4

LEMMA HonestPublishesStep ==
    ASSUME Steady, TypeInv, OrderInv, LifeInv, ArtifactInv, HonestPublishes, [Next]_vars
    PROVE  HonestPublishes'
<1> USE Parts
<1> SUFFICES ASSUME Alive, Alive'
             PROVE  HonestPublishes'
  BY FeSteps DEF HonestPublishes, Alive, FeMoves, SameSpec
<1>1. /\ PubHonest(rc.pub) /\ PubHonest(rc.status.pub)
      /\ \A x \in {fe, cache, rc.fe} : x.uid # 0 => PubHonest(x.status.pub)
  BY DEF HonestPublishes
<1>2. Built => Built' /\ Digest' = Digest /\ Digest \in Digests
  BY ArtifactKept
<1>3. /\ FeMoves
      /\ rc' = rc \/ ReconcileMoves
      /\ rc'.fe \in {rc.fe, cache, AbsentFE}
      /\ cache' = cache \/ SaysAs(cache', fe)
  BY CopiesMove
<1>4. PubHonest(rc'.pub) /\ PubHonest(rc'.status.pub)
  BY <1>1, <1>3, MovesHonest
<1>5. PubHonest(fe'.status.pub)
  <2>1. CASE fe'.status = fe.status
    BY <1>1, <2>1 DEF Alive
  <2>2. CASE fe'.status = MergedStatus(fe.status, rc.status)
    <3>1. /\ fe'.status.pub.phase = rc.status.pub.phase
          /\ rc.status.pub.phase # "Absent" /\ rc.status.pub.digest # None =>
                fe'.status.pub.digest = rc.status.pub.digest
      BY <2>2, MergedSays
    <3> QED BY <1>1, <1>2, <3>1, NoneAssumption DEF PubHonest
  <2> QED BY <1>3, <2>1, <2>2 DEF FeMoves
<1>6. \A x \in {fe', cache', rc'.fe} : x.uid # 0 => PubHonest(x.status.pub)
  BY <1>1, <1>3, <1>5 DEF SaysAs, SameSpec, Alive
<1>7. /\ PubHonest(rc.pub)' /\ PubHonest(rc.status.pub)'
      /\ \A x \in {fe', cache', rc'.fe} : x.uid # 0 =>
            (x.status.pub.phase \in {"Running", "Succeeded", "Failed"} =>
                Built' /\ x.status.pub.digest = Digest')
  BY <1>2, <1>4, <1>6 DEF PubHonest
<1> QED BY <1>7 DEF HonestPublishes, PubHonest

-----------------------------------------------------------------------------
(* A request that the API is about to write is new.                        *)

Done(id) == \E key \in Maybe(Keys) : <<id, key>> \in registry.done

Known(id) ==
    \/ rjobs[id].uid # 0 \/ Done(id)
    \/ \E x \in {fe, cache, rc.fe} : x.uid # 0 /\ (x.pub.id = id \/ x.unpub = id)

IdsUsed ==
    Alive =>
    /\ Asked \subseteq api.used
    /\ \A id \in RequestIds : Known(id) => id \in api.used /\ id \notin Asked

\* A Job that succeeds there was before.
LEMMA DoneSteps ==
    ASSUME Steady, TypeInv, LifeInv, Alive, [Next]_vars, NEW id \in RequestIds
    PROVE  /\ Done(id) => Done(id)'
           /\ Done(id)' => Done(id) \/ (rjobs[id].phase = "Running" /\ rjobs'[id].phase = "Succeeded")
           /\ rjobs'[id].uid # 0 => rjobs[id].uid # 0 \/ JobMade(id)
           /\ rjobs[id].uid # 0 /\ rjobs'[id].uid = 0 => JobExpires(id)
<1> USE Parts
<1>1. registry \in Registry
  BY DEF TypeInv, TypeOK
<1>2. CASE UNCHANGED <<rjobs, registry, clock>>
  BY <1>2 DEF Done
<1>3. ASSUME NEW other \in RequestIds, JobMade(other)
      PROVE  /\ registry' = registry
             /\ rjobs'[id] = rjobs[id] \/ (other = id /\ rjobs[id].uid = 0)
  BY <1>3 DEF JobMade, SetJob
<1>4. ASSUME NEW other \in RequestIds, JobExpires(other)
      PROVE  /\ registry' = registry
             /\ rjobs'[id] = rjobs[id] \/ (other = id /\ rjobs'[id].uid = 0)
  BY <1>4 DEF JobExpires, NoRJob
<1>5. ASSUME NEW other \in RequestIds, JobWorks(other)
      PROVE  registry'.done = registry.done /\ rjobs'[id].uid = rjobs[id].uid
  BY <1>5 DEF JobWorks, SetJob
<1>6. ASSUME NEW other \in RequestIds, JobEnds(other)
      PROVE  /\ registry.done \subseteq registry'.done
             /\ Done(id)' => Done(id) \/ (rjobs[id].phase = "Running" /\ rjobs'[id].phase = "Succeeded")
             /\ rjobs'[id].uid = rjobs[id].uid
  <2>1. rjobs'[id].uid = rjobs[id].uid
    BY <1>6 DEF JobEnds, SetJob
  <2>2. CASE registry' = registry
    BY <2>1, <2>2 DEF Done
  <2>3. CASE registry' # registry
    <3>1. /\ registry' = [registry EXCEPT !.done = @ \cup {<<other, rjobs[other].key>>}]
          /\ rjobs'[other].phase = "Succeeded" /\ rjobs[other].phase = "Running"
      BY <1>6, <2>3 DEF JobEnds, SetJob
    <3>2. registry'.done = registry.done \cup {<<other, rjobs[other].key>>}
      BY <1>1, <3>1 DEF Registry
    <3> QED BY <2>1, <3>1, <3>2 DEF Done
  <2> QED BY <2>2, <2>3
<1>7. CASE \E other \in RequestIds :
              JobMade(other) \/ JobWorks(other) \/ JobEnds(other) \/ JobExpires(other)
  <2>1. PICK other \in RequestIds :
              JobMade(other) \/ JobWorks(other) \/ JobEnds(other) \/ JobExpires(other)
    BY <1>7
  <2>2. CASE JobMade(other)
    BY <1>3, <2>2 DEF Done
  <2>3. CASE JobExpires(other)
    BY <1>4, <2>3 DEF Done
  <2>4. CASE JobWorks(other)
    BY <1>5, <2>4 DEF Done
  <2>5. CASE JobEnds(other)
    BY <1>6, <2>5 DEF Done
  <2> QED BY <2>1, <2>2, <2>3, <2>4, <2>5
<1> QED BY <1>2, <1>7, RequestJobSteps, LifeOwns

LEMMA IdsUsedInit ==
    ASSUME Init
    PROVE  IdsUsed
<1>1. PICK source \in Sources, token \in Tokens, target \in Targets :
        fe = NewFE(1, source, token, target)
  BY DEF Init
<1>2. fe.pub.id = None /\ fe.unpub = None
  BY <1>1 DEF NewFE, NoRequest
<1>3. cache.uid = 0 /\ rc.fe.uid = 0
  BY AbsentTypes DEF Init, AbsentFE, NewFE, NoReconcile
<1>4. api.op = "none" /\ registry.done = {} /\ \A id \in RequestIds : rjobs[id].uid = 0
  BY DEF Init, NoCall, NothingInstalled, NoRJob
<1>5. None \notin RequestIds
  BY IdsAssumption DEF RequestIds
<1>6. Asked = {}
  BY <1>4 DEF Asked
<1> QED BY <1>2, <1>3, <1>4, <1>5, <1>6 DEF IdsUsed, Known, Done

LEMMA IdsUsedStep ==
    ASSUME Steady, TypeInv, LifeInv, IdsUsed, [Next]_vars
    PROVE  IdsUsed'
<1> USE Parts
<1> SUFFICES ASSUME Alive, Alive'
             PROVE  IdsUsed'
  BY FeSteps DEF IdsUsed, Alive, FeMoves, SameSpec
<1>1. /\ Asked \subseteq api.used
      /\ \A id \in RequestIds : Known(id) => id \in api.used /\ id \notin Asked
  BY DEF IdsUsed
<1>2. /\ FeMoves
      /\ rc'.fe \in {rc.fe, cache, AbsentFE}
      /\ cache' = cache \/ SaysAs(cache', fe)
  BY CopiesMove
<1>3. /\ api.used \subseteq api'.used /\ Asked' \subseteq api'.used
      /\ \A id \in api.used : id \in Asked' => id \in Asked /\ api' = api
  <2>1. CASE UNCHANGED api
    BY <1>1, <2>1 DEF Asked
  <2>2. CASE \E id \in RequestIds : Accepted(id)
    <3>1. PICK id \in RequestIds : Accepted(id)
      BY <2>2
    <3>2. Asked' = {id}
      BY <3>1, IdsAssumption DEF Accepted, Asked, RequestIds
    <3> QED BY <3>1, <3>2 DEF Accepted
  <2>3. CASE Unasked
    <3>1. Asked' = {}
      BY <2>3 DEF Unasked, Asked, RequestOps
    <3> QED BY <2>3, <3>1 DEF Unasked
  <2> QED BY <2>1, <2>2, <2>3, ApiSteps, SteadyIs
<1>4. ASSUME NEW id \in RequestIds, id \in {fe'.pub.id, fe'.unpub}
      PROVE  id \in api.used /\ id \notin Asked'
  <2>1. CASE id \in {fe.pub.id, fe.unpub}
    BY <1>1, <1>3, <2>1 DEF Known, Alive
  <2>2. CASE id \notin {fe.pub.id, fe.unpub}
    <3>1. \/ PatchPublishRequest /\ id = api.req.id
          \/ PatchUnpublishRequest /\ id = api.id
      BY <1>2, <1>4, <2>2 DEF FeMoves, SameRequests
    <3>2. id \in Asked /\ api' = [NoCall EXCEPT !.used = api.used]
      BY <3>1 DEF PatchPublishRequest, PatchUnpublishRequest, Asked
    <3>3. api'.op = "none"
      BY <3>2 DEF NoCall
    <3> QED BY <1>1, <3>2, <3>3 DEF Asked
  <2> QED BY <2>1, <2>2
<1>5. ASSUME NEW id \in RequestIds, Known(id)'
      PROVE  id \in api.used /\ id \notin Asked'
  <2>1. CASE Known(id)
    BY <1>1, <1>3, <2>1
  <2>2. CASE ~Known(id)
    <3>1. rjobs[id].uid = 0 /\ ~Done(id)
          /\ \A x \in {fe, cache, rc.fe} : x.uid # 0 => x.pub.id # id /\ x.unpub # id
      BY <2>2 DEF Known
    <3>2. rjobs[id].phase = "Absent"
      BY <3>1 DEF LifeInv
    <3>3. ~JobMade(id)
      BY <3>1, KeyIs DEF JobMade, WorkSteps
    <3>4. rjobs'[id].uid = 0 /\ ~Done(id)'
      BY <3>1, <3>2, <3>3, DoneSteps
    <3>5. \A x \in {cache', rc'.fe} : x.uid # 0 => x.pub.id # id /\ x.unpub # id
      BY <1>2, <3>1 DEF SaysAs, SameSpec, SameRequests
    <3>6. fe'.pub.id = id \/ fe'.unpub = id
      BY <1>5, <3>4, <3>5 DEF Known
    <3> QED BY <1>4, <3>6
  <2> QED BY <2>1, <2>2
<1> QED BY <1>3, <1>5 DEF IdsUsed

-----------------------------------------------------------------------------
(* With its artifact the FE comes to rest as Ready.                        *)

ReadyAtRest ==
    Undisturbed /\ Built =>
    /\ rc.pc \in {"get", "patch", "reget", "labels"} => rc.status.phase = "Ready"
    /\ rc.pc \in {"after", "gc", "idle"} => fe.status.phase = "Ready"

LEMMA ReadyAtRestStep ==
    ASSUME Steady, TypeInv, OrderInv, LifeInv, ArtifactInv, RestInv, ReadyAtRest, [Next]_vars
    PROVE  ReadyAtRest'
<1> USE Parts
<1> SUFFICES ASSUME Undisturbed', Built'
             PROVE  /\ rc'.pc \in {"get", "patch", "reget", "labels"} => rc'.status.phase = "Ready"
                    /\ rc'.pc \in {"after", "gc", "idle"} => fe'.status.phase = "Ready"
  BY DEF ReadyAtRest
<1>1. CASE UNCHANGED vars
  BY <1>1 DEF ReadyAtRest, Undisturbed, Built, CurrentKey, ArtifactKey, vars
<1>2. CASE Undisturbed /\ SameWorld /\ UNCHANGED rc
  <2>1. fe' = fe /\ Built
    BY <1>2 DEF SameWorld, Built, CurrentKey, ArtifactKey
  <2> QED BY <1>2, <2>1 DEF ReadyAtRest
<1>3. CASE Reconcile
  <2>1. /\ UNCHANGED fe /\ (ReconcileStart \/ Undisturbed)
        /\ UNCHANGED cms \/ DeleteOldArtifact
        /\ ~Notify
    BY <1>3, ReconcileRests
  <2>2. Alive /\ Alive'
    BY <2>1 DEF Undisturbed, Alive
  <2>3. Built
    <3>1. CurrentKey \in Keys /\ CurrentKey' = CurrentKey
      BY <2>1, <2>2, KeyIs DEF CurrentKey, ArtifactKey
    <3>2. DeleteOldArtifact => cms'[CurrentKey] = cms[CurrentKey] \/ cms'[CurrentKey].uid = 0
      BY <3>1 DEF DeleteOldArtifact, NoConfigMap
    <3> QED BY <2>1, <3>1, <3>2 DEF Built
  <2>4. ReconcileMoves
    BY <1>3, <2>2, Moves, WorkIsValid
  <2>5. CASE Begins
    BY <2>5 DEF Begins
  <2>6. CASE LooksOn \/ AsksPublish \/ NeedsPublish \/ NeedsUnpublish
    BY <2>6 DEF LooksOn, AsksPublish, NeedsPublish, NeedsUnpublish
  <2>7. ~(\E x \in {cache, rc.fe} : GivesUp(x))
    BY <2>2, <2>3, <2>4, ArtifactLooked
  <2>8. CASE \E publish \in PublishStatus, digest \in Maybe(Digests) :
                AnswersPublish(publish, digest)
    BY <2>8 DEF AnswersPublish, Decides, ReadyStatus, StatusFor
  <2>9. CASE \E unpublish \in UnpublishStatus : AnswersUnpublish(unpublish)
    BY <2>9 DEF AnswersUnpublish, Decides, ReadyStatus, StatusFor
  <2>10. rc.pc # "idle" => /\ Undisturbed /\ OnTheWay(rc)
                           /\ rc.pc \in {"get", "patch", "reget", "labels"} => rc.status.phase = "Ready"
                           /\ rc.pc \in {"after", "gc"} => fe.status.phase = "Ready"
    BY <2>1, <2>3 DEF ReconcileStart, RestInv, ReadyAtRest
  <2>11. CASE Writes
    <3>1. rc'.status = rc.status /\ rc.status.phase = "Ready"
      BY <2>10, <2>11 DEF Writes, Kept
    <3>2. CASE rc'.pc = "after"
      <4>1. CASE rc.pc = "get"
        <5>1. Observes(rc.status, fe)
          BY <2>10, <4>1 DEF OnTheWay, Decided, Justified
        <5> QED BY <2>1, <2>11, <3>1, <3>2, <4>1, <5>1 DEF Writes
      <4>2. CASE rc.pc \in {"reget", "labels"}
        <5>1. fe.status.phase = rc.status.phase
          BY <2>10, <4>2 DEF OnTheWay, Written
        <5> QED BY <2>1, <3>1, <3>2, <5>1
      <4> QED BY <2>11, <3>2, <4>1, <4>2 DEF Writes
    <3> QED BY <2>11, <3>1, <3>2 DEF Writes
  <2>12. CASE Collects
    BY <2>1, <2>10, <2>12 DEF Collects
  <2>13. CASE Ends
    <3>1. rc'.pc = "idle" /\ queue' # "event" /\ fe'.uid # 0
      BY <2>13 DEF Ends, NoReconcile, Undisturbed
    <3>2. rc.pc \in {"after", "gc"}
      BY <2>10, <2>13, <3>1 DEF Ends
    <3> QED BY <2>1, <2>10, <3>1, <3>2
  <2> QED BY <2>4, <2>5, <2>6, <2>7, <2>8, <2>9, <2>11, <2>12, <2>13 DEF ReconcileMoves
<1> QED BY <1>1, <1>2, <1>3, OthersRest

-----------------------------------------------------------------------------
(* A request that was carried out is closed when its Job is gone.          *)

\* The publish status p says of the request of x that it was carried out for
\* this artifact, if it is not to be passed over.
PubCloses(x, p) ==
    RequestStale(x, Digest) \/ (p.id = x.pub.id /\ p.digest = Digest /\ p.phase \in Terminal)

UnpubCloses(x, u) == u.id = x.unpub /\ u.phase \in Terminal

\* Every status says so, and the one that is going to be written; nobody is
\* about to make the Job again, or works on an FE from before the request.
ClosedPublish(id) ==
    /\ Built
    /\ \A x \in {fe, cache, rc.fe} : x.uid # 0 /\ x.pub.id = id =>
          /\ PubCloses(x, x.status.pub)
          /\ RequestStale(x, Digest) \/ (x.status.art # None /\ ArtifactKey(x.status) = CurrentKey)
    /\ rc.pc = "createPublish" => rc.fe.pub.id # id
    /\ fe.pub.id = id =>
        /\ cache.uid # 0
        /\ \A x \in {fe, cache, rc.fe} : x.uid # 0 => x.pub = fe.pub
        /\ rc.pc \in {"unpublish", "createUnpublish"} => PubCloses(fe, rc.pub)
        /\ rc.pc \in {"get", "patch"} =>
              rc.status.phase = "Ready" /\ PubCloses(fe, rc.status.pub)

ClosedUnpublish(id) ==
    /\ Built
    /\ \A x \in {fe, cache, rc.fe} : x.uid # 0 /\ x.unpub = id => UnpubCloses(x, x.status.unpub)
    /\ rc.pc = "createUnpublish" => rc.fe.unpub # id
    /\ fe.unpub = id =>
        /\ cache.uid # 0
        /\ \A x \in {fe, cache, rc.fe} : x.uid # 0 => x.unpub = fe.unpub
        /\ rc.pc \in {"get", "patch"} =>
              rc.status.phase = "Ready" /\ UnpubCloses(fe, rc.status.unpub)

Closed(id) ==
    /\ id \in PublishIds => ClosedPublish(id)
    /\ id \in UnpublishIds => ClosedUnpublish(id)

FinishedInv == Alive => \A id \in RequestIds : Done(id) => rjobs[id].uid # 0 \/ Closed(id)

\* Who looks for the Job of a closed request finds its answer in the status.
LEMMA ClosedIsSeen ==
    ASSUME TypeInv, LifeInv, ArtifactInv, Alive, NEW id \in RequestIds, Closed(id)
    PROVE  /\ rc.pc = "publish" /\ rc.fe.pub.id = id => PublishAlreadyFinished(rc.fe, rc.digest)
           /\ rc.pc = "unpublish" /\ rc.fe.unpub = id => UnpublishAlreadyFinished(rc.fe)
<1>1. ASSUME rc.pc = "publish", rc.fe.pub.id = id
      PROVE  PublishAlreadyFinished(rc.fe, rc.digest)
  <2>1. id \in PublishIds /\ rc.fe.uid # 0 /\ ArtifactKey(rc.fe) = CurrentKey
    BY <1>1, KeyIs DEF TypeInv, Prepared, WorkSteps
  <2>2. rc.digest = Digest /\ ~RequestStale(rc.fe, Digest)
    BY <1>1 DEF ArtifactInv
  <2>3. /\ PubCloses(rc.fe, rc.fe.status.pub)
        /\ rc.fe.status.art # None /\ ArtifactKey(rc.fe.status) = CurrentKey
    BY <1>1, <2>1, <2>2 DEF Closed, ClosedPublish
  <2> QED BY <2>1, <2>2, <2>3 DEF PubCloses, PublishAlreadyFinished, StatusArtifactKeys
<1>2. ASSUME rc.pc = "unpublish", rc.fe.unpub = id
      PROVE  UnpublishAlreadyFinished(rc.fe)
  <2>1. id \in UnpublishIds /\ rc.fe.uid # 0
    BY <1>2, KeyIs DEF TypeInv, Prepared, WorkSteps
  <2> QED BY <1>2, <2>1 DEF Closed, ClosedUnpublish, UnpubCloses, UnpublishAlreadyFinished
<1> QED BY <1>1, <1>2

\* What the moves of a reconcile make of a closed publish request.
LEMMA ClosedPublishMoves ==
    ASSUME Steady, TypeInv, OrderInv, LifeInv, ArtifactInv, Alive, ReconcileMoves,
           NEW id \in PublishIds, ClosedPublish(id), rjobs'[id].uid = 0
    PROVE  /\ rc'.pc = "createPublish" => rc'.fe.pub.id # id
           /\ fe.pub.id = id =>
              /\ rc'.pc \in {"unpublish", "createUnpublish"} => PubCloses(fe, rc'.pub)
              /\ rc'.pc \in {"get", "patch"} =>
                    rc'.status.phase = "Ready" /\ PubCloses(fe, rc'.status.pub)
<1> USE Parts
<1>0. id \in RequestIds /\ id # None /\ Closed(id)
  BY IdsAssumption DEF RequestIds, Closed
<1>1. /\ Built
      /\ rc.pc = "createPublish" => rc.fe.pub.id # id
      /\ fe.pub.id = id /\ rc.fe.uid # 0 => rc.fe.pub = fe.pub
      /\ fe.pub.id = id =>
          /\ rc.pc \in {"unpublish", "createUnpublish"} => PubCloses(fe, rc.pub)
          /\ rc.pc \in {"get", "patch"} =>
                rc.status.phase = "Ready" /\ PubCloses(fe, rc.status.pub)
  BY DEF ClosedPublish
<1>2. rc'.pc = "createPublish" => rc'.fe.pub.id # id
  <2> SUFFICES ASSUME rc'.pc = "createPublish"
               PROVE  rc'.fe.pub.id # id
    OBVIOUS
  <2>1. NeedsPublish
    BY DEF ReconcileMoves, Begins, LooksOn, GivesUp, Decides, AsksPublish, AnswersPublish,
       NeedsUnpublish, AnswersUnpublish, Writes, Collects, Ends, NoReconcile
  <2>2. rc'.fe = rc.fe /\ rc.pc = "publish" /\ ~PublishAlreadyFinished(rc.fe, rc.digest)
    BY <2>1 DEF NeedsPublish, Kept
  <2> QED BY <1>0, <2>2, ClosedIsSeen
<1> DEFINE Right == /\ rc'.pc \in {"unpublish", "createUnpublish"} => PubCloses(fe, rc'.pub)
                    /\ rc'.pc \in {"get", "patch"} =>
                          rc'.status.phase = "Ready" /\ PubCloses(fe, rc'.status.pub)
<1> SUFFICES ASSUME fe.pub.id = id
             PROVE  Right
  BY <1>2
<1>3. rc.pc \in WorkSteps =>
         /\ rc.fe.pub = fe.pub /\ ArtifactKey(rc.fe) = CurrentKey
         /\ \A d : RequestStale(rc.fe, d) = RequestStale(fe, d)
  BY <1>1, KeyIs DEF RequestStale, CopyOf
<1>4. CASE Begins \/ Collects \/ Ends \/ LooksOn \/ NeedsPublish \/ AsksPublish
  BY <1>4 DEF Begins, Collects, Ends, NoReconcile, LooksOn, NeedsPublish, AsksPublish
<1>5. CASE NeedsUnpublish \/ Writes
  BY <1>1, <1>5 DEF NeedsUnpublish, Writes, Kept
<1>6. ~(\E x \in {cache, rc.fe} : GivesUp(x))
  BY <1>1, ArtifactLooked
<1>7. ASSUME NEW publish \in PublishStatus, PubCloses(fe, publish), NEW unpublish, NEW digest,
             Decides(ReadyStatus(rc.fe, digest, publish, unpublish))
      PROVE  Right
  <2>1. /\ rc'.pc = "get" /\ rc'.status.phase = "Ready"
        /\ rc'.status.pub = ApplyUnpublish(publish, unpublish)
    BY <1>7 DEF Decides, ReadyStatus, StatusFor
  <2> QED BY <1>7, <2>1, ApplyKeeps DEF PubCloses
<1>8. ASSUME NEW publish \in PublishStatus, NEW digest, AnswersPublish(publish, digest)
      PROVE  Right
  <2>1. rc.pc \in WorkSteps /\ PublishAnswer(publish, digest)
    BY <1>8 DEF AnswersPublish, PublishAnswer, LooksAt, WorkSteps
  <2>2. PubCloses(fe, publish)
    <3>1. CASE RequestStale(rc.fe, digest) /\ digest = cms[ArtifactKey(rc.fe)].digest
      BY <1>3, <2>1, <3>1 DEF PubCloses, Digest
    <3>2. CASE /\ rc.pc = "publish" /\ digest = rc.digest
               /\ PublishAlreadyFinished(rc.fe, digest) /\ publish = rc.fe.status.pub
      <4>1. rc.digest = Digest
        BY <3>2 DEF ArtifactInv
      <4> QED BY <1>3, <2>1, <3>2, <4>1 DEF PublishAlreadyFinished, PubCloses
    <3> QED BY <1>0, <1>3, <2>1, <3>1, <3>2 DEF PublishAnswer
  <2> QED BY <1>7, <1>8, <2>2 DEF AnswersPublish
<1>9. ASSUME NEW unpublish, AnswersUnpublish(unpublish)
      PROVE  Right
  <2>1. PubCloses(fe, rc.pub)
    BY <1>1, <1>9 DEF AnswersUnpublish, UnpublishAnswer
  <2> QED BY <1>7, <1>9, <2>1 DEF AnswersUnpublish
<1> QED BY <1>4, <1>5, <1>6, <1>8, <1>9 DEF ReconcileMoves

LEMMA ClosedPublishStep ==
    ASSUME Steady, TypeInv, OrderInv, LifeInv, ArtifactInv, Alive, Alive', [Next]_vars,
           NEW id \in PublishIds, ClosedPublish(id), rjobs'[id].uid = 0, id \notin Asked
    PROVE  ClosedPublish(id)'
<1> USE Parts
<1>1. /\ Built
      /\ \A x \in {fe, cache, rc.fe} : x.uid # 0 /\ x.pub.id = id =>
            /\ PubCloses(x, x.status.pub)
            /\ \/ RequestStale(x, Digest)
               \/ x.status.art # None /\ ArtifactKey(x.status) = CurrentKey
      /\ rc.pc = "createPublish" => rc.fe.pub.id # id
      /\ fe.pub.id = id =>
          /\ cache.uid # 0
          /\ \A x \in {fe, cache, rc.fe} : x.uid # 0 => x.pub = fe.pub
          /\ rc.pc \in {"unpublish", "createUnpublish"} => PubCloses(fe, rc.pub)
          /\ rc.pc \in {"get", "patch"} =>
                rc.status.phase = "Ready" /\ PubCloses(fe, rc.status.pub)
  BY DEF ClosedPublish
<1>2. /\ CurrentKey' = CurrentKey /\ SameSpec(fe', fe) /\ Built' /\ Digest' = Digest
      /\ Digest \in Digests
  BY <1>1, ArtifactKept
<1>3. /\ FeMoves
      /\ rc' = rc \/ ReconcileMoves
      /\ rc'.fe \in {rc.fe, cache, AbsentFE}
      /\ cache' = cache \/ SaysAs(cache', fe)
  BY CopiesMove
<1>4. fe'.pub.id = id => fe'.pub = fe.pub
  <2>1. CASE PatchPublishRequest /\ fe'.pub = api.req
    BY <2>1 DEF PatchPublishRequest, Asked, RequestIds
  <2> QED BY <1>3, <2>1 DEF FeMoves, SameRequests
<1>5. \A x, y : x.pub = y.pub /\ x.gen = y.gen /\ x.src = y.src =>
         RequestStale(x, Digest) = RequestStale(y, Digest)
  BY DEF RequestStale
<1>6. /\ rc'.pc = "createPublish" => rc'.fe.pub.id # id
      /\ fe.pub.id = id =>
          /\ rc'.pc \in {"unpublish", "createUnpublish"} => PubCloses(fe, rc'.pub)
          /\ rc'.pc \in {"get", "patch"} =>
                rc'.status.phase = "Ready" /\ PubCloses(fe, rc'.status.pub)
  <2>1. CASE rc' = rc
    BY <1>1, <2>1
  <2> QED BY <1>3, <2>1, ClosedPublishMoves
<1> DEFINE Right(x) ==
      /\ PubCloses(x, x.status.pub)
      /\ RequestStale(x, Digest) \/ (x.status.art # None /\ ArtifactKey(x.status) = CurrentKey)
<1>7. fe'.pub.id = id => Right(fe')
  <2> SUFFICES ASSUME fe'.pub.id = id, ~RequestStale(fe', Digest)
               PROVE  Right(fe')
    BY DEF PubCloses
  <2>1. fe'.pub = fe.pub /\ ~RequestStale(fe, Digest) /\ fe.pub.id = id /\ id # None
    BY <1>2, <1>4, <1>5, IdsAssumption DEF SameSpec
  <2>2. CASE fe'.status = fe.status
    BY <1>1, <2>1, <2>2 DEF PubCloses, Alive
  <2>3. CASE PatchStatus /\ fe'.status = MergedStatus(fe.status, rc.status)
    <3>1. rc.pc = "patch" /\ rc.status.phase = "Ready" /\ PubCloses(fe, rc.status.pub)
      BY <1>1, <2>1, <2>3 DEF PatchStatus
    <3>2. rc.status.art = Digest /\ ArtifactKey(rc.status) = CurrentKey
      BY <3>1 DEF ArtifactInv
    <3>3. /\ rc.status.pub.id = id /\ rc.status.pub.digest = Digest
          /\ rc.status.pub.phase \in Terminal
      BY <2>1, <3>1 DEF PubCloses
    <3>4. rc.status.pub.phase # "Absent" /\ Digest # None
      BY <1>2, <3>3, NoneAssumption DEF Terminal
    <3>5. /\ fe'.status.pub.id = id /\ fe'.status.pub.digest = Digest
          /\ fe'.status.pub.phase \in Terminal /\ fe'.status.art = Digest
          /\ fe'.status.src = rc.status.src /\ fe'.status.token = rc.status.token
      BY <2>1, <2>3, <3>2, <3>3, <3>4, MergedSays
    <3> QED BY <2>1, <3>2, <3>4, <3>5 DEF PubCloses, ArtifactKey
  <2> QED BY <1>3, <2>2, <2>3 DEF FeMoves
<1>8. \A x \in {fe', cache', rc'.fe} : x.uid # 0 /\ x.pub.id = id => Right(x)
  <2>1. \A x, y : SaysAs(x, y) /\ Right(y) => Right(x)
    BY <1>5 DEF SaysAs, SameSpec, SameRequests, PubCloses
  <2>2. \A x \in {fe, cache, rc.fe} : x.uid # 0 /\ x.pub.id = id => Right(x)
    BY <1>1
  <2> HIDE DEF Right
  <2>3. \A x, y : SaysAs(x, y) => x.uid = y.uid /\ x.pub = y.pub
    BY DEF SaysAs, SameSpec, SameRequests
  <2> QED BY <1>3, <1>7, <2>1, <2>2, <2>3
<1>9. fe'.pub.id = id =>
         cache'.uid # 0 /\ \A x \in {fe', cache', rc'.fe} : x.uid # 0 => x.pub = fe'.pub
  <2> SUFFICES ASSUME fe'.pub.id = id
               PROVE  cache'.uid # 0 /\ \A x \in {fe', cache', rc'.fe} : x.uid # 0 => x.pub = fe'.pub
    OBVIOUS
  <2>1. fe.pub.id = id /\ fe'.pub = fe.pub
    BY <1>4
  <2> QED BY <1>1, <1>3, <2>1 DEF SaysAs, SameSpec, SameRequests, Alive
<1>10. fe'.pub.id = id => fe.pub.id = id /\ \A p : PubCloses(fe, p) => PubCloses(fe', p)
  BY <1>2, <1>4, <1>5 DEF PubCloses, SameSpec
<1>11. \A x, p : PubCloses(x, p) => (RequestStale(x, Digest') \/
          (p.id = x.pub.id /\ p.digest = Digest' /\ p.phase \in Terminal))
  BY <1>2 DEF PubCloses
<1> HIDE DEF Right
<1>12. \A x \in {fe', cache', rc'.fe} : x.uid # 0 /\ x.pub.id = id =>
          /\ PubCloses(x, x.status.pub)
          /\ RequestStale(x, Digest') \/ (x.status.art # None /\ ArtifactKey(x.status) = CurrentKey')
  BY <1>2, <1>8 DEF Right
<1>13. fe'.pub.id = id =>
        /\ rc'.pc \in {"unpublish", "createUnpublish"} => PubCloses(fe', rc'.pub)
        /\ rc'.pc \in {"get", "patch"} =>
              rc'.status.phase = "Ready" /\ PubCloses(fe', rc'.status.pub)
  BY <1>6, <1>10
<1> QED BY <1>2, <1>6, <1>9, <1>11, <1>12, <1>13 DEF ClosedPublish, PubCloses

\* The same for an unpublish request.
LEMMA ClosedUnpublishMoves ==
    ASSUME Steady, TypeInv, OrderInv, LifeInv, ArtifactInv, Alive, ReconcileMoves,
           NEW id \in UnpublishIds, ClosedUnpublish(id), rjobs'[id].uid = 0
    PROVE  /\ rc'.pc = "createUnpublish" => rc'.fe.unpub # id
           /\ fe.unpub = id /\ rc'.pc \in {"get", "patch"} =>
                 rc'.status.phase = "Ready" /\ UnpubCloses(fe, rc'.status.unpub)
<1> USE Parts
<1>0. id \in RequestIds /\ id # None /\ Closed(id)
  BY IdsAssumption DEF RequestIds, Closed
<1>1. /\ Built
      /\ rc.pc = "createUnpublish" => rc.fe.unpub # id
      /\ fe.unpub = id /\ rc.fe.uid # 0 =>
            rc.fe.unpub = id /\ UnpubCloses(rc.fe, rc.fe.status.unpub)
      /\ fe.unpub = id /\ rc.pc \in {"get", "patch"} =>
            rc.status.phase = "Ready" /\ UnpubCloses(fe, rc.status.unpub)
  BY DEF ClosedUnpublish
<1>2. rc'.pc = "createUnpublish" => rc'.fe.unpub # id
  <2> SUFFICES ASSUME rc'.pc = "createUnpublish"
               PROVE  rc'.fe.unpub # id
    OBVIOUS
  <2>1. NeedsUnpublish
    BY DEF ReconcileMoves, Begins, LooksOn, GivesUp, Decides, AsksPublish, AnswersPublish,
       NeedsPublish, AnswersUnpublish, Writes, Collects, Ends, NoReconcile
  <2>2. rc'.fe = rc.fe /\ rc.pc = "unpublish" /\ ~UnpublishAlreadyFinished(rc.fe)
    BY <2>1 DEF NeedsUnpublish, Kept
  <2> QED BY <1>0, <2>2, ClosedIsSeen
<1> DEFINE Right == rc'.pc \in {"get", "patch"} =>
                       rc'.status.phase = "Ready" /\ UnpubCloses(fe, rc'.status.unpub)
<1> SUFFICES ASSUME fe.unpub = id
             PROVE  Right
  BY <1>2
<1>3. rc.pc \in WorkSteps => rc.fe.unpub = id /\ UnpubCloses(rc.fe, rc.fe.status.unpub)
  BY <1>1, KeyIs
<1>4. CASE \/ Begins \/ Collects \/ Ends \/ LooksOn \/ NeedsPublish \/ AsksPublish
           \/ NeedsUnpublish
  BY <1>4 DEF Begins, Collects, Ends, NoReconcile, LooksOn, NeedsPublish, AsksPublish,
              NeedsUnpublish
<1>5. CASE Writes
  BY <1>1, <1>5 DEF Writes, Kept
<1>6. ~(\E x \in {cache, rc.fe} : GivesUp(x))
  BY <1>1, ArtifactLooked
<1>7. ASSUME NEW publish, NEW digest, AnswersPublish(publish, digest)
      PROVE  Right
  BY <1>0, <1>3, <1>7 DEF AnswersPublish, PublishAnswer, LooksAt, WorkSteps
<1>8. ASSUME NEW unpublish, AnswersUnpublish(unpublish)
      PROVE  Right
  <2>1. rc.pc \in WorkSteps
    BY <1>8 DEF AnswersUnpublish, UnpublishAnswer, WorkSteps
  <2>2. UnpubCloses(fe, unpublish)
    BY <1>1, <1>3, <1>8, <2>1 DEF AnswersUnpublish, UnpublishAnswer, UnpubCloses
  <2>3. rc'.status.phase = "Ready" /\ rc'.status.unpub = unpublish
    BY <1>8 DEF AnswersUnpublish, Decides, ReadyStatus, StatusFor
  <2> QED BY <2>2, <2>3
<1> QED BY <1>4, <1>5, <1>6, <1>7, <1>8 DEF ReconcileMoves

LEMMA ClosedUnpublishStep ==
    ASSUME Steady, TypeInv, OrderInv, LifeInv, ArtifactInv, Alive, Alive', [Next]_vars,
           NEW id \in UnpublishIds, ClosedUnpublish(id), rjobs'[id].uid = 0, id \notin Asked
    PROVE  ClosedUnpublish(id)'
<1> USE Parts
<1>1. /\ Built
      /\ \A x \in {fe, cache, rc.fe} : x.uid # 0 /\ x.unpub = id => UnpubCloses(x, x.status.unpub)
      /\ rc.pc = "createUnpublish" => rc.fe.unpub # id
      /\ fe.unpub = id =>
          /\ cache.uid # 0
          /\ \A x \in {fe, cache, rc.fe} : x.uid # 0 => x.unpub = fe.unpub
          /\ rc.pc \in {"get", "patch"} =>
                rc.status.phase = "Ready" /\ UnpubCloses(fe, rc.status.unpub)
  BY DEF ClosedUnpublish
<1>2. Built'
  BY <1>1, ArtifactKept
<1>3. /\ FeMoves
      /\ rc' = rc \/ ReconcileMoves
      /\ rc'.fe \in {rc.fe, cache, AbsentFE}
      /\ cache' = cache \/ SaysAs(cache', fe)
  BY CopiesMove
<1>4. fe'.unpub = id => fe'.unpub = fe.unpub
  <2>1. CASE PatchUnpublishRequest /\ fe'.unpub = api.id
    BY <2>1 DEF PatchUnpublishRequest, Asked, RequestIds
  <2> QED BY <1>3, <2>1 DEF FeMoves, SameRequests
<1>5. /\ rc'.pc = "createUnpublish" => rc'.fe.unpub # id
      /\ fe.unpub = id /\ rc'.pc \in {"get", "patch"} =>
            rc'.status.phase = "Ready" /\ UnpubCloses(fe, rc'.status.unpub)
  <2>1. CASE rc' = rc
    BY <1>1, <2>1
  <2> QED BY <1>3, <2>1, ClosedUnpublishMoves
<1>6. fe'.unpub = id => UnpubCloses(fe', fe'.status.unpub)
  <2> SUFFICES ASSUME fe'.unpub = id
               PROVE  UnpubCloses(fe', fe'.status.unpub)
    OBVIOUS
  <2>1. fe.unpub = id /\ id # None
    BY <1>4, IdsAssumption
  <2>2. CASE fe'.status = fe.status
    BY <1>1, <2>1, <2>2 DEF UnpubCloses, Alive
  <2>3. CASE PatchStatus /\ fe'.status = MergedStatus(fe.status, rc.status)
    <3>1. rc.status.unpub.id = id /\ rc.status.unpub.phase \in Terminal
      BY <1>1, <2>1, <2>3 DEF PatchStatus, UnpubCloses
    <3>2. rc.status.unpub.phase # "Absent"
      BY <3>1 DEF Terminal
    <3>3. fe'.status.unpub.id = id /\ fe'.status.unpub.phase \in Terminal
      BY <2>1, <2>3, <3>1, <3>2, MergedSays
    <3> QED BY <3>3 DEF UnpubCloses
  <2> QED BY <1>3, <2>2, <2>3 DEF FeMoves
<1>7. \A x, y : SaysAs(x, y) =>
         /\ x.uid = y.uid /\ x.unpub = y.unpub
         /\ UnpubCloses(y, y.status.unpub) => UnpubCloses(x, x.status.unpub)
  BY DEF SaysAs, SameSpec, SameRequests, UnpubCloses
<1>8. \A x \in {fe', cache', rc'.fe} : x.uid # 0 /\ x.unpub = id => UnpubCloses(x, x.status.unpub)
  BY <1>1, <1>3, <1>6, <1>7
<1>9. fe'.unpub = id =>
         cache'.uid # 0 /\ \A x \in {fe', cache', rc'.fe} : x.uid # 0 => x.unpub = fe'.unpub
  BY <1>1, <1>3, <1>4, <1>7 DEF Alive
<1>10. fe'.unpub = id /\ rc'.pc \in {"get", "patch"} =>
          rc'.status.phase = "Ready" /\ UnpubCloses(fe', rc'.status.unpub)
  BY <1>4, <1>5 DEF UnpubCloses
<1> QED BY <1>2, <1>5, <1>8, <1>9, <1>10 DEF ClosedUnpublish

\* When the Job of a request expires the status has its end.
LEMMA ExpiredIsClosed ==
    ASSUME Steady, TypeInv, LifeInv, ArtifactInv, HonestPublishes, RestInv, ReadyAtRest, Alive,
           NEW id \in RequestIds, JobExpires(id)
    PROVE  Closed(id)'
<1> USE Parts
<1>1. /\ rjobs[id].phase \in Terminal /\ rc.pc = "idle" /\ Undisturbed
      /\ UNCHANGED <<fe, cache, rc, cms, registry, api>>
  BY SteadyIs DEF JobExpires, CaughtUp, Undisturbed, LifeInv, Alive
<1>2. rjobs[id].uid # 0 /\ Built
  BY <1>1 DEF LifeInv, Terminal, ArtifactInv, Alive
<1>3. /\ cache = fe /\ rc.fe.uid = 0 /\ fe.status.phase = "Ready"
      /\ Justified(fe.status) /\ PubHonest(fe.status.pub) /\ CopyOf(fe, fe)
      /\ Digest \in Digests
  BY <1>1, <1>2
     DEF RestInv, CacheCurrent, Undisturbed, OnTheWay, InStep, ReadyAtRest, HonestPublishes,
         LifeInv, Alive, ArtifactInv
<1>4. /\ fe.status.art = Digest /\ Digest # None /\ ArtifactKey(fe.status) = CurrentKey
      /\ PublishAnswers(fe.status.pub, fe.status.art) /\ UnpublishAnswers(fe.status.unpub)
  BY <1>3, NoneAssumption DEF Justified, Digest, Observes, ArtifactKey, CurrentKey
<1>5. ASSUME id \in PublishIds, fe.pub.id = id
      PROVE  PubCloses(fe, fe.status.pub)
  <2>1. id # None /\ fe.pub.src # None /\ fe.target
    BY <1>3, <1>5, IdsAssumption, NoneAssumption DEF CopyOf, TypeInv, Keyed, Alive
  <2>2. CASE ~RequestStale(fe, Digest)
    <3>1. fe.status.pub.id = fe.pub.id /\ fe.status.pub.phase = rjobs[id].phase
      BY <1>2, <1>4, <1>5, <2>1, <2>2 DEF PublishAnswers, RequestInvalid
    <3> QED BY <1>1, <1>3, <3>1 DEF PubCloses, PubHonest, Terminal
  <2> QED BY <2>2 DEF PubCloses
<1>6. ASSUME id \in UnpublishIds, fe.unpub = id
      PROVE  UnpubCloses(fe, fe.status.unpub)
  <2>1. id # None /\ fe.target
    BY <1>3, <1>6, IdsAssumption DEF CopyOf
  <2> QED BY <1>1, <1>2, <1>4, <1>6, <2>1 DEF UnpublishAnswers, UnpubCloses
<1>7. ASSUME id \in PublishIds
      PROVE  ClosedPublish(id)
  BY <1>1, <1>2, <1>3, <1>4, <1>5, <1>7 DEF ClosedPublish, Alive
<1>8. ASSUME id \in UnpublishIds
      PROVE  ClosedUnpublish(id)
  BY <1>1, <1>2, <1>3, <1>6, <1>8 DEF ClosedUnpublish, Alive
<1>9. ClosedPublish(id)' = ClosedPublish(id) /\ ClosedUnpublish(id)' = ClosedUnpublish(id)
  BY <1>1 DEF ClosedPublish, ClosedUnpublish, Built, Digest, CurrentKey, PubCloses
<1> QED BY <1>7, <1>8, <1>9 DEF Closed

LEMMA FinishedStep ==
    ASSUME Steady, TypeInv, OrderInv, LifeInv, ArtifactInv, HonestPublishes, IdsUsed,
           RestInv, ReadyAtRest, FinishedInv, [Next]_vars
    PROVE  FinishedInv'
<1> SUFFICES ASSUME Alive, Alive', NEW id \in RequestIds, Done(id)', rjobs'[id].uid = 0
             PROVE  Closed(id)'
  BY FeSteps DEF FinishedInv, Alive, FeMoves, SameSpec
<1>1. CASE rjobs[id].uid # 0
  BY <1>1, DoneSteps, ExpiredIsClosed
<1>2. CASE rjobs[id].uid = 0
  <2>1. Done(id)
    BY <1>2, DoneSteps DEF LifeInv
  <2>2. Closed(id) /\ id \notin Asked
    BY <1>2, <2>1 DEF FinishedInv, IdsUsed, Known
  <2>3. /\ id \in PublishIds => ClosedPublish(id)'
        /\ id \in UnpublishIds => ClosedUnpublish(id)'
    BY <2>2, ClosedPublishStep, ClosedUnpublishStep DEF Closed
  <2> QED BY <2>3 DEF Closed
<1> QED BY <1>1, <1>2

-----------------------------------------------------------------------------
(* No request is carried out twice.                                        *)

RequestsInv ==
    /\ LifeInv /\ ArtifactInv /\ HonestPublishes /\ IdsUsed /\ ReadyAtRest /\ FinishedInv

LEMMA RequestsInit ==
    ASSUME Init
    PROVE  RequestsInv
<1>1. LifeInv /\ ArtifactInv /\ IdsUsed
  BY LifeInit, ArtifactInit, IdsUsedInit
<1>2. PICK source \in Sources, token \in Tokens, target \in Targets :
        fe = NewFE(1, source, token, target)
  BY DEF Init
<1>3. fe.unseen /\ fe.status = NoStatus
  BY <1>2 DEF NewFE
<1>4. cache.uid = 0 /\ rc.fe.uid = 0 /\ rc.pub = NoPublish /\ rc.status = NoStatus
  BY AbsentTypes DEF Init, AbsentFE, NewFE, NoReconcile
<1>5. registry.done = {}
  BY DEF Init, NothingInstalled
<1>6. PubHonest(NoPublish) /\ NoStatus.pub = NoPublish
  BY DEF PubHonest, NoPublish, NoStatus
<1>7. HonestPublishes
  BY <1>3, <1>4, <1>6 DEF HonestPublishes
<1>8. ReadyAtRest
  BY <1>3 DEF ReadyAtRest, Undisturbed
<1>9. FinishedInv
  BY <1>5 DEF FinishedInv, Done
<1> QED BY <1>1, <1>7, <1>8, <1>9 DEF RequestsInv

LEMMA RequestsStep ==
    ASSUME Steady, TypeInv, OrderInv, RestInv, RequestsInv, [Next]_vars
    PROVE  RequestsInv'
BY LifeStep, ArtifactStep, HonestPublishesStep, IdsUsedStep, ReadyAtRestStep, FinishedStep
   DEF RequestsInv

LEMMA RequestsInvariant ==
    ASSUME Steady
    PROVE  Spec => [](TypeInv /\ OrderInv /\ RestInv /\ RequestsInv)
<1>1. TypeInv /\ OrderInv /\ RestInv /\ RequestsInv /\ [Next]_vars => RequestsInv'
  BY RequestsStep
<1>2. Init => RequestsInv
  BY RequestsInit
<1> QED BY <1>1, <1>2, TypeInvariance, OrderInvariance, RestInvariant, PTL DEF Spec

\* A request whose Job succeeded gets no second Job, although the first one
\* expires: every status the controller may read or is about to write has the
\* answer by then, and keeps it.
THEOREM FinishedOnce ==
    ASSUME Steady
    PROVE  Spec => FinishedRequestNotRepeated
<1>1. TypeInv /\ OrderInv /\ RestInv /\ RequestsInv /\ [Next]_vars =>
        [\A id \in RequestIds :
            fe.uid # 0 /\ rjobs[id].uid = 0 /\ rjobs'[id].uid = fe.uid =>
                <<id, rjobs'[id].key>> \notin registry.done]_vars
  <2> SUFFICES ASSUME TypeInv, OrderInv, RestInv, RequestsInv, [Next]_vars,
                      NEW id \in RequestIds, fe.uid # 0,
                      rjobs[id].uid = 0, rjobs'[id].uid = fe.uid,
                      <<id, rjobs'[id].key>> \in registry.done
               PROVE  FALSE
    OBVIOUS
  <2> USE Parts
  <2>1. Alive /\ LifeInv /\ FinishedInv
    BY DEF Alive, RequestsInv
  <2>2. JobMade(id)
    BY <2>1, DoneSteps
  <2>3. rjobs'[id].key \in Maybe(Keys)
    BY <2>2 DEF JobMade, SetJob, RequestJob
  <2>4. Closed(id)
    BY <2>1, <2>3 DEF FinishedInv, Done
  <2>5. CASE rc.pc = "createPublish" /\ id = rc.fe.pub.id
    <3>1. id \in PublishIds
      BY <2>5 DEF TypeInv, Prepared
    <3> QED BY <2>4, <2>5, <3>1 DEF Closed, ClosedPublish
  <2>6. CASE rc.pc = "createUnpublish" /\ id = rc.fe.unpub
    <3>1. id \in UnpublishIds
      BY <2>6 DEF TypeInv, Prepared
    <3> QED BY <2>4, <2>6, <3>1 DEF Closed, ClosedUnpublish
  <2> QED BY <2>2, <2>5, <2>6 DEF JobMade
<1> QED BY <1>1, RequestsInvariant, PTL DEF Spec, FinishedRequestNotRepeated

-----------------------------------------------------------------------------
(* What a status says of an unpublish request is what became of its Job.   *)

\* What a step does to the Job of a request, and to what is known of it.
LEMMA JobChanges ==
    ASSUME Steady, TypeInv, LifeInv, Alive, [Next]_vars, NEW id \in RequestIds
    PROVE  \/ rjobs'[id] = rjobs[id] /\ Done(id)' = Done(id)
           \/ (JobMade(id) \/ JobWorks(id) \/ JobExpires(id)) /\ Done(id)' = Done(id)
           \/ JobEnds(id) /\ rjobs'[id].phase \in Terminal /\ rjobs'[id].uid # 0
                /\ Done(id)' = (Done(id) \/ rjobs'[id].phase = "Succeeded")
<1> USE Parts
<1>1. registry \in Registry
  BY DEF TypeInv, TypeOK
<1>2. CASE UNCHANGED <<rjobs, registry, clock>>
  BY <1>2 DEF Done
<1>3. CASE \E other \in RequestIds :
              JobMade(other) \/ JobWorks(other) \/ JobEnds(other) \/ JobExpires(other)
  <2>1. PICK other \in RequestIds :
              JobMade(other) \/ JobWorks(other) \/ JobEnds(other) \/ JobExpires(other)
    BY <1>3
  <2>2. other # id => rjobs'[id] = rjobs[id]
    BY <2>1 DEF JobMade, JobWorks, JobEnds, JobExpires, SetJob
  <2>3. ~JobEnds(other) => registry'.done = registry.done
    BY <2>1 DEF JobMade, JobWorks, JobExpires
  <2>4. CASE ~JobEnds(other)
    BY <2>1, <2>2, <2>3, <2>4 DEF Done
  <2>5. CASE JobEnds(other)
    <3>1. /\ rjobs'[other].phase \in Terminal
          /\ rjobs'[other].uid = rjobs[other].uid /\ rjobs[other].phase = "Running"
      BY <2>5 DEF JobEnds, SetJob, Terminal
    <3>2. \/ rjobs'[other].phase = "Failed" /\ registry'.done = registry.done
          \/ /\ rjobs'[other].phase = "Succeeded"
             /\ registry'.done = registry.done \cup {<<other, rjobs[other].key>>}
      BY <1>1, <2>5 DEF JobEnds, SetJob, Registry
    <3>3. rjobs[other].key \in Maybe(Keys)
      BY DEF RequestJob
    <3>4. other # id => Done(id)' = Done(id)
      BY <3>2 DEF Done
    <3>5. other = id => Done(id)' = (Done(id) \/ rjobs'[id].phase = "Succeeded")
      BY <3>2, <3>3 DEF Done
    <3>6. other = id => rjobs'[id].uid # 0
      BY <3>1 DEF LifeInv
    <3> QED BY <2>2, <2>5, <3>1, <3>4, <3>5, <3>6
  <2> QED BY <2>4, <2>5
<1> QED BY <1>2, <1>3, RequestJobSteps, LifeOwns

\* The request has failed, and there will be no Job for it.
Lost(u) ==
    /\ u \in api.used \ Asked /\ ~Done(u)
    /\ \/ rjobs[u].phase = "Failed"
       \/ rjobs[u].uid = 0 /\ Closed(u)

\* A Job that there is has succeeded if its request was carried out.
JobOutcome ==
    Alive => \A id \in RequestIds :
        rjobs[id].uid # 0 => (Done(id) <=> rjobs[id].phase = "Succeeded")

Outcome(unpublish) ==
    /\ unpublish.id # None => Built
    /\ unpublish.phase \in Terminal => unpublish.id # None
    /\ \A u \in UnpublishIds : unpublish.id = u =>
          /\ unpublish.phase = "Succeeded" => Done(u)
          /\ unpublish.phase = "Failed" => Lost(u)

OutcomeInv ==
    Alive =>
    /\ Outcome(rc.status.unpub)
    /\ \A x \in {fe, cache, rc.fe} : x.uid # 0 => Outcome(x.status.unpub)

LEMMA JobOutcomeStep ==
    ASSUME Steady, TypeInv, RequestsInv, JobOutcome, [Next]_vars
    PROVE  JobOutcome'
<1> USE Parts
<1>0. LifeInv /\ FinishedInv
  BY DEF RequestsInv
<1> SUFFICES ASSUME Alive, Alive', NEW id \in RequestIds, rjobs'[id].uid # 0
             PROVE  Done(id)' <=> rjobs'[id].phase = "Succeeded"
  BY <1>0, FeSteps DEF JobOutcome, Alive, FeMoves, SameSpec
<1>1. rjobs[id].uid # 0 => (Done(id) <=> rjobs[id].phase = "Succeeded")
  BY DEF JobOutcome
<1>2. CASE rjobs'[id] = rjobs[id] /\ Done(id)' = Done(id)
  BY <1>1, <1>2
<1>3. CASE JobMade(id) /\ Done(id)' = Done(id)
  <2>1. rjobs'[id].phase = "Running" /\ rjobs[id].uid = 0
    BY <1>3 DEF JobMade, SetJob
  <2>2. ~Closed(id)
    BY <1>3 DEF JobMade, Closed, ClosedPublish, ClosedUnpublish, TypeInv, Prepared
  <2> QED BY <1>0, <1>3, <2>1, <2>2 DEF FinishedInv
<1>4. CASE JobWorks(id) /\ Done(id)' = Done(id)
  <2>1. rjobs'[id].phase = "Running" /\ rjobs[id].phase = "Running" /\ rjobs[id].uid # 0
    BY <1>4 DEF JobWorks, SetJob
  <2> QED BY <1>1, <1>4, <2>1
<1>5. CASE JobExpires(id)
  BY <1>5 DEF JobExpires, NoRJob
<1>6. CASE JobEnds(id) /\ Done(id)' = (Done(id) \/ rjobs'[id].phase = "Succeeded")
  <2>1. rjobs[id].phase = "Running" /\ rjobs[id].uid # 0
    BY <1>0, <1>6 DEF JobEnds, LifeInv
  <2> QED BY <1>1, <1>6, <2>1
<1> QED BY <1>0, <1>2, <1>3, <1>4, <1>5, <1>6, JobChanges

LEMMA LostStays ==
    ASSUME Steady, TypeInv, OrderInv, RestInv, RequestsInv, Alive, Alive', [Next]_vars,
           NEW u \in RequestIds, Lost(u)
    PROVE  Lost(u)'
<1> USE Parts
<1>0. LifeInv /\ ArtifactInv /\ HonestPublishes /\ IdsUsed /\ ReadyAtRest
  BY DEF RequestsInv
<1>1. u \in api.used /\ u \notin Asked /\ ~Done(u)
  BY DEF Lost
<1>2. u \in api'.used /\ u \notin Asked'
  <2>1. CASE UNCHANGED api
    BY <1>1, <2>1 DEF Asked
  <2>2. CASE \E id \in RequestIds : Accepted(id)
    <3>1. PICK id \in RequestIds : Accepted(id)
      BY <2>2
    <3>2. Asked' = {id}
      BY <3>1, IdsAssumption DEF Accepted, Asked, RequestIds
    <3> QED BY <1>1, <3>1, <3>2 DEF Accepted
  <2>3. CASE Unasked
    BY <1>1, <2>3 DEF Unasked, Asked, RequestOps
  <2> QED BY <2>1, <2>2, <2>3, ApiSteps, SteadyIs
<1>3. rjobs'[u].uid = 0 /\ Closed(u) => Closed(u)'
  <2>1. rjobs'[u].uid = 0 /\ Closed(u) /\ u \in PublishIds => ClosedPublish(u)'
    BY <1>0, <1>1, ClosedPublishStep DEF Closed
  <2>2. rjobs'[u].uid = 0 /\ Closed(u) /\ u \in UnpublishIds => ClosedUnpublish(u)'
    BY <1>0, <1>1, ClosedUnpublishStep DEF Closed
  <2> QED BY <2>1, <2>2 DEF Closed
<1>4. rjobs[u].phase = "Failed" \/ (rjobs[u].uid = 0 /\ rjobs[u].phase = "Absent" /\ Closed(u))
  BY <1>0 DEF Lost, LifeInv
<1>5. CASE rjobs'[u] = rjobs[u] /\ Done(u)' = Done(u)
  BY <1>1, <1>2, <1>3, <1>4, <1>5 DEF Lost
<1>6. ~JobMade(u)
  <2>1. JobMade(u) => rjobs[u].uid = 0 /\ ~Closed(u)
    BY DEF JobMade, Closed, ClosedPublish, ClosedUnpublish, TypeInv, Prepared
  <2>2. rjobs[u].uid = 0 => rjobs[u].phase = "Absent"
    BY <1>0 DEF LifeInv
  <2> QED BY <1>4, <2>1, <2>2
<1>7. ~JobWorks(u) /\ ~JobEnds(u)
  BY <1>4 DEF JobWorks, JobEnds
<1>8. CASE JobExpires(u) /\ Done(u)' = Done(u)
  <2>1. Closed(u)' /\ rjobs'[u].uid = 0
    BY <1>0, <1>8, ExpiredIsClosed DEF JobExpires, NoRJob
  <2> QED BY <1>1, <1>2, <1>8, <2>1 DEF Lost
<1> QED BY <1>0, <1>5, <1>6, <1>7, <1>8, JobChanges

\* A move of the reconcile takes the outcome it has, or that of a Job.
LEMMA OutcomeMoves ==
    ASSUME TypeInv, LifeInv, Alive, ReconcileMoves
    PROVE  \/ rc'.status.unpub \in {rc.status.unpub, NoUnpublish}
           \/ \E x \in {cache, rc.fe} : x.uid # 0 /\ rc'.status.unpub = x.status.unpub
           \/ \E u \in UnpublishIds :
                rjobs'[u].uid # 0 /\ rc'.status.unpub = UnpublishFromJob(u, rjobs'[u])
<1> USE Parts
<1>1. CASE Begins \/ Collects \/ Ends
  BY <1>1 DEF Begins, Collects, Ends, NoReconcile, NoStatus
<1>2. CASE LooksOn \/ NeedsPublish \/ NeedsUnpublish \/ Writes \/ AsksPublish
  BY <1>2 DEF LooksOn, NeedsPublish, NeedsUnpublish, Writes, Kept, AsksPublish
<1>3. ASSUME NEW x \in {cache, rc.fe}, GivesUp(x)
      PROVE  x.uid # 0 /\ rc'.status.unpub = x.status.unpub
  <2>1. x.uid # 0 /\ rc'.status \in {PackagingStatus(x), FailedStatus(x)}
    BY <1>3 DEF GivesUp, Decides
  <2> QED BY <2>1 DEF PackagingStatus, FailedStatus, StatusFor
<1>4. ASSUME NEW publish, NEW unpublish, NEW digest,
             Decides(ReadyStatus(rc.fe, digest, publish, unpublish))
      PROVE  rc'.status.unpub = unpublish
  BY <1>4 DEF Decides, ReadyStatus, StatusFor
<1>5. rc.pc \in WorkSteps => rc.fe.uid # 0
  BY KeyIs
<1>6. ASSUME NEW publish, NEW digest, AnswersPublish(publish, digest)
      PROVE  \/ rc'.status = rc.status
             \/ rc.fe.uid # 0 /\ rc'.status.unpub = rc.fe.status.unpub
  BY <1>4, <1>5, <1>6 DEF AnswersPublish, PublishAnswer, LooksAt, WorkSteps
<1>7. ASSUME NEW unpublish, AnswersUnpublish(unpublish)
      PROVE  \/ rc.fe.uid # 0 /\ rc'.status.unpub = rc.fe.status.unpub
             \/ \E u \in UnpublishIds :
                  rjobs'[u].uid # 0 /\ rc'.status.unpub = UnpublishFromJob(u, rjobs'[u])
  <2>1. rc'.status.unpub = unpublish /\ rc.pc \in {"unpublish", "createUnpublish"}
    BY <1>4, <1>7 DEF AnswersUnpublish, UnpublishAnswer
  <2>2. rc.fe.uid # 0 /\ rc.fe.unpub \in UnpublishIds
    BY <1>5, <2>1 DEF TypeInv, Prepared, WorkSteps
  <2> QED BY <1>7, <2>1, <2>2 DEF AnswersUnpublish, UnpublishAnswer
<1> QED BY <1>1, <1>2, <1>3, <1>6, <1>7 DEF ReconcileMoves

LEMMA OutcomeStep ==
    ASSUME Steady, TypeInv, OrderInv, RestInv, RequestsInv, RequestsInv', TypeInv',
           JobOutcome', OutcomeInv, [Next]_vars
    PROVE  OutcomeInv'
<1> USE Parts
<1>0. LifeInv /\ ArtifactInv
  BY DEF RequestsInv
<1> SUFFICES ASSUME Alive, Alive'
             PROVE  OutcomeInv'
  BY <1>0, FeSteps DEF OutcomeInv, Alive, FeMoves, SameSpec
<1> DEFINE After(v) ==
             /\ v.id # None => Built'
             /\ v.phase \in Terminal => v.id # None
             /\ \A u \in UnpublishIds : v.id = u =>
                   (v.phase = "Succeeded" => Done(u)') /\ (v.phase = "Failed" => Lost(u)')
<1>1. /\ Outcome(rc.status.unpub)
      /\ \A x \in {fe, cache, rc.fe} : x.uid # 0 => Outcome(x.status.unpub)
  BY DEF OutcomeInv
<1>2. Built => Built'
  BY <1>0, ArtifactKept
<1>3. \A u \in UnpublishIds : (Done(u) => Done(u)') /\ (Lost(u) => Lost(u)')
  <2> SUFFICES ASSUME NEW u \in UnpublishIds
               PROVE  (Done(u) => Done(u)') /\ (Lost(u) => Lost(u)')
    OBVIOUS
  <2>1. u \in RequestIds
    BY DEF RequestIds
  <2> QED BY <1>0, <2>1, DoneSteps, LostStays
<1>4. \A v : Outcome(v) => After(v)
  BY <1>2, <1>3 DEF Outcome
<1>5. After(NoUnpublish)
  BY DEF NoUnpublish, Terminal
<1>6. ASSUME NEW u \in UnpublishIds, rjobs'[u].uid # 0
      PROVE  After(UnpublishFromJob(u, rjobs'[u]))
  <2>1. u \in RequestIds /\ u # None
    BY IdsAssumption DEF RequestIds
  <2>2. Built'
    BY <1>6, <2>1 DEF RequestsInv, ArtifactInv
  <2>3. Done(u)' <=> rjobs'[u].phase = "Succeeded"
    BY <1>6, <2>1 DEF JobOutcome
  <2>4. u \in api'.used /\ u \notin Asked'
    BY <1>6, <2>1 DEF RequestsInv, IdsUsed, Known
  <2>5. rjobs'[u].phase = "Failed" => Lost(u)'
    BY <2>3, <2>4 DEF Lost
  <2>6. UnpublishFromJob(u, rjobs'[u]).id = u
        /\ UnpublishFromJob(u, rjobs'[u]).phase = rjobs'[u].phase
    BY DEF UnpublishFromJob
  <2> QED BY <2>1, <2>2, <2>3, <2>5, <2>6
<1>7. /\ FeMoves
      /\ rc' = rc \/ ReconcileMoves
      /\ rc'.fe \in {rc.fe, cache, AbsentFE}
      /\ cache' = cache \/ SaysAs(cache', fe)
  BY <1>0, CopiesMove
<1>8. After(fe'.status.unpub)
  <2>1. CASE fe'.status = fe.status
    BY <1>1, <1>4, <2>1 DEF Alive
  <2>2. CASE fe'.status = MergedStatus(fe.status, rc.status)
    <3> DEFINE v == MergedUnpublish(fe.status.unpub, rc.status.unpub)
               new == rc.status.unpub
               old == fe.status.unpub
    <3>1. fe'.status.unpub = v /\ new \in UnpublishStatus
      BY <2>2 DEF MergedStatus, Status
    <3>2. /\ v.phase = new.phase
          /\ v.id = new.id \/ (new.id = None /\ v.id = old.id)
      BY <3>1 DEF MergedUnpublish, UnpublishStatus, Or
    <3>3. /\ new.id # None \/ old.id # None => Built'
          /\ new.phase \in Terminal => new.id # None
          /\ \A u \in UnpublishIds : new.id = u =>
                (new.phase = "Succeeded" => Done(u)') /\ (new.phase = "Failed" => Lost(u)')
      BY <1>1, <1>4 DEF Outcome, Alive
    <3> HIDE DEF v, new, old
    <3> QED BY <3>1, <3>2, <3>3 DEF Terminal
  <2> QED BY <1>7, <2>1, <2>2 DEF FeMoves
<1> HIDE DEF After
<1>9. After(rc'.status.unpub)
  <2>1. CASE rc' = rc
    BY <1>1, <1>4, <2>1
  <2>2. CASE ReconcileMoves
    BY <1>0, <1>1, <1>4, <1>5, <1>6, <2>2, OutcomeMoves
  <2> QED BY <1>7, <2>1, <2>2
<1>10. \A x \in {fe', cache', rc'.fe} : x.uid # 0 => After(x.status.unpub)
  BY <1>1, <1>4, <1>7, <1>8 DEF SaysAs, SameSpec, Alive
<1> QED BY <1>9, <1>10 DEF OutcomeInv, Outcome, After

-----------------------------------------------------------------------------
(* At rest an FE that can be deleted has been.                             *)

\* The unpublish status u is final, or there is a Job that will end.
UnpubKnown(u) ==
    fe.unpub # None => rjobs[fe.unpub].uid # 0 \/ u.phase \in Terminal

\* The status says that the FE is to be deleted now.
DeletionDue ==
    /\ fe.delAfter # None
    /\ fe.status.unpub.phase = "Succeeded" /\ fe.status.unpub.id = fe.delAfter

DeletedAtRest ==
    Undisturbed /\ Built =>
    /\ rc.pc \in {"get", "patch"} => UnpubKnown(rc.status.unpub)
    /\ rc.pc \in {"reget", "labels", "after", "gc", "idle"} => UnpubKnown(fe.status.unpub)
    /\ rc.pc \in {"reget", "labels", "after"} /\ fe.unpub # None =>
          /\ fe.status.unpub.phase = rc.status.unpub.phase
          /\ fe.status.unpub.id = rc.status.unpub.id
    /\ rc.pc \in {"gc", "idle"} => ~DeletionDue

LEMMA DeletedAtRestStep ==
    ASSUME Steady, TypeInv, OrderInv, RestInv, RequestsInv, DeletedAtRest, [Next]_vars
    PROVE  DeletedAtRest'
<1> USE Parts
<1>0. LifeInv /\ ArtifactInv /\ ReadyAtRest
  BY DEF RequestsInv
<1> SUFFICES ASSUME Undisturbed', Built'
             PROVE  DeletedAtRest'
  BY DEF DeletedAtRest
<1>1. CASE UNCHANGED vars
  BY <1>1 DEF DeletedAtRest, Undisturbed, Built, CurrentKey, ArtifactKey, vars,
              UnpubKnown, DeletionDue
<1>2. CASE Undisturbed /\ SameWorld /\ UNCHANGED rc
  <2>1. /\ UNCHANGED <<fe, rc>> /\ Built
        /\ \A id \in RequestIds : rjobs'[id].uid = rjobs[id].uid
    BY <1>2 DEF SameWorld, Built, CurrentKey, ArtifactKey
  <2>2. fe.unpub # None => fe.unpub \in RequestIds
    BY DEF Maybe, RequestIds
  <2>3. /\ UnpubKnown(rc.status.unpub) => UnpubKnown(rc.status.unpub)'
        /\ UnpubKnown(fe.status.unpub) => UnpubKnown(fe.status.unpub)'
    BY <2>1, <2>2 DEF UnpubKnown
  <2>4. DeletionDue' = DeletionDue
    BY <2>1 DEF DeletionDue
  <2> QED BY <1>2, <2>1, <2>3, <2>4 DEF DeletedAtRest
<1>3. CASE Reconcile
  <2>1. /\ UNCHANGED <<fe, cache, rjobs>> /\ (ReconcileStart \/ Undisturbed)
        /\ UNCHANGED cms \/ DeleteOldArtifact
        /\ ~Notify
    BY <1>3, ReconcileRests
  <2>2. Alive /\ Alive'
    BY <2>1 DEF Undisturbed, Alive
  <2>3. Built
    <3>1. CurrentKey \in Keys /\ CurrentKey' = CurrentKey
      BY <1>0, <2>1, <2>2, KeyIs DEF CurrentKey, ArtifactKey
    <3>2. DeleteOldArtifact => cms'[CurrentKey] = cms[CurrentKey] \/ cms'[CurrentKey].uid = 0
      BY <3>1 DEF DeleteOldArtifact, NoConfigMap
    <3> QED BY <2>1, <3>1, <3>2 DEF Built
  <2>4. ReconcileMoves
    BY <1>0, <1>3, <2>2, Moves, WorkIsValid
  <2>5. rc.pc # "idle" =>
           /\ OnTheWay(rc)
           /\ rc.pc \in {"get", "patch", "reget", "labels"} => rc.status.phase = "Ready"
           /\ rc.pc \in {"get", "patch"} => UnpubKnown(rc.status.unpub)
           /\ rc.pc \in {"reget", "labels", "after", "gc", "idle"} => UnpubKnown(fe.status.unpub)
           /\ rc.pc \in {"reget", "labels", "after"} /\ fe.unpub # None =>
                 /\ fe.status.unpub.phase = rc.status.unpub.phase
                 /\ fe.status.unpub.id = rc.status.unpub.id
           /\ rc.pc \in {"gc", "idle"} => ~DeletionDue
    BY <1>0, <2>1, <2>3 DEF ReconcileStart, RestInv, ReadyAtRest, DeletedAtRest
  <2> DEFINE Right ==
         /\ rc'.pc \in {"get", "patch"} => UnpubKnown(rc'.status.unpub)
         /\ rc'.pc \in {"reget", "labels", "after", "gc", "idle"} => UnpubKnown(fe.status.unpub)
         /\ rc'.pc \in {"reget", "labels", "after"} /\ fe.unpub # None =>
               /\ fe.status.unpub.phase = rc'.status.unpub.phase
               /\ fe.status.unpub.id = rc'.status.unpub.id
         /\ rc'.pc \in {"gc", "idle"} => ~DeletionDue
  <2>6. SUFFICES Right
    <3>1. DeletionDue' = DeletionDue
      BY <2>1 DEF DeletionDue
    <3>2. /\ UnpubKnown(rc'.status.unpub) = UnpubKnown(rc.status.unpub)'
          /\ UnpubKnown(fe.status.unpub) = UnpubKnown(fe.status.unpub)'
      BY <2>1 DEF UnpubKnown
    <3> QED BY <2>1, <3>1, <3>2 DEF DeletedAtRest
  <2>7. CASE Begins \/ LooksOn \/ AsksPublish \/ NeedsPublish
    BY <2>7 DEF Begins, LooksOn, AsksPublish, NeedsPublish
  <2>8. ~(\E x \in {cache, rc.fe} : GivesUp(x))
    BY <1>0, <2>2, <2>3, <2>4, ArtifactLooked
  <2>9. ASSUME NEW publish, NEW unpublish, NEW digest,
               UnpubKnown(unpublish), Decides(ReadyStatus(rc.fe, digest, publish, unpublish))
        PROVE  Right
    <3>1. rc'.pc = "get" /\ rc'.status.unpub = unpublish
      BY <2>9 DEF Decides, ReadyStatus, StatusFor
    <3> QED BY <2>9, <3>1
  <2>10. ASSUME NEW publish, NEW digest, AnswersPublish(publish, digest)
         PROVE  Right
    <3>1. rc.pc \in {"artifact", "artifactAgain", "publish", "createPublish"}
      BY <2>10 DEF AnswersPublish, PublishAnswer, LooksAt
    <3>2. rc.fe = fe
      BY <2>5, <3>1 DEF OnTheWay, Listed, Found
    <3>3. fe.unpub = None => UnpubKnown(fe.status.unpub)
      BY DEF UnpubKnown
    <3> QED BY <2>9, <2>10, <3>2, <3>3 DEF AnswersPublish
  <2>11. ASSUME NEW unpublish, AnswersUnpublish(unpublish)
         PROVE  Right
    <3>1. rc.pc \in {"unpublish", "createUnpublish"} /\ UnpublishAnswer(unpublish)
      BY <2>11 DEF AnswersUnpublish, UnpublishAnswer
    <3>2. rc.fe = fe
      BY <2>5, <3>1 DEF OnTheWay, Found
    <3>3. UnpubKnown(unpublish)
      BY <2>1, <3>1, <3>2 DEF UnpublishAnswer, UnpubKnown, UnpublishAlreadyFinished
    <3> QED BY <2>9, <2>11, <3>3 DEF AnswersUnpublish
  <2>12. CASE NeedsUnpublish
    BY <2>5, <2>12 DEF NeedsUnpublish, Kept
  <2>13. CASE Writes
    <3>1. rc'.status = rc.status /\ rc.pc # "idle"
      BY <2>13 DEF Writes, Kept
    <3>2. CASE rc'.pc = "patch"
      BY <2>5, <2>13, <3>1, <3>2 DEF Writes
    <3>3. CASE rc'.pc # "patch" /\ rc.pc = "get"
      <4>1. Observes(rc.status, fe)
        BY <2>5, <3>1, <3>3 DEF OnTheWay, Decided, Justified
      <4>2. fe.status = rc.status
        BY <2>13, <3>3, <4>1 DEF Writes
      <4> QED BY <2>5, <2>13, <3>1, <3>3, <4>2 DEF Writes
    <3>4. CASE rc.pc = "patch"
      <4> DEFINE merged == MergedStatus(fe.status, rc.status)
                 new == [fe EXCEPT !.status = merged]
      <4>1. fe' = Stored(new) /\ rc'.pc = "reget"
        BY <2>2, <2>13, <3>4 DEF Writes, PatchStatus, Alive
      <4>2. merged \in Status
        BY StatusTypes, AbsentTypes DEF Maybe
      <4> HIDE DEF merged
      <4>3. new \in FE /\ new.status = merged
        BY <4>2 DEF FE
      <4> HIDE DEF new
      <4>4. fe = new
        BY <2>1, <4>1, <4>3, StoredSeenLater DEF Undisturbed
      <4>5. fe.status = MergedStatus(fe.status, rc.status)
        BY <4>3, <4>4 DEF merged
      <4>6. fe.status.unpub.phase = rc.status.unpub.phase
        BY <4>5, MergedSays
      <4>7. fe.unpub # None => rc.status.unpub.id = fe.unpub
        BY <2>5, <3>1, <3>4 DEF OnTheWay, Decided, Justified, UnpublishAnswers
      <4>8. fe.unpub # None => fe.status.unpub.id = rc.status.unpub.id
        <5>1. /\ fe.status.unpub = MergedUnpublish(fe.status.unpub, rc.status.unpub)
              /\ rc.status.unpub \in UnpublishStatus
          BY <4>5 DEF MergedStatus, Status
        <5> QED BY <4>7, <5>1 DEF MergedUnpublish, UnpublishStatus, Or
      <4>9. UnpubKnown(fe.status.unpub)
        BY <2>5, <3>1, <3>4, <4>6 DEF UnpubKnown
      <4> QED BY <3>1, <4>1, <4>6, <4>8, <4>9
    <3>5. CASE rc'.pc # "patch" /\ rc.pc \in {"reget", "labels"}
      BY <2>5, <2>13, <3>1, <3>5 DEF Writes
    <3> QED BY <2>13, <3>2, <3>3, <3>4, <3>5 DEF Writes
  <2>14. rc.pc = "after" /\ ~ShouldDeleteAfterUnpublish => ~DeletionDue
    <3>1. rc.pc = "after" => rc.fe = fe
      BY <2>5 DEF OnTheWay
    <3>2. fe.delAfter # None => fe.unpub # None
      BY <1>0, <2>2 DEF LifeInv, CopyOf, Alive
    <3> QED BY <2>5, <3>1, <3>2 DEF ShouldDeleteAfterUnpublish, DeletionDue
  <2>15. CASE Collects
    BY <2>5, <2>14, <2>15 DEF Collects
  <2>16. CASE Ends
    <3>1. rc'.pc = "idle" /\ queue' # "event" /\ fe'.uid # 0
      BY <2>16 DEF Ends, NoReconcile, Undisturbed
    <3>2. rc.pc = "gc" \/ (rc.pc = "after" /\ ~ShouldDeleteAfterUnpublish)
      BY <1>0, <2>5, <2>16, <3>1 DEF Ends, LifeInv
    <3> QED BY <2>5, <2>14, <3>1, <3>2
  <2> QED BY <2>4, <2>7, <2>8, <2>10, <2>11, <2>12, <2>13, <2>15, <2>16 DEF ReconcileMoves
<1> QED BY <1>1, <1>2, <1>3, OthersRest

-----------------------------------------------------------------------------
(* An FE that is to be deleted after an unpublish is not published again.  *)

\* A request is accepted only when no other is at work: a publish that is
\* accepted beside an unpublish with deletion may install its artifact just
\* before the FE is deleted.
Careful == Steady /\ "overlap" \notin Disturbances

\* No publish request is open, and none is on its way.
PublishesOver ==
    /\ api.op # "publish"
    /\ \A p \in PublishIds : rjobs[p].phase # "Running"
    /\ rc.pc # "createPublish"
    /\ \A x \in {fe, cache, rc.fe}, p \in PublishIds : x.uid # 0 /\ x.pub.id = p =>
          rjobs[p].uid # 0 \/ Closed(p)

\* The FE waits for the unpublish u to be deleted; when u is carried out
\* nothing is installed.
Leaving(u) ==
    /\ fe.unpub = u /\ fe.delAfter = u /\ Asked = {} /\ PublishesOver
    /\ Done(u) \/ rjobs[u].done => registry.digest = None

LeaveInv ==
    Alive =>
    /\ api.op = "unpublishAndDelete" => PublishesOver
    /\ \A x \in {fe, cache, rc.fe}, u \in UnpublishIds : x.uid # 0 /\ x.delAfter = u =>
          Lost(u) \/ Leaving(u)

\* With nothing at work what is to be deleted after u is there because u failed.
LEMMA CalmLost ==
    ASSUME TypeInv, RestInv, RequestsInv, OutcomeInv, DeletedAtRest, LeaveInv, Alive, Calm,
           NEW u \in UnpublishIds, Leaving(u)
    PROVE  Lost(u)
<1> USE Parts
<1>0. /\ LifeInv /\ ReadyAtRest /\ u \in RequestIds /\ u # None
      /\ fe.unpub = u /\ fe.delAfter = u
  BY IdsAssumption DEF RequestsInv, RequestIds, Leaving
<1>1. /\ rc.pc = "idle" /\ Undisturbed /\ fe.target
      /\ \A id \in RequestIds : rjobs[id].phase # "Running"
  BY <1>0 DEF Calm, CaughtUp, Undisturbed, LifeInv, Alive, CopyOf
<1>2. InStep /\ Outcome(fe.status.unpub)
  BY <1>1 DEF RestInv, OnTheWay, OutcomeInv, Alive
<1>3. fe.status.phase = "Ready" /\ Built
  <2>1. CASE fe.status.phase = "Ready"
    BY <1>2, <2>1 DEF InStep, Justified, MatchingArtifact, Built
  <2>2. CASE fe.unpub = fe.status.unpub.id
    <3>1. Built
      BY <1>0, <1>2, <2>2 DEF Outcome
    <3> QED BY <1>0, <1>1, <3>1 DEF ReadyAtRest
  <2> QED BY <1>0, <2>1, <2>2 DEF Calm
<1>4. /\ fe.status.unpub.id = u
      /\ rjobs[u].uid # 0 => fe.status.unpub.phase = rjobs[u].phase
  BY <1>0, <1>1, <1>2, <1>3 DEF InStep, Justified, UnpublishAnswers
<1>5. rjobs[u].uid # 0 \/ fe.status.unpub.phase \in Terminal
  BY <1>0, <1>1, <1>3 DEF DeletedAtRest, UnpubKnown
<1>6. rjobs[u].uid # 0 => rjobs[u].phase \in Terminal
  BY <1>0, <1>1 DEF LifeInv, Terminal, Alive, RequestJob, JobPhases
<1>7. fe.status.unpub.phase = "Failed"
  BY <1>0, <1>1, <1>3, <1>4, <1>5, <1>6 DEF DeletedAtRest, DeletionDue, Terminal
<1> QED BY <1>2, <1>4, <1>7 DEF Outcome

\* With nothing at work the publish request of a published FE is closed.
LEMMA CalmOver ==
    ASSUME TypeInv, RestInv, RequestsInv, Alive, Calm, CurrentlyPublished,
           NEW p \in PublishIds, fe.pub.id = p
    PROVE  /\ rc.pc = "idle" /\ rc.fe.uid = 0 /\ cache = fe
           /\ rjobs[p].uid # 0 \/ Closed(p)
<1> USE Parts
<1>0. /\ LifeInv /\ ReadyAtRest /\ HonestPublishes /\ ArtifactInv
      /\ p \in RequestIds /\ p # None /\ p \notin UnpublishIds
  BY IdsAssumption DEF RequestsInv, RequestIds
<1>1. rc.pc = "idle" /\ Undisturbed /\ rc.fe.uid = 0 /\ cache = fe
  BY <1>0 DEF Calm, CaughtUp, Undisturbed, LifeInv, Alive, RestInv, CacheCurrent
<1>2. InStep /\ PubHonest(fe.status.pub)
  BY <1>0, <1>1 DEF RestInv, OnTheWay, HonestPublishes, Alive
<1>3. Built /\ fe.status.pub.digest = Digest
  BY <1>2 DEF CurrentlyPublished, PubHonest
<1>4. fe.status.phase = "Ready" /\ Digest \in Digests
  BY <1>0, <1>1, <1>3 DEF ReadyAtRest, ArtifactInv
<1>5. /\ fe.status.art = Digest /\ Digest # None /\ ArtifactKey(fe.status) = CurrentKey
      /\ PublishAnswers(fe.status.pub, fe.status.art)
  BY <1>2, <1>4, NoneAssumption
     DEF InStep, Justified, Digest, Observes, ArtifactKey, CurrentKey
<1>6. PubCloses(fe, fe.status.pub)
  BY <1>0, <1>3, <1>5 DEF PubCloses, PublishAnswers, CurrentlyPublished, Terminal
<1>7. ClosedPublish(p)
  BY <1>1, <1>3, <1>5, <1>6 DEF ClosedPublish, Alive
<1> QED BY <1>0, <1>1, <1>7 DEF Closed

\* Publish requests that are over stay over while none is accepted.
LEMMA OverStays ==
    ASSUME Steady, TypeInv, OrderInv, RestInv, RequestsInv, Alive, Alive', [Next]_vars,
           PublishesOver, api'.op # "publish"
    PROVE  PublishesOver'
<1> USE Parts
<1>0. /\ LifeInv /\ ArtifactInv /\ HonestPublishes /\ IdsUsed /\ ReadyAtRest
      /\ PublishIds \subseteq RequestIds
  BY DEF RequestsInv, RequestIds
<1>1. /\ api.op # "publish" /\ rc.pc # "createPublish"
      /\ \A p \in PublishIds : rjobs[p].phase # "Running"
      /\ \A x \in {fe, cache, rc.fe}, p \in PublishIds : x.uid # 0 /\ x.pub.id = p =>
            rjobs[p].uid # 0 \/ Closed(p)
  BY DEF PublishesOver
<1>2. /\ FeMoves
      /\ rc' = rc \/ ReconcileMoves
      /\ rc'.fe \in {rc.fe, cache, AbsentFE}
      /\ cache' = cache \/ SaysAs(cache', fe)
  BY <1>0, CopiesMove
<1>3. rc'.pc # "createPublish"
  <2>1. CASE NeedsPublish
    <3>1. /\ rc.pc = "publish" /\ rc.fe.pub.id \in PublishIds /\ rc.fe.uid # 0
          /\ rjobs[rc.fe.pub.id].uid = 0 /\ ~PublishAlreadyFinished(rc.fe, rc.digest)
      BY <1>0, <2>1, KeyIs DEF NeedsPublish, TypeInv, Prepared, WorkSteps
    <3>2. Closed(rc.fe.pub.id)
      BY <1>1, <3>1
    <3> QED BY <1>0, <3>1, <3>2, ClosedIsSeen
  <2>2. CASE ReconcileMoves /\ ~NeedsPublish
    BY <2>2 DEF ReconcileMoves, Begins, LooksOn, GivesUp, Decides, AsksPublish, AnswersPublish,
       NeedsUnpublish, AnswersUnpublish, Writes, Collects, Ends, NoReconcile
  <2> QED BY <1>1, <1>2, <2>1, <2>2
<1>4. \A p \in PublishIds : ~JobMade(p)
  BY <1>1, IdsAssumption DEF JobMade, TypeInv, Prepared
<1>5. ASSUME NEW p \in PublishIds
      PROVE  rjobs'[p].phase # "Running"
  BY <1>0, <1>1, <1>4, JobChanges DEF JobWorks, JobEnds, JobExpires, NoRJob, Terminal
<1>6. ASSUME NEW p \in PublishIds, rjobs[p].uid # 0 \/ Closed(p)
      PROVE  rjobs'[p].uid # 0 \/ Closed(p)'
  <2>1. p \notin UnpublishIds /\ p \notin Asked
    BY <1>1, IdsAssumption DEF Asked, TypeInv, CallPrepared
  <2>2. CASE rjobs[p].uid # 0
    BY <1>0, <2>2, DoneSteps, ExpiredIsClosed
  <2>3. CASE Closed(p) /\ rjobs'[p].uid = 0
    <3>1. ClosedPublish(p)'
      BY <1>0, <2>1, <2>3, ClosedPublishStep DEF Closed
    <3> QED BY <2>1, <3>1 DEF Closed
  <2> QED BY <1>6, <2>2, <2>3
<1>7. fe'.pub = fe.pub /\ fe'.uid = fe.uid
  BY <1>1, <1>2 DEF FeMoves, SameSpec, SameRequests, PatchPublishRequest
<1>8. \A x, y : SaysAs(x, y) => x.pub = y.pub /\ x.uid = y.uid
  BY DEF SaysAs, SameSpec, SameRequests
<1>9. \A x \in {fe', cache', rc'.fe} : x.uid # 0 =>
         \E y \in {fe, cache, rc.fe} : y.uid # 0 /\ x.pub = y.pub
  BY <1>2, <1>7, <1>8
<1>10. ASSUME NEW x \in {fe', cache', rc'.fe}, NEW p \in PublishIds, x.uid # 0, x.pub.id = p
       PROVE  rjobs'[p].uid # 0 \/ Closed(p)'
  BY <1>1, <1>6, <1>9, <1>10
<1> QED BY <1>3, <1>5, <1>10 DEF PublishesOver

LEMMA LeavingStays ==
    ASSUME Careful, TypeInv, OrderInv, RestInv, RequestsInv, OutcomeInv, DeletedAtRest,
           LeaveInv, Alive, Alive', [Next]_vars, NEW u \in UnpublishIds, Leaving(u)
    PROVE  Lost(u)' \/ Leaving(u)'
<1> USE Parts
<1>0. /\ LifeInv /\ u \in RequestIds /\ Steady /\ "overlap" \notin Disturbances
      /\ u \notin PublishIds
  BY IdsAssumption DEF RequestsInv, RequestIds, Careful
<1>1. /\ fe.unpub = u /\ fe.delAfter = u /\ Asked = {} /\ PublishesOver
      /\ Done(u) \/ rjobs[u].done => registry.digest = None
  BY DEF Leaving
<1>2. CASE \E id \in RequestIds : Accepted(id)
  <2>1. Calm
    BY <1>0, <1>2 DEF Accepted
  <2> QED BY <1>0, <2>1, CalmLost, LostStays
<1>3. CASE ~(\E id \in RequestIds : Accepted(id))
  <2>1. Asked' = {} /\ api'.op # "publish"
    <3>1. CASE UNCHANGED api
      BY <1>1, <3>1 DEF Asked, PublishesOver
    <3>2. CASE Unasked
      BY <3>2 DEF Unasked, Asked, RequestOps
    <3> QED BY <1>0, <1>3, <3>1, <3>2, ApiSteps, SteadyIs
  <2>2. PublishesOver'
    BY <1>0, <1>1, <2>1, OverStays
  <2>3. FeMoves
    BY <1>0, CopiesMove
  <2>4. ~PatchPublishRequest /\ ~PatchUnpublishRequest
    BY <1>1 DEF PatchPublishRequest, PatchUnpublishRequest, PublishesOver, Asked, TypeInv,
                CallPrepared, RequestIds
  <2>5. fe'.unpub = u /\ fe'.delAfter = u
    BY <1>1, <2>3, <2>4 DEF FeMoves, SameRequests
  <2>6. Done(u)' \/ rjobs'[u].done => Done(u) \/ rjobs[u].done \/ JobWorks(u)
    <3>1. JobMade(u) \/ JobExpires(u) => ~rjobs'[u].done
      BY <1>0 DEF JobMade, JobExpires, SetJob, NoRJob
    <3>2. JobEnds(u) => /\ rjobs'[u].done = rjobs[u].done
                        /\ rjobs'[u].phase = "Succeeded" => rjobs[u].done
      BY <1>0 DEF JobEnds, SetJob
    <3> QED BY <1>0, <3>1, <3>2, JobChanges
  <2>7. registry'.digest = registry.digest \/ registry'.digest = None
    <3>1. registry \in Registry
      BY DEF TypeInv, TypeOK
    <3>2. ASSUME NEW id \in RequestIds,
                 JobMade(id) \/ JobWorks(id) \/ JobEnds(id) \/ JobExpires(id)
          PROVE  registry'.digest = registry.digest \/ registry'.digest = None
      <4>1. id \in PublishIds => ~JobWorks(id)
        BY <1>1 DEF PublishesOver, JobWorks
      <4>2. JobWorks(id) => registry'.digest = None
        BY <4>1 DEF JobWorks, RequestIds
      <4>3. JobEnds(id) => registry'.digest = registry.digest
        BY <3>1 DEF JobEnds, Registry
      <4> QED BY <3>2, <4>2, <4>3 DEF JobMade, JobExpires
    <3> QED BY <1>0, <3>2, RequestJobSteps, LifeOwns
  <2>8. JobWorks(u) => registry'.digest = None
    BY IdsAssumption DEF JobWorks
  <2>9. Done(u)' \/ rjobs'[u].done => registry'.digest = None
    BY <1>1, <2>6, <2>7, <2>8
  <2> QED BY <2>1, <2>2, <2>5, <2>9 DEF Leaving
<1> QED BY <1>2, <1>3

LEMMA LeaveStep ==
    ASSUME Careful, TypeInv, OrderInv, RestInv, RequestsInv, OutcomeInv, DeletedAtRest,
           LeaveInv, [Next]_vars
    PROVE  LeaveInv'
<1> USE Parts
<1>0. /\ LifeInv /\ IdsUsed /\ Steady /\ "overlap" \notin Disturbances
      /\ UnpublishIds \subseteq RequestIds /\ PublishIds \subseteq RequestIds
  BY DEF RequestsInv, Careful, RequestIds
<1> SUFFICES ASSUME Alive, Alive'
             PROVE  LeaveInv'
  BY <1>0, FeSteps DEF LeaveInv, Alive, FeMoves, SameSpec
<1>1. /\ api.op = "unpublishAndDelete" => PublishesOver
      /\ \A x \in {fe, cache, rc.fe}, u \in UnpublishIds : x.uid # 0 /\ x.delAfter = u =>
            Lost(u) \/ Leaving(u)
  BY DEF LeaveInv
<1>2. api'.op = "unpublishAndDelete" => PublishesOver'
  <2> SUFFICES ASSUME api'.op = "unpublishAndDelete"
               PROVE  PublishesOver'
    OBVIOUS
  <2>1. CASE UNCHANGED api
    BY <1>0, <1>1, <2>1, OverStays
  <2>2. CASE \E id \in RequestIds : Accepted(id)
    <3>1. Calm /\ CurrentlyPublished /\ UNCHANGED <<fe, cache, rc, rjobs, cms>>
      BY <1>0, <2>2 DEF Accepted
    <3>2. \A p \in PublishIds : fe.pub.id = p =>
             /\ rc.fe.uid = 0 /\ cache = fe
             /\ rjobs[p].uid # 0 \/ Closed(p)
      BY <3>1, CalmOver
    <3>3. rc.pc = "idle" /\ rc.fe.uid = 0 /\ cache = fe
      <4>1. rc.pc = "idle" /\ Undisturbed
        BY <1>0, <3>1 DEF Calm, CaughtUp, Undisturbed, LifeInv, Alive
      <4> QED BY <1>0, <4>1 DEF LifeInv, Alive, RestInv, CacheCurrent, Undisturbed
    <3>4. \A p \in PublishIds : rjobs[p].phase # "Running"
      BY <1>0, <3>1 DEF Calm
    <3>5. \A p \in PublishIds : Closed(p)' = Closed(p)
      BY <3>1 DEF Closed, ClosedPublish, ClosedUnpublish, Built, Digest, CurrentKey, PubCloses
    <3>6. \A x \in {fe', cache', rc'.fe}, p \in PublishIds : x.uid # 0 /\ x.pub.id = p =>
             rjobs'[p].uid # 0 \/ Closed(p)'
      BY <3>1, <3>2, <3>3, <3>5
    <3> QED BY <3>1, <3>3, <3>4, <3>6 DEF PublishesOver
  <2>3. CASE Unasked
    BY <2>3 DEF Unasked, RequestOps
  <2> QED BY <1>0, <2>1, <2>2, <2>3, ApiSteps, SteadyIs
<1>3. /\ FeMoves
      /\ rc'.fe \in {rc.fe, cache, AbsentFE}
      /\ cache' = cache \/ SaysAs(cache', fe)
  BY <1>0, CopiesMove
<1>4. \A u \in UnpublishIds : Lost(u) \/ Leaving(u) => Lost(u)' \/ Leaving(u)'
  BY <1>0, LostStays, LeavingStays
<1>5. ASSUME NEW u \in UnpublishIds, fe'.delAfter = u
      PROVE  Lost(u)' \/ Leaving(u)'
  <2>1. CASE fe.delAfter = u
    BY <1>1, <1>4, <2>1 DEF Alive
  <2>2. CASE fe.delAfter # u
    <3>1. /\ PatchUnpublishRequest /\ fe'.unpub = api.id
          /\ api.op = "unpublishAndDelete" /\ api.id = u
      BY <1>3, <1>5, <2>2 DEF FeMoves, SameRequests, PatchUnpublishRequest
    <3>2. u \in Asked /\ api' = [NoCall EXCEPT !.used = api.used]
          /\ UNCHANGED <<rjobs, registry>>
      BY <1>0, <3>1 DEF PatchUnpublishRequest, Asked, objectVars
    <3>3. api'.op = "none"
      BY <3>2 DEF NoCall
    <3>4. ~Done(u) /\ rjobs[u].uid = 0
      BY <1>0, <3>2 DEF IdsUsed, Known
    <3>5. ~Done(u)' /\ ~rjobs'[u].done
      BY <1>0, <3>2, <3>4 DEF LifeInv, Done
    <3>6. Asked' = {}
      BY <3>3 DEF Asked
    <3>7. PublishesOver'
      BY <1>0, <1>1, <3>1, <3>3, OverStays
    <3> QED BY <1>5, <3>1, <3>5, <3>6, <3>7 DEF Leaving
  <2> QED BY <2>1, <2>2
<1>6. \A x, y : SaysAs(x, y) => x.delAfter = y.delAfter /\ x.uid = y.uid
  BY DEF SaysAs, SameSpec, SameRequests
<1>7. \A x \in {fe', cache', rc'.fe}, u \in UnpublishIds : x.uid # 0 /\ x.delAfter = u =>
         Lost(u)' \/ Leaving(u)'
  BY <1>1, <1>3, <1>4, <1>5, <1>6
<1> QED BY <1>2, <1>7 DEF LeaveInv

-----------------------------------------------------------------------------
(* An FE that is deleted after its unpublish leaves nothing installed.     *)

DeletionInv == JobOutcome /\ OutcomeInv /\ DeletedAtRest /\ LeaveInv

LEMMA DeletionInit ==
    ASSUME Init
    PROVE  DeletionInv
<1>1. PICK source \in Sources, token \in Tokens, target \in Targets :
        fe = NewFE(1, source, token, target)
  BY DEF Init
<1>2. fe.unseen /\ fe.delAfter = None /\ fe.status = NoStatus
  BY <1>1 DEF NewFE
<1>3. cache.uid = 0 /\ rc.fe.uid = 0 /\ rc.status = NoStatus
  BY AbsentTypes DEF Init, AbsentFE, NewFE, NoReconcile
<1>4. api.op = "none" /\ \A id \in RequestIds : rjobs[id].uid = 0
  BY DEF Init, NoCall, NoRJob
<1>5. NoStatus.unpub.id = None /\ NoStatus.unpub.phase = "Absent"
  BY DEF NoStatus, NoUnpublish
<1>6. JobOutcome
  BY <1>4 DEF JobOutcome
<1>7. OutcomeInv
  BY <1>2, <1>3, <1>5, IdsAssumption DEF OutcomeInv, Outcome, Terminal
<1>8. DeletedAtRest
  BY <1>2 DEF DeletedAtRest, Undisturbed
<1>9. LeaveInv
  BY <1>2, <1>3, <1>4, IdsAssumption DEF LeaveInv
<1> QED BY <1>6, <1>7, <1>8, <1>9 DEF DeletionInv

LEMMA DeletionStep ==
    ASSUME Careful, TypeInv, OrderInv, RestInv, RequestsInv, DeletionInv, [Next]_vars
    PROVE  DeletionInv'
<1>1. Steady /\ JobOutcome /\ OutcomeInv /\ DeletedAtRest /\ LeaveInv
  BY DEF Careful, DeletionInv
<1>2. RequestsInv' /\ TypeInv'
  BY <1>1, RequestsStep, TypeInvStep
<1>3. JobOutcome'
  BY <1>1, JobOutcomeStep
<1>4. OutcomeInv'
  BY <1>1, <1>2, <1>3, OutcomeStep
<1>5. DeletedAtRest'
  BY <1>1, DeletedAtRestStep
<1>6. LeaveInv'
  BY <1>1, LeaveStep
<1> QED BY <1>3, <1>4, <1>5, <1>6 DEF DeletionInv

LEMMA DeletionInvariant ==
    ASSUME Careful
    PROVE  Spec => [](TypeInv /\ OrderInv /\ RestInv /\ RequestsInv /\ DeletionInv)
<1>1. TypeInv /\ OrderInv /\ RestInv /\ RequestsInv /\ DeletionInv /\ [Next]_vars => DeletionInv'
  BY DeletionStep
<1>2. Init => DeletionInv
  BY DeletionInit
<1>3. Spec => [](TypeInv /\ OrderInv /\ RestInv /\ RequestsInv)
  BY RequestsInvariant DEF Careful
<1> QED BY <1>1, <1>2, <1>3, PTL DEF Spec

\* The controller deletes an FE only when its extension is not installed any
\* more: the unpublish it deletes after was carried out, not just reported,
\* and no publish was open by then.
THEOREM DeletionIsAfterUnpublish ==
    ASSUME Careful
    PROVE  Spec => DeletedAfterUnpublish
<1>1. TypeInv /\ OrderInv /\ RestInv /\ RequestsInv /\ DeletionInv /\ [Next]_vars =>
        [rc.pc = "after" /\ rc' # rc /\ fe.uid # 0 /\ fe'.uid = 0 => registry.digest = None]_vars
  <2> SUFFICES ASSUME TypeInv, RequestsInv, DeletionInv, [Next]_vars,
                      rc.pc = "after", rc' # rc, fe.uid # 0, fe'.uid = 0
               PROVE  registry.digest = None
    OBVIOUS
  <2> USE Parts
  <2>1. Alive /\ LifeInv /\ rc.fe.uid # 0
    BY KeyIs DEF Alive, RequestsInv, LifeInv
  <2>2. DeleteFrontendExtension
    <3>1. Reconcile \/ ReconcileError \/ UNCHANGED rc
      BY DEF Next, ControllerNext, CacheSync, vars, controllerVars,
             JobsNext, Packager, PackagerBuild, PackagerRefuse, PackagerUpsert,
             PackagerSucceed, PJobStep, PackagerFail, ExpirePackageJob, Publisher,
             PublisherInstall, PublisherRefuse, PublisherUninstall, PublisherSucceed,
             RJobStep, PublisherFail, ExpireRequestJob, Collector, CollectPackageJob,
             CollectRequestJob, CollectArtifact, RemoveDeletedFE,
             ApiNext, UserWrites, EditSpec, SetRebuildToken, AnnotatePublish,
             AnnotateUnpublish, DeleteInBackground, DeleteInForeground, Recreate,
             TamperArtifact, TriggerPublish, TriggerUnpublish, DeleteExtension, Accept,
             ApiCompletes, PatchPublishRequest, PatchUnpublishRequest, DeleteByName
    <3>2. Reconcile => DeleteFrontendExtension \/ ListOldArtifacts
      BY DEF Reconcile, ReconcileStart, ArtifactFound, PackageJobInProgress, NoArtifact,
             ReadArtifactAgain, PackageAttemptsExceeded, AttemptWasted, NextAttempt,
             CreatePackageJob, ObservePublishJob, KeepFinishedPublish, NeedPublishJob,
             CreatePublishJob, ObserveUnpublishJob, KeepFinishedUnpublish, NeedUnpublishJob,
             CreateUnpublishJob, GetLatest, PatchStatus, GetPatched, PatchLabels,
             DeleteOldArtifact
    <3> QED BY <3>1, <3>2 DEF ListOldArtifacts, ReconcileError
  <2>3. PICK u \in UnpublishIds :
           rc.fe.delAfter = u /\ rc.status.unpub.phase = "Succeeded" /\ rc.status.unpub.id = u
    BY <2>2 DEF DeleteFrontendExtension, ShouldDeleteAfterUnpublish, FE, Maybe
  <2>4. Done(u)
    BY <2>1, <2>3 DEF DeletionInv, OutcomeInv, Outcome
  <2>5. Lost(u) \/ Leaving(u)
    BY <2>1, <2>3 DEF DeletionInv, LeaveInv
  <2> QED BY <2>4, <2>5 DEF Lost, Leaving
<1> QED BY <1>1, DeletionInvariant, PTL DEF Spec, DeletedAfterUnpublish
=============================================================================
