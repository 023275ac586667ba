--------------------------- MODULE FeRest_proofs ---------------------------
(***************************************************************************)
(* What the status of an FE is worth when its controller has come to rest: *)
(* proofs for every value of the constants of FrontendExtension.           *)
(***************************************************************************)
EXTENDS FrontendExtension_proofs, FiniteSetTheorems

-----------------------------------------------------------------------------
(* The inductive invariant.                                                *)

\* Nothing is on its way to the controller: it works on what there is, or is
\* between two reconciles.
Undisturbed == fe.uid # 0 /\ ~fe.deleting /\ ~fe.unseen /\ queue # "event"

\* The cache is behind only while there is something to deliver.
CacheCurrent == ~fe.unseen => cache = fe

\* Of two artifacts one is older, and there are finitely many.
BirthsDiffer ==
    \A j, k \in Keys : cms[j].uid # 0 /\ cms[k].uid # 0 /\ cms[j].born = cms[k].born => j = k

FinitelyMany == IsFiniteSet({key \in Keys : cms[key].uid # 0})

CurrentKey == ArtifactKey(fe)

\* A reconcile r works on the FE as it is and knows its latest package Job.
Listed(r) ==
    /\ r.fe = fe /\ fe.src \in ValidSources
    /\ r.att = LatestAttempt(fe)
    /\ r.phase = IF r.att = 0 THEN "Absent" ELSE pjobs[<<CurrentKey, r.att>>].phase

\* It has found the artifact.
Found(r) ==
    /\ r.fe = fe
    /\ MatchingArtifact(CurrentKey) /\ r.digest = cms[CurrentKey].digest

\* The publish status answers the request of the FE, if it is not passed over.
PublishAnswers(publish, digest) ==
    fe.pub.id # None /\ ~RequestStale(fe, digest) =>
        /\ publish.id = fe.pub.id
        /\ rjobs[fe.pub.id].uid # 0 /\ ~RequestInvalid(fe) =>
              publish.phase = rjobs[fe.pub.id].phase

UnpublishAnswers(unpublish) ==
    fe.unpub # None =>
        /\ unpublish.id = fe.unpub
        /\ rjobs[fe.unpub].uid # 0 /\ fe.target =>
              unpublish.phase = rjobs[fe.unpub].phase

\* The status is of the current spec and true of the Jobs and the artifact.
Justified(status) ==
    /\ Observes(status, fe)
    /\ status.phase = "Ready" =>
          /\ MatchingArtifact(CurrentKey) /\ status.art = cms[CurrentKey].digest
          /\ PublishAnswers(status.pub, status.art) /\ UnpublishAnswers(status.unpub)
    /\ status.phase = "Failed" =>
          \/ fe.src \notin ValidSources
          \/ /\ ~MatchingArtifact(CurrentKey)
             /\ pjobs[<<CurrentKey, MaxAttempts>>].phase \in Terminal
    /\ status.phase = "Packaging" =>
          \E n \in Attempts :
              LET job == pjobs[<<CurrentKey, n>>]
              IN  job.phase = "Running" \/ Orphaned(job.uid)

\* A reconcile that has a status to write, and goes on after it if its
\* artifact is ready.
Decided(r) == Justified(r.status) /\ (r.status.phase = "Ready" => r.fe = fe)

Written(r) ==
    /\ Justified(fe.status) /\ fe.status.phase = r.status.phase
    /\ r.status.phase = "Ready" => r.fe = fe

InStep == Justified(fe.status) /\ fe.labels = StatusLabels(fe.status)

OldArtifactsBounded ==
    Cardinality({key \in Keys : cms[key].uid = fe.uid}) <= 1 + RetainOld

\* What reconcile r has established so far.
OnTheWay(r) ==
    CASE r.pc = "artifact" -> Listed(r)
      [] r.pc = "artifactAgain" -> Listed(r) /\ r.phase = "Succeeded"
      [] r.pc = "create" -> Listed(r) /\ r.att < MaxAttempts
      [] r.pc \in {"publish", "createPublish"} -> Found(r) /\ r.fe.pub.id # None
      [] r.pc \in {"unpublish", "createUnpublish"} ->
            Found(r) /\ PublishAnswers(r.pub, r.digest)
      [] r.pc \in {"get", "patch"} -> Decided(r)
      [] r.pc = "reget" -> Written(r)
      [] r.pc = "labels" -> Written(r) /\ r.labels = StatusLabels(fe.status)
      [] r.pc = "after" -> InStep /\ r.fe = fe
      [] r.pc = "gc" -> InStep /\ \A key \in r.doomed : cms[key].uid # 0
      [] OTHER -> InStep /\ (fe.status.phase = "Ready" => OldArtifactsBounded)

RestInv ==
    /\ CacheCurrent /\ BirthsDiffer /\ FinitelyMany
    /\ Undisturbed => OnTheWay(rc)

-----------------------------------------------------------------------------
(* What a step may change of the FE and its cache.                         *)

\* The types of what the objects are made of.
LEMMA Parts ==
    ASSUME TypeInv
    PROVE  /\ fe \in FE /\ fe.status \in Status /\ fe.uid \in Uids /\ fe.gen \in Nat
           /\ fe.deleting \in BOOLEAN /\ fe.unseen \in BOOLEAN /\ fe.target \in BOOLEAN
           /\ fe.pub \in Request /\ fe.pub.id \in Maybe(PublishIds)
           /\ fe.unpub \in Maybe(UnpublishIds) /\ fe.labels \in Labels
           /\ cache \in FE /\ queue \in {"empty", "timer", "event"}
           /\ rc \in ReconcileState /\ rc.fe \in FE /\ rc.att \in 0 .. MaxAttempts
           /\ rc.digest \in Maybe(Digests) /\ rc.pub \in PublishStatus
           /\ rc.status \in Status /\ rc.labels \in Labels /\ rc.requeue \in BOOLEAN
           /\ rc.doomed \in SUBSET Keys
           /\ pjobs \in [JobNames -> PackageJob] /\ rjobs \in [RequestIds -> RequestJob]
           /\ cms \in [Keys -> ConfigMap] /\ AbsentFE \in FE /\ AbsentFE.uid = 0
           /\ NoReconcile \in ReconcileState
<1>1. /\ fe \in FE /\ cache \in FE /\ queue \in {"empty", "timer", "event"}
      /\ rc \in ReconcileState /\ pjobs \in [JobNames -> PackageJob]
      /\ rjobs \in [RequestIds -> RequestJob] /\ cms \in [Keys -> ConfigMap]
  BY DEF TypeInv, TypeOK
<1>2. /\ fe.status \in Status /\ fe.uid \in Uids /\ fe.gen \in Nat
      /\ fe.deleting \in BOOLEAN /\ fe.unseen \in BOOLEAN /\ fe.target \in BOOLEAN
      /\ fe.pub \in Request /\ fe.unpub \in Maybe(UnpublishIds) /\ fe.labels \in Labels
  BY <1>1 DEF FE
<1>3. fe.pub.id \in Maybe(PublishIds)
  BY <1>2 DEF Request
<1>4. /\ rc.fe \in FE /\ rc.att \in 0 .. MaxAttempts
      /\ rc.digest \in Maybe(Digests) /\ rc.pub \in PublishStatus
      /\ rc.status \in Status /\ rc.labels \in Labels /\ rc.requeue \in BOOLEAN
      /\ rc.doomed \in SUBSET Keys
  BY <1>1 DEF ReconcileState
<1>5. AbsentFE.uid = 0
  BY DEF AbsentFE, NewFE
<1> QED BY <1>1, <1>2, <1>3, <1>4, <1>5, ObjectTypes

\* A write changes nothing or is seen later.
LEMMA StoredSeenLater ==
    ASSUME NEW new \in FE, fe' = Stored(new)
    PROVE  (fe' = fe /\ new = fe) \/ (fe'.unseen /\ fe'.uid = new.uid)
BY DEF Stored, FE

FeWritten == cache' = cache /\ (fe' = fe \/ fe'.unseen)

\* Every write of the FE is seen later, and the cache takes the FE as it is.
LEMMA FeChanges ==
    ASSUME TypeInv, Next
    PROVE  CacheSync \/ FeWritten
<1> USE Parts
<1>1. ASSUME NEW new \in FE, fe' = Stored(new), cache' = cache
      PROVE  FeWritten
  BY <1>1, StoredSeenLater DEF FeWritten
<1>2. ASSUME UNCHANGED <<fe, cache>>
      PROVE  FeWritten
  BY <1>2 DEF FeWritten
<1>3. CASE ControllerNext
  <2>1. CASE PatchStatus
    <3>1. MergedStatus(fe.status, rc.status) \in Status
      BY StatusTypes, SectionTypes, AbsentTypes DEF Maybe
    <3>2. [fe EXCEPT !.status = MergedStatus(@, rc.status)] \in FE
      BY <3>1 DEF FE
    <3> QED BY <1>1, <1>2, <2>1, <3>2 DEF PatchStatus
  <2>2. CASE PatchLabels
    <3>1. [fe EXCEPT !.labels = rc.labels] \in FE
      BY DEF FE
    <3> QED BY <1>1, <1>2, <2>2, <3>1 DEF PatchLabels
  <2>3. CASE DeleteFrontendExtension
    BY <1>1, <1>2, <2>3 DEF DeleteFrontendExtension
  <2>4. CASE ReconcileError
    BY <1>2, <2>4 DEF ReconcileError
  <2>5. CASE \/ ReconcileStart \/ ArtifactFound \/ PackageJobInProgress \/ ReadArtifactAgain
             \/ PackageAttemptsExceeded \/ NextAttempt \/ CreatePackageJob
    BY <1>2, <2>5 DEF ReconcileStart, ArtifactFound, PackageJobInProgress, ReadArtifactAgain,
       PackageAttemptsExceeded, NextAttempt, CreatePackageJob, Continue
  <2>6. CASE \/ ObservePublishJob \/ KeepFinishedPublish \/ NeedPublishJob \/ CreatePublishJob
             \/ ObserveUnpublishJob \/ KeepFinishedUnpublish \/ NeedUnpublishJob
             \/ CreateUnpublishJob
    BY <1>2, <2>6 DEF ObservePublishJob, KeepFinishedPublish, NeedPublishJob,
       CreatePublishJob, ObserveUnpublishJob, KeepFinishedUnpublish, NeedUnpublishJob,
       CreateUnpublishJob, Continue, CreateRequestJob
  <2>7. CASE GetLatest \/ GetPatched \/ ListOldArtifacts \/ DeleteOldArtifact
    BY <1>2, <2>7 DEF GetLatest, GetPatched, ListOldArtifacts, DeleteOldArtifact
  <2> QED BY <1>3, <2>1, <2>2, <2>3, <2>4, <2>5, <2>6, <2>7 DEF ControllerNext, Reconcile
<1>4. CASE JobsNext
  <2>1. CASE RemoveDeletedFE
    BY <1>1, <2>1 DEF RemoveDeletedFE, controllerVars
  <2>2. ASSUME NEW name \in JobNames,
               Packager(name) \/ PackagerFail(name) \/ ExpirePackageJob(name)
                  \/ CollectPackageJob(name)
        PROVE  FeWritten
    BY <1>2, <2>2 DEF Packager, PackagerBuild, PackagerRefuse, PackagerUpsert,
       PackagerSucceed, PackagerFail, ExpirePackageJob, CollectPackageJob, PJobStep
  <2>3. ASSUME NEW id \in RequestIds,
               Publisher(id) \/ PublisherFail(id) \/ ExpireRequestJob(id)
                  \/ CollectRequestJob(id)
        PROVE  FeWritten
    BY <1>2, <2>3 DEF Publisher, PublisherInstall, PublisherRefuse, PublisherUninstall,
       PublisherSucceed, PublisherFail, ExpireRequestJob, CollectRequestJob, RJobStep
  <2>4. ASSUME NEW key \in Keys, CollectArtifact(key)
        PROVE  FeWritten
    BY <1>2, <2>4 DEF CollectArtifact
  <2> QED BY <1>4, <2>1, <2>2, <2>3, <2>4 DEF JobsNext, Collector
<1>5. CASE ApiNext
  <2>1. ASSUME NEW kind, NEW new \in FE, UserWrites(kind, new)
        PROVE  FeWritten
    BY <1>1, <2>1 DEF UserWrites, controllerVars
  <2>2. ASSUME NEW source \in Sources, EditSpec(source)
        PROVE  FeWritten
    <3>1. fe.gen + 1 \in Nat
      OBVIOUS
    <3>2. [fe EXCEPT !.src = source, !.gen = fe.gen + 1] \in FE
      BY <3>1 DEF FE, Maybe
    <3> QED BY <2>1, <2>2, <3>2 DEF EditSpec
  <2>3. ASSUME NEW token \in Tokens, SetRebuildToken(token)
        PROVE  FeWritten
    <3>1. [fe EXCEPT !.token = token] \in FE
      BY DEF FE, Maybe
    <3> QED BY <2>1, <2>3, <3>1 DEF SetRebuildToken
  <2>4. ASSUME NEW id \in PublishIds, NEW source \in {None, fe.src},
               NEW digest \in Digests \cup {None}, AnnotatePublish(id, source, digest)
        PROVE  FeWritten
    <3>1. [id |-> id, gen |-> 0, src |-> source, digest |-> digest] \in Request
      BY DEF Request, FE, Maybe
    <3>2. [fe EXCEPT !.pub = [id |-> id, gen |-> 0, src |-> source, digest |-> digest]] \in FE
      BY <3>1 DEF FE
    <3> QED BY <2>1, <2>4, <3>2 DEF AnnotatePublish
  <2>5. ASSUME NEW id \in UnpublishIds, AnnotateUnpublish(id)
        PROVE  FeWritten
    <3>1. [fe EXCEPT !.unpub = id] \in FE
      BY DEF FE, Maybe
    <3> QED BY <2>1, <2>5, <3>1 DEF AnnotateUnpublish
  <2>6. CASE DeleteInBackground \/ DeleteInForeground
    <3>1. [fe EXCEPT !.deleting = TRUE] \in FE
      BY DEF FE
    <3> QED BY <2>1, <2>6, <3>1 DEF DeleteInBackground, DeleteInForeground
  <2>7. ASSUME NEW source \in Sources, NEW token \in Tokens, Recreate(source, token)
        PROVE  FeWritten
    <3>1. UserWrites("recreate", NewFE(events + 2, source, token, TRUE))
          /\ events \in 0 .. MaxEvents /\ events < MaxEvents
      BY <2>7 DEF Recreate, UserWrites, Disturb, TypeInv, TypeOK
    <3>2. events + 2 \in Uids
      BY <3>1, BoundsAssumption DEF Uids
    <3>3. NewFE(events + 2, source, token, TRUE) \in FE
      BY <3>2, ObjectTypes
    <3> QED BY <2>1, <3>1, <3>3
  <2>8. CASE \E key \in Keys : TamperArtifact(key)
    BY <1>2, <2>8 DEF TamperArtifact
  <2>9. CASE \/ \E id \in PublishIds : TriggerPublish(id)
             \/ \E id \in UnpublishIds : TriggerUnpublish(id)
             \/ \E id \in UnpublishIds, unpublish \in BOOLEAN : DeleteExtension(id, unpublish)
    BY <1>2, <2>9 DEF TriggerPublish, TriggerUnpublish, DeleteExtension, Accept, controllerVars
  <2>10. CASE ApiCompletes
    <3>1. /\ api.req \in Request
          /\ api.op \in {"unpublish", "unpublishAndDelete"} => api.id \in UnpublishIds
      BY DEF TypeInv, TypeOK, Call, CallPrepared
    <3>2. [fe EXCEPT !.pub = api.req, !.target = TRUE] \in FE
      BY <3>1 DEF FE
    <3>3. api.op \in {"unpublish", "unpublishAndDelete"} =>
            [fe EXCEPT !.unpub = api.id, !.target = TRUE,
                       !.delAfter = IF api.op = "unpublish" THEN @ ELSE api.id] \in FE
      BY <3>1 DEF FE, Maybe
    <3> QED BY <1>1, <1>2, <2>10, <3>2, <3>3
            DEF ApiCompletes, PatchPublishRequest, PatchUnpublishRequest, DeleteByName,
                controllerVars
  <2> QED BY <1>5, <2>2, <2>3, <2>4, <2>5, <2>6, <2>7, <2>8, <2>9, <2>10 DEF ApiNext
<1> QED BY <1>3, <1>4, <1>5 DEF Next

\* So the cache stays current.
LEMMA CacheStep ==
    ASSUME TypeInv, CacheCurrent, [Next]_vars
    PROVE  CacheCurrent'
<1>1. CASE UNCHANGED vars
  BY <1>1 DEF vars, CacheCurrent
<1>2. CASE CacheSync
  BY <1>2 DEF CacheSync, CacheCurrent
<1>3. CASE FeWritten
  BY <1>3 DEF FeWritten, CacheCurrent
<1> QED BY <1>1, <1>2, <1>3, FeChanges

-----------------------------------------------------------------------------
(* Artifacts.                                                              *)

\* A step changes one artifact ConfigMap at most: it goes, its content
\* changes, or it is younger than all.
ArtifactChanges(key, cm) ==
    /\ cms' = [cms EXCEPT ![key] = cm]
    /\ \/ cm.uid = 0
       \/ cms[key].uid # 0 /\ cm.born = cms[key].born
       \/ \A k \in Keys : cms[k].born < cm.born

LEMMA ArtifactSteps ==
    ASSUME TypeInv, Next
    PROVE  UNCHANGED cms \/ \E key \in Keys, cm \in ConfigMap : ArtifactChanges(key, cm)
<1> USE Parts
<1>1. NoConfigMap \in ConfigMap /\ NoConfigMap.uid = 0
  BY ObjectTypes DEF NoConfigMap
<1>2. ASSUME NEW key \in Keys, cms' = [cms EXCEPT ![key] = NoConfigMap]
      PROVE  ArtifactChanges(key, NoConfigMap)
  BY <1>1, <1>2 DEF ArtifactChanges
<1>3. CASE ControllerNext
  <2>1. CASE DeleteOldArtifact
    BY <1>1, <1>2, <2>1 DEF DeleteOldArtifact
  <2>2. CASE CacheSync \/ ReconcileError
    BY <2>2 DEF CacheSync, ReconcileError, objectVars
  <2>3. CASE \/ ReconcileStart \/ ArtifactFound \/ PackageJobInProgress \/ ReadArtifactAgain
             \/ PackageAttemptsExceeded \/ NextAttempt \/ CreatePackageJob
    BY <2>3 DEF ReconcileStart, ArtifactFound, PackageJobInProgress, ReadArtifactAgain,
       PackageAttemptsExceeded, NextAttempt, CreatePackageJob, Continue, objectVars
  <2>4. CASE \/ ObservePublishJob \/ KeepFinishedPublish \/ NeedPublishJob \/ CreatePublishJob
             \/ ObserveUnpublishJob \/ KeepFinishedUnpublish \/ NeedUnpublishJob
             \/ CreateUnpublishJob
    BY <2>4 DEF ObservePublishJob, KeepFinishedPublish, NeedPublishJob,
       CreatePublishJob, ObserveUnpublishJob, KeepFinishedUnpublish, NeedUnpublishJob,
       CreateUnpublishJob, Continue, CreateRequestJob, objectVars
  <2>5. CASE GetLatest \/ PatchStatus \/ GetPatched \/ PatchLabels
             \/ DeleteFrontendExtension \/ ListOldArtifacts
    BY <2>5 DEF GetLatest, PatchStatus, GetPatched, PatchLabels, DeleteFrontendExtension,
                ListOldArtifacts, objectVars
  <2> QED BY <1>3, <2>1, <2>2, <2>3, <2>4, <2>5 DEF ControllerNext, Reconcile
<1>4. CASE JobsNext
  <2>1. ASSUME NEW name \in JobNames, PackagerUpsert(name)
        PROVE  \E key \in Keys, cm \in ConfigMap : ArtifactChanges(key, cm)
    <3> DEFINE key == name[1]
               born == IF cms[key].uid # 0 THEN cms[key].born ELSE 1 + Max(Births)
               cm == [uid |-> pjobs[name].owner, digest |-> pjobs[name].digest,
                      intact |-> TRUE, born |-> born]
    <3>1. key \in Keys /\ pjobs[name] \in PackageJob /\ cms[key] \in ConfigMap
      BY DEF JobNames
    <3>2. Births \in SUBSET Nat /\ \A k \in Keys : cms[k].born \in Births
      BY DEF Births, ConfigMap
    <3>3. PICK b \in Nat : \A k \in Keys : cms[k].born <= b
      BY DEF TypeInv, BirthsBounded
    <3>4. \A x \in Births : x <= b
      BY <3>3 DEF Births
    <3>5. Max(Births) \in Nat /\ \A x \in Births : x <= Max(Births)
      <4>1. Births # {}
        BY <3>1, <3>2
      <4> QED BY <3>2, <3>4, <4>1, MaxOfNaturals
    <3>6. born \in Nat /\ (cms[key].uid = 0 => \A k \in Keys : cms[k].born < born)
      BY <3>1, <3>2, <3>5 DEF ConfigMap
    <3>7. cms' = [cms EXCEPT ![key] = cm]
      BY <2>1 DEF PackagerUpsert
    <3> HIDE DEF key
    <3>8. cms[key].uid # 0 => born = cms[key].born
      OBVIOUS
    <3> HIDE DEF born
    <3>9. cm \in ConfigMap /\ cm.born = born
      BY <3>1, <3>6 DEF ConfigMap, PackageJob
    <3> HIDE DEF cm
    <3>10. ArtifactChanges(key, cm)
      BY <3>1, <3>6, <3>7, <3>8, <3>9 DEF ArtifactChanges, ConfigMap
    <3> QED BY <3>1, <3>9, <3>10
  <2>2. ASSUME NEW name \in JobNames,
               PackagerBuild(name) \/ PackagerRefuse(name) \/ PackagerSucceed(name)
                  \/ PackagerFail(name) \/ ExpirePackageJob(name) \/ CollectPackageJob(name)
        PROVE  UNCHANGED cms
    BY <2>2 DEF PackagerBuild, PackagerRefuse, PackagerSucceed, PackagerFail,
                ExpirePackageJob, CollectPackageJob
  <2>3. ASSUME NEW id \in RequestIds,
               Publisher(id) \/ PublisherFail(id) \/ ExpireRequestJob(id)
                  \/ CollectRequestJob(id)
        PROVE  UNCHANGED cms
    BY <2>3 DEF Publisher, PublisherInstall, PublisherRefuse, PublisherUninstall,
       PublisherSucceed, PublisherFail, ExpireRequestJob, CollectRequestJob, RJobStep
  <2>4. ASSUME NEW key \in Keys, CollectArtifact(key)
        PROVE  ArtifactChanges(key, NoConfigMap)
    BY <1>2, <2>4 DEF CollectArtifact
  <2>5. CASE RemoveDeletedFE
    BY <2>5 DEF RemoveDeletedFE, objectVars
  <2> QED BY <1>1, <1>4, <2>1, <2>2, <2>3, <2>4, <2>5 DEF JobsNext, Collector, Packager
<1>5. CASE ApiNext
  <2>1. ASSUME NEW key \in Keys, TamperArtifact(key)
        PROVE  \E cm \in ConfigMap : ArtifactChanges(key, cm)
    <3>1. LET cm == [cms[key] EXCEPT !.intact = FALSE]
          IN  cm \in ConfigMap /\ cm.born = cms[key].born
      BY DEF ConfigMap
    <3> QED BY <1>1, <1>2, <2>1, <3>1 DEF TamperArtifact, ArtifactChanges
  <2>2. CASE ApiCompletes
    BY <2>2 DEF ApiCompletes, PatchPublishRequest, PatchUnpublishRequest, DeleteByName,
                objectVars
  <2>3. CASE \/ \E id \in PublishIds : TriggerPublish(id)
             \/ \E id \in UnpublishIds : TriggerUnpublish(id)
             \/ \E id \in UnpublishIds, unpublish \in BOOLEAN : DeleteExtension(id, unpublish)
    BY <2>3 DEF TriggerPublish, TriggerUnpublish, DeleteExtension, Accept, objectVars
  <2>4. CASE \/ \E source \in Sources : EditSpec(source)
             \/ \E token \in Tokens : SetRebuildToken(token)
             \/ \E id \in PublishIds, source \in {None, fe.src}, digest \in Digests \cup {None} :
                   AnnotatePublish(id, source, digest)
             \/ \E id \in UnpublishIds : AnnotateUnpublish(id)
             \/ DeleteInBackground \/ DeleteInForeground
             \/ \E source \in Sources, token \in Tokens : Recreate(source, token)
    BY <2>4 DEF EditSpec, SetRebuildToken, AnnotatePublish, AnnotateUnpublish,
       DeleteInBackground, DeleteInForeground, Recreate, UserWrites, objectVars
  <2> QED BY <1>5, <2>1, <2>2, <2>3, <2>4 DEF ApiNext
<1> QED BY <1>3, <1>4, <1>5 DEF Next

\* So of two artifacts one stays older, and they stay finitely many.
LEMMA ArtifactsStep ==
    ASSUME TypeInv, BirthsDiffer, FinitelyMany, [Next]_vars
    PROVE  BirthsDiffer' /\ FinitelyMany'
<1> USE Parts
<1>1. CASE UNCHANGED cms
  BY <1>1 DEF BirthsDiffer, FinitelyMany
<1>2. ASSUME NEW key \in Keys, NEW cm \in ConfigMap, ArtifactChanges(key, cm)
      PROVE  BirthsDiffer' /\ FinitelyMany'
  <2>1. \A k \in Keys : cms'[k] = IF k = key THEN cm ELSE cms[k]
    BY <1>2 DEF ArtifactChanges
  <2>2. cm.uid # 0 =>
          \/ cms[key].uid # 0 /\ cm.born = cms[key].born
          \/ \A k \in Keys : cms[k].born < cm.born
    BY <1>2 DEF ArtifactChanges
  <2>3. cm.born \in Nat /\ \A k \in Keys : cms[k].born \in Nat
    BY DEF ConfigMap
  <2>4. BirthsDiffer'
    <3>1. SUFFICES ASSUME NEW j \in Keys, NEW k \in Keys, cms'[j].uid # 0, cms'[k].uid # 0,
                          cms'[j].born = cms'[k].born, j # k
                   PROVE  FALSE
      BY DEF BirthsDiffer
    <3>2. CASE j # key /\ k # key
      BY <2>1, <3>1, <3>2 DEF BirthsDiffer
    <3>3. CASE j = key
      BY <2>1, <2>2, <2>3, <3>1, <3>3 DEF BirthsDiffer
    <3>4. CASE k = key
      BY <2>1, <2>2, <2>3, <3>1, <3>4 DEF BirthsDiffer
    <3> QED BY <3>2, <3>3, <3>4
  <2>5. FinitelyMany'
    <3> DEFINE there == {k \in Keys : cms[k].uid # 0}
               now == {k \in Keys : cms'[k].uid # 0}
    <3>1. IsFiniteSet(there \cup {key})
      BY FS_AddElement DEF FinitelyMany
    <3>2. now \in SUBSET (there \cup {key})
      BY <2>1
    <3>3. IsFiniteSet(now)
      BY <3>1, <3>2, FS_Subset
    <3> QED BY <3>3 DEF FinitelyMany
  <2> QED BY <2>4, <2>5
<1> QED BY <1>1, <1>2, ArtifactSteps DEF vars

-----------------------------------------------------------------------------
(* What the retention bound rests on.                                      *)

\* When of every member of a finite set fewer than n are younger, it has no
\* more than n.
LEMMA FewYounger ==
    ASSUME NEW S, IsFiniteSet(S), NEW age \in [S -> Nat], NEW n \in Nat,
           \A j, k \in S : age[j] = age[k] => j = k,
           \A k \in S : ~(Cardinality({j \in S : age[j] > age[k]}) >= n)
    PROVE  Cardinality(S) <= n
<1>1. CASE S = {}
  BY <1>1, FS_EmptySet
<1>2. CASE S # {}
  <2> DEFINE ages == {age[k] : k \in S}
             R == OpToRel(<, Nat)
  <2>1. ages \subseteq Nat /\ ages # {}
    BY <1>2
  <2>2. PICK a \in ages : \A b \in ages : ~(<<b, a>> \in R)
    BY <2>1, NatLessThanWellFounded, WFMin, Zenon
  <2>3. R = {ss \in Nat \X Nat : ss[1] < ss[2]}
    BY Zenon DEF OpToRel
  <2>4. PICK k \in S : a = age[k]
    BY Zenon
  <2>5. \A j \in S : ~(age[j] < age[k])
    <3>1. \A j \in S : age[j] \in ages
      BY Zenon
    <3> HIDE DEF R, ages
    <3> QED BY <2>1, <2>2, <2>3, <2>4, <3>1
  <2>6. {j \in S : age[j] > age[k]} = S \ {k}
    <3>1. \A j \in S : j # k => age[j] > age[k]
      BY <2>5
    <3>2. ~(age[k] > age[k])
      OBVIOUS
    <3> QED BY <3>1, <3>2
  <2>7. Cardinality(S \ {k}) = Cardinality(S) - 1 /\ Cardinality(S) \in Nat
    BY FS_RemoveElement, FS_CardinalityType
  <2>8. ~(Cardinality(S \ {k}) >= n)
    BY <2>6
  <2> QED BY <2>7, <2>8
<1> QED BY <1>1, <1>2

\* An FE whose list of ConfigMaps to collect is empty owns no more than it may
\* retain, and the current one.
LEMMA NothingToCollect ==
    ASSUME TypeInv, BirthsDiffer, FinitelyMany, fe.uid # 0, Observes(fe.status, fe),
           GcCandidates(cms, fe, KeepNames(fe), RetainOld) = {}
    PROVE  OldArtifactsBounded
<1> USE Parts
<1> DEFINE old == {k \in Keys : cms[k].uid = fe.uid /\ k \notin {CurrentKey}}
           owned == {k \in Keys : cms[k].uid = fe.uid}
           age == [k \in old |-> cms[k].born]
<1>1. KeepNames(fe) = {CurrentKey}
  BY DEF KeepNames, StatusArtifactKeys, ArtifactKey, CurrentKey, Observes
<1>2. \A k \in old : ~(Cardinality({j \in old : cms[j].born > cms[k].born}) >= RetainOld)
  <2>1. DOMAIN cms = Keys
    OBVIOUS
  <2>2. GcCandidates(cms, fe, {CurrentKey}, RetainOld) =
          {k \in old : Cardinality({j \in old : cms[j].born > cms[k].born}) >= RetainOld}
    BY <2>1, Zenon DEF GcCandidates
  <2> HIDE DEF old
  <2> QED BY <1>1, <2>2
<1>3. IsFiniteSet(owned)
  <2>1. owned \in SUBSET {k \in Keys : cms[k].uid # 0}
    OBVIOUS
  <2> QED BY <2>1, FS_Subset DEF FinitelyMany
<1>4. old \subseteq owned /\ owned \subseteq old \cup {CurrentKey}
  OBVIOUS
<1>5. \A j, k \in old : cms[j].born = cms[k].born => j = k
  BY DEF BirthsDiffer
<1>6. \A k \in old : cms[k].born \in Nat
  BY DEF ConfigMap
<1> HIDE DEF old, owned
<1>7. IsFiniteSet(old)
  BY <1>3, <1>4, FS_Subset
<1>8. age \in [old -> Nat] /\ \A k \in old : age[k] = cms[k].born
  BY <1>6
<1> HIDE DEF age
<1>9. Cardinality(old) <= RetainOld
  <2>1. \A k \in old : {j \in old : age[j] > age[k]} = {j \in old : cms[j].born > cms[k].born}
    BY <1>8
  <2>2. \A k \in old : ~(Cardinality({j \in old : age[j] > age[k]}) >= RetainOld)
    BY <1>2, <2>1
  <2>3. \A j, k \in old : age[j] = age[k] => j = k
    BY <1>5, <1>8
  <2>4. RetainOld \in Nat
    BY BoundsAssumption
  <2> QED BY ONLY <1>7, <1>8, <2>2, <2>3, <2>4, FewYounger, Zenon
<1>10. /\ IsFiniteSet(old \cup {CurrentKey})
       /\ Cardinality(old \cup {CurrentKey}) <= Cardinality(old) + 1
  <2>1. Cardinality(old) \in Nat
    BY <1>7, FS_CardinalityType
  <2>2. /\ IsFiniteSet(old \cup {CurrentKey})
        /\ Cardinality(old \cup {CurrentKey}) =
             IF CurrentKey \in old THEN Cardinality(old) ELSE Cardinality(old) + 1
    BY ONLY <1>7, FS_AddElement, Zenon
  <2> QED BY <2>1, <2>2
<1>11. Cardinality(owned) <= Cardinality(old \cup {CurrentKey})
  BY <1>4, <1>10, FS_Subset
<1>12. Cardinality(owned) <= 1 + RetainOld
  <2>1. Cardinality(old) \in Nat /\ Cardinality(owned) \in Nat
        /\ Cardinality(old \cup {CurrentKey}) \in Nat
    BY <1>3, <1>7, <1>10, FS_CardinalityType
  <2> QED BY <1>9, <1>10, <1>11, <2>1, BoundsAssumption
<1> QED BY <1>12 DEF OldArtifactsBounded, owned

-----------------------------------------------------------------------------
(* The world that a reconcile works on.                                    *)

\* Nothing changes of what the status is about: the FE, the artifacts, and of
\* each Job whose it is and its phase.
SameWorld ==
    /\ fe' = fe /\ cms' = cms
    /\ \A name \in JobNames :
          pjobs'[name].uid = pjobs[name].uid /\ pjobs'[name].phase = pjobs[name].phase
    /\ \A id \in RequestIds :
          rjobs'[id].uid = rjobs[id].uid /\ rjobs'[id].phase = rjobs[id].phase

\* What a reconcile has found out stays true in it.
LEMMA WorldStays ==
    ASSUME TypeInv, fe.uid # 0, SameWorld, OnTheWay(rc')
    PROVE  OnTheWay(rc)'
<1> USE Parts
<1>1. CurrentKey \in Keys /\ fe' = fe /\ cms' = cms
  BY DEF TypeInv, Keyed, CurrentKey, ArtifactKey, Keys, SameWorld
<1>2. \A n \in Attempts :
        /\ pjobs'[<<CurrentKey, n>>].uid = pjobs[<<CurrentKey, n>>].uid
        /\ pjobs'[<<CurrentKey, n>>].phase = pjobs[<<CurrentKey, n>>].phase
  BY <1>1 DEF SameWorld, JobNames
<1>3. /\ fe.pub.id # None =>
            /\ rjobs'[fe.pub.id].uid = rjobs[fe.pub.id].uid
            /\ rjobs'[fe.pub.id].phase = rjobs[fe.pub.id].phase
      /\ fe.unpub # None =>
            /\ rjobs'[fe.unpub].uid = rjobs[fe.unpub].uid
            /\ rjobs'[fe.unpub].phase = rjobs[fe.unpub].phase
  BY DEF SameWorld, RequestIds, Maybe
<1>4. CurrentKey' = CurrentKey /\ MatchingArtifact(CurrentKey)' = MatchingArtifact(CurrentKey)
  BY <1>1 DEF CurrentKey, MatchingArtifact
<1>5. LatestAttempt(fe)' = LatestAttempt(fe) /\ LatestAttempt(fe) \in 0 .. MaxAttempts
  <2>1. {n \in Attempts : pjobs'[<<CurrentKey, n>>].uid = fe.uid}
          = {n \in Attempts : pjobs[<<CurrentKey, n>>].uid = fe.uid}
    BY <1>2
  <2> QED BY <1>1, <2>1, LatestAttemptIsLatest DEF LatestAttempt, CurrentKey
<1>6. Attempts = 1 .. MaxAttempts /\ MaxAttempts \in Nat \ {0} /\ MaxAttempts \in Attempts
  BY MaxAttemptsAssumption DEF Attempts
<1>7. Listed(rc') => Listed(rc)'
  BY <1>1, <1>2, <1>4, <1>5, <1>6 DEF Listed
<1>8. Found(rc') => Found(rc)'
  BY <1>1, <1>4 DEF Found
<1>9. PublishAnswers(rc'.pub, rc'.digest) => PublishAnswers(rc.pub, rc.digest)'
  BY <1>1, <1>3 DEF PublishAnswers
<1>10. Justified(rc'.status) => Justified(rc.status)'
  <2> SUFFICES ASSUME Justified(rc'.status) PROVE Justified(rc.status)'
    OBVIOUS
  <2>1. Observes(rc.status, fe)'
    BY <1>1 DEF Justified
  <2>2. rc'.status.phase = "Ready" =>
          /\ PublishAnswers(rc.status.pub, rc.status.art)' /\ UnpublishAnswers(rc.status.unpub)'
    BY <1>1, <1>3 DEF Justified, PublishAnswers, UnpublishAnswers
  <2>3. rc'.status.phase = "Failed" =>
          \/ fe.src \notin ValidSources
          \/ /\ ~MatchingArtifact(CurrentKey)'
             /\ pjobs'[<<CurrentKey, MaxAttempts>>].phase \in Terminal
    BY <1>2, <1>4, <1>6 DEF Justified
  <2>4. rc'.status.phase = "Packaging" =>
          \E n \in Attempts : \/ pjobs'[<<CurrentKey, n>>].phase = "Running"
                              \/ Orphaned(pjobs[<<CurrentKey, n>>].uid)'
    <3> SUFFICES ASSUME rc'.status.phase = "Packaging"
                 PROVE  \E n \in Attempts : \/ pjobs'[<<CurrentKey, n>>].phase = "Running"
                                             \/ Orphaned(pjobs[<<CurrentKey, n>>].uid)'
      OBVIOUS
    <3>1. PICK n \in Attempts : \/ pjobs[<<CurrentKey, n>>].phase = "Running"
                                \/ Orphaned(pjobs[<<CurrentKey, n>>].uid)
      BY Zenon DEF Justified
    <3>2. \/ pjobs'[<<CurrentKey, n>>].phase = "Running"
          \/ Orphaned(pjobs[<<CurrentKey, n>>].uid)'
      BY <1>1, <1>2, <1>4, <3>1 DEF Orphaned
    <3> QED BY <3>2
  <2> QED BY <1>1, <1>4, <2>1, <2>2, <2>3, <2>4 DEF Justified
<1>11. Justified(fe.status) => Justified(fe.status)'
  <2> SUFFICES ASSUME Justified(fe.status) PROVE Justified(fe.status)'
    OBVIOUS
  <2>1. Observes(fe.status, fe)'
    BY <1>1 DEF Justified
  <2>2. fe.status.phase = "Ready" =>
          /\ PublishAnswers(fe.status.pub, fe.status.art)' /\ UnpublishAnswers(fe.status.unpub)'
    BY <1>1, <1>3 DEF Justified, PublishAnswers, UnpublishAnswers
  <2>3. fe.status.phase = "Failed" =>
          \/ fe.src \notin ValidSources
          \/ /\ ~MatchingArtifact(CurrentKey)'
             /\ pjobs'[<<CurrentKey, MaxAttempts>>].phase \in Terminal
    BY <1>2, <1>4, <1>6 DEF Justified
  <2>4. fe.status.phase = "Packaging" =>
          \E n \in Attempts : \/ pjobs'[<<CurrentKey, n>>].phase = "Running"
                              \/ Orphaned(pjobs[<<CurrentKey, n>>].uid)'
    <3> SUFFICES ASSUME fe.status.phase = "Packaging"
                 PROVE  \E n \in Attempts : \/ pjobs'[<<CurrentKey, n>>].phase = "Running"
                                             \/ Orphaned(pjobs[<<CurrentKey, n>>].uid)'
      OBVIOUS
    <3>1. PICK n \in Attempts : \/ pjobs[<<CurrentKey, n>>].phase = "Running"
                                \/ Orphaned(pjobs[<<CurrentKey, n>>].uid)
      BY Zenon DEF Justified
    <3>2. \/ pjobs'[<<CurrentKey, n>>].phase = "Running"
          \/ Orphaned(pjobs[<<CurrentKey, n>>].uid)'
      BY <1>1, <1>2, <1>4, <3>1 DEF Orphaned
    <3> QED BY <3>2
  <2> QED BY <1>1, <1>4, <2>1, <2>2, <2>3, <2>4 DEF Justified
<1>12. InStep => InStep'
  BY <1>1, <1>11 DEF InStep
<1>13. OldArtifactsBounded' = OldArtifactsBounded
  BY <1>1 DEF OldArtifactsBounded
<1>14. Decided(rc') => Decided(rc)'
  BY <1>1, <1>10 DEF Decided
<1>15. Written(rc') => Written(rc)'
  BY <1>1, <1>11 DEF Written
<1>16. CASE rc'.pc \in {"artifact", "artifactAgain", "create"}
  BY <1>7, <1>16 DEF OnTheWay
<1>17. CASE rc'.pc \in {"publish", "createPublish", "unpublish", "createUnpublish"}
  BY <1>8, <1>9, <1>17 DEF OnTheWay
<1>18. CASE rc'.pc \in {"get", "patch", "reget"}
  BY <1>14, <1>15, <1>18 DEF OnTheWay
<1>19. CASE rc'.pc = "labels"
  BY <1>1, <1>15, <1>19 DEF OnTheWay
<1>20. CASE rc'.pc \in {"after", "gc"}
  BY <1>1, <1>12, <1>20 DEF OnTheWay
<1>21. CASE rc'.pc \notin {"artifact", "artifactAgain", "create", "publish", "createPublish",
                           "unpublish", "createUnpublish", "get", "patch", "reget", "labels",
                           "after", "gc"}
  BY <1>1, <1>12, <1>13, <1>21 DEF OnTheWay
<1> QED BY <1>16, <1>17, <1>18, <1>19, <1>20, <1>21

\* A step that leaves the controller undisturbed is one of its own, or changes
\* nothing of the world.
LEMMA OthersRest ==
    ASSUME TypeInv, Next, Undisturbed'
    PROVE  Reconcile \/ (Undisturbed /\ SameWorld /\ UNCHANGED rc)
<1> USE Parts
<1>0. fe'.uid # 0 /\ ~fe'.deleting /\ ~fe'.unseen /\ queue' # "event"
  BY DEF Undisturbed
<1>1. ASSUME UNCHANGED <<fe, queue, rc, objectVars>>
      PROVE  Undisturbed /\ SameWorld /\ UNCHANGED rc
  BY <1>0, <1>1 DEF Undisturbed, SameWorld, objectVars
<1>2. ~CacheSync
  <2>1. CacheSync => fe'.uid = fe.uid
    BY DEF CacheSync, FE
  <2> QED BY <1>0, <2>1 DEF CacheSync
<1>3. ~Notify
  BY <1>0 DEF Notify
<1>4. ~ReconcileError /\ fe' = fe
  BY <1>0, <1>2, <1>3, FeChanges DEF FeWritten, ReconcileError, Abort
<1>5. CASE JobsNext
  <2>1. ASSUME NEW name \in JobNames, PackagerBuild(name)
        PROVE  Undisturbed /\ SameWorld /\ UNCHANGED rc
    <3>1. /\ UNCHANGED <<fe, queue, rc, rjobs, cms>>
          /\ \E v \in Variants : pjobs' = [pjobs EXCEPT ![name] =
                [pjobs[name] EXCEPT !.pod = "built", !.owner = fe.uid, !.digest = <<fe.src, v>>]]
      BY <2>1 DEF PackagerBuild, PJobStep
    <3>2. pjobs[name] \in PackageJob
      OBVIOUS
    <3>3. \A v \in Variants :
            LET job == [pjobs[name] EXCEPT !.pod = "built", !.owner = fe.uid,
                                           !.digest = <<fe.src, v>>]
            IN  job.uid = pjobs[name].uid /\ job.phase = pjobs[name].phase
      BY <3>2 DEF PackageJob
    <3>4. \A other \in JobNames :
            pjobs'[other].uid = pjobs[other].uid /\ pjobs'[other].phase = pjobs[other].phase
      BY <3>1, <3>3
    <3> QED BY <1>0, <3>1, <3>4 DEF Undisturbed, SameWorld
  <2>2. ASSUME NEW name \in JobNames,
               \/ PackagerRefuse(name) \/ PackagerUpsert(name) \/ PackagerSucceed(name)
               \/ PackagerFail(name) \/ ExpirePackageJob(name) \/ CollectPackageJob(name)
        PROVE  FALSE
    BY <1>3, <2>2 DEF PackagerRefuse, PackagerUpsert, PackagerSucceed, PackagerFail,
                      ExpirePackageJob, CollectPackageJob
  <2>3. ASSUME NEW id \in RequestIds, PublisherInstall(id) \/ PublisherUninstall(id)
        PROVE  Undisturbed /\ SameWorld /\ UNCHANGED rc
    <3>1. /\ UNCHANGED <<fe, queue, rc, pjobs, cms>>
          /\ rjobs' = [rjobs EXCEPT ![id] = [rjobs[id] EXCEPT !.done = TRUE]]
      BY <2>3 DEF PublisherInstall, PublisherUninstall, RJobStep
    <3>2. rjobs[id] \in RequestJob
      OBVIOUS
    <3>3. LET job == [rjobs[id] EXCEPT !.done = TRUE]
          IN  job.uid = rjobs[id].uid /\ job.phase = rjobs[id].phase
      BY <3>2 DEF RequestJob
    <3>4. \A other \in RequestIds :
            rjobs'[other].uid = rjobs[other].uid /\ rjobs'[other].phase = rjobs[other].phase
      BY <3>1, <3>3
    <3> QED BY <1>0, <3>1, <3>4 DEF Undisturbed, SameWorld
  <2>4. ASSUME NEW id \in RequestIds,
               \/ PublisherRefuse(id) \/ PublisherSucceed(id) \/ PublisherFail(id)
               \/ ExpireRequestJob(id) \/ CollectRequestJob(id)
        PROVE  FALSE
    BY <1>3, <2>4 DEF PublisherRefuse, PublisherSucceed, PublisherFail, ExpireRequestJob,
                      CollectRequestJob
  <2>5. ASSUME NEW key \in Keys, CollectArtifact(key)
        PROVE  FALSE
    BY <1>3, <2>5 DEF CollectArtifact
  <2>6. CASE RemoveDeletedFE
    BY <1>1, <1>4, <2>6 DEF RemoveDeletedFE, controllerVars
  <2> QED BY <1>5, <2>1, <2>2, <2>3, <2>4, <2>5, <2>6
          DEF JobsNext, Collector, Packager, Publisher
<1>6. CASE ApiNext
  <2>1. CASE \E key \in Keys : TamperArtifact(key)
    BY <1>3, <2>1 DEF TamperArtifact
  <2>2. CASE \/ \E source \in Sources : EditSpec(source)
             \/ \E token \in Tokens : SetRebuildToken(token)
             \/ \E id \in PublishIds, source \in {None, fe.src}, digest \in Digests \cup {None} :
                   AnnotatePublish(id, source, digest)
             \/ \E id \in UnpublishIds : AnnotateUnpublish(id)
             \/ DeleteInBackground \/ DeleteInForeground
             \/ \E source \in Sources, token \in Tokens : Recreate(source, token)
    BY <1>1, <1>4, <2>2 DEF EditSpec, SetRebuildToken, AnnotatePublish, AnnotateUnpublish,
       DeleteInBackground, DeleteInForeground, Recreate, UserWrites, controllerVars
  <2>3. CASE \/ \E id \in PublishIds : TriggerPublish(id)
             \/ \E id \in UnpublishIds : TriggerUnpublish(id)
             \/ \E id \in UnpublishIds, unpublish \in BOOLEAN : DeleteExtension(id, unpublish)
    BY <1>1, <2>3 DEF TriggerPublish, TriggerUnpublish, DeleteExtension, Accept, controllerVars
  <2>4. CASE ApiCompletes
    BY <1>1, <1>4, <2>4 DEF ApiCompletes, PatchPublishRequest, PatchUnpublishRequest,
                            DeleteByName, controllerVars
  <2> QED BY <1>6, <2>1, <2>2, <2>3, <2>4 DEF ApiNext
<1> QED BY <1>2, <1>4, <1>5, <1>6 DEF Next, ControllerNext

\* A step of the reconcile that leaves the controller undisturbed has found
\* the Jobs it wanted and its writes made already; it changes nothing of the
\* world, unless it is to collect an artifact that is gone.
LEMMA ReconcileRests ==
    ASSUME TypeInv, Reconcile, Undisturbed'
    PROVE  /\ UNCHANGED <<fe, cache, pjobs, rjobs>>
           /\ ReconcileStart \/ Undisturbed
           /\ UNCHANGED cms \/ DeleteOldArtifact
           /\ ~Notify
<1> USE Parts
<1>0. fe'.uid # 0 /\ ~fe'.deleting /\ ~fe'.unseen /\ queue' # "event"
  BY DEF Undisturbed
<1>1. ~Notify /\ ~Abort
  BY <1>0 DEF Notify, Abort
<1>2. ~CacheSync
  <2>1. CacheSync => fe'.uid = fe.uid
    BY DEF CacheSync, FE
  <2> QED BY <1>0, <2>1 DEF CacheSync
<1>3. fe' = fe /\ cache' = cache
  BY <1>0, <1>2, FeChanges DEF FeWritten, Next, ControllerNext
<1>4. ASSUME queue # "event" PROVE Undisturbed
  BY <1>0, <1>3, <1>4 DEF Undisturbed
<1>5. SetTimer => queue # "event"
  BY <1>0 DEF SetTimer
<1>6. CASE ReconcileStart
  BY <1>1, <1>3, <1>6 DEF ReconcileStart, objectVars
<1>7. CASE CreatePackageJob \/ CreatePublishJob \/ CreateUnpublishJob
  BY <1>0, <1>1, <1>3, <1>4, <1>7 DEF CreatePackageJob, CreatePublishJob, CreateUnpublishJob,
     CreateRequestJob
<1>8. CASE \/ ArtifactFound \/ PackageJobInProgress \/ ReadArtifactAgain
           \/ PackageAttemptsExceeded \/ NextAttempt
           \/ ObservePublishJob \/ KeepFinishedPublish \/ NeedPublishJob
           \/ ObserveUnpublishJob \/ KeepFinishedUnpublish \/ NeedUnpublishJob
  BY <1>0, <1>1, <1>3, <1>4, <1>8 DEF ArtifactFound, PackageJobInProgress, ReadArtifactAgain,
     PackageAttemptsExceeded, NextAttempt, ObservePublishJob, KeepFinishedPublish,
     NeedPublishJob, ObserveUnpublishJob, KeepFinishedUnpublish, NeedUnpublishJob,
     Continue, objectVars
<1>9. StatusDone \/ LabelsOrDone \/ Finish => queue # "event"
  BY <1>0, <1>5 DEF StatusDone, LabelsOrDone, Finish
<1>10. CASE GetLatest \/ PatchStatus \/ GetPatched \/ PatchLabels
  BY <1>0, <1>1, <1>3, <1>4, <1>9, <1>10 DEF GetLatest, PatchStatus, GetPatched, PatchLabels,
     objectVars
<1>11. CASE DeleteFrontendExtension \/ ListOldArtifacts
  BY <1>0, <1>1, <1>3, <1>4, <1>9, <1>11 DEF DeleteFrontendExtension, ListOldArtifacts,
     objectVars
<1>12. CASE DeleteOldArtifact
  BY <1>0, <1>1, <1>3, <1>4, <1>5, <1>12 DEF DeleteOldArtifact
<1> QED BY <1>6, <1>7, <1>8, <1>10, <1>11, <1>12 DEF Reconcile

-----------------------------------------------------------------------------
(* How a reconcile that is right so far goes on.                           *)

\* Another step of the reconcile, all else being the same.
LEMMA GotoIs ==
    ASSUME NEW r \in ReconcileState, NEW pc \in ReconcileSteps,
           NEW q \in {[r EXCEPT !.pc = pc]}
    PROVE  /\ q \in ReconcileState /\ q.pc = pc /\ q.fe = r.fe /\ q.att = r.att
           /\ q.phase = r.phase /\ q.digest = r.digest /\ q.pub = r.pub
           /\ q.status = r.status /\ q.labels = r.labels /\ q.requeue = r.requeue
           /\ q.doomed = r.doomed
BY DEF ReconcileState

\* A reconcile that has decided on a status.
LEMMA WriteIs ==
    ASSUME NEW r \in ReconcileState, NEW status \in Status, NEW requeue \in BOOLEAN,
           NEW q \in {Write(r, status, requeue)}
    PROVE  /\ q \in ReconcileState /\ q.pc = "get" /\ q.status = status
           /\ status.phase = "Ready" => q.fe = r.fe
<1>1. NoReconcile \in ReconcileState /\ AbsentFE \in FE /\ r.fe \in FE
  BY ObjectTypes DEF ReconcileState
<1> DEFINE who == IF status.phase = "Ready" THEN r.fe ELSE AbsentFE
<1>2. who \in FE /\ (status.phase = "Ready" => who = r.fe)
  BY <1>1
<1>3. q = [NoReconcile EXCEPT !.pc = "get", !.status = status, !.requeue = requeue, !.fe = who]
  BY DEF Write
<1> HIDE DEF who
<1>4. q \in ReconcileState /\ q.pc = "get" /\ q.status = status /\ q.fe = who
  BY <1>1, <1>2, <1>3 DEF ReconcileState, ReconcileSteps
<1> QED BY <1>2, <1>4

\* ... works on the FE it read, if its artifact is ready.
LEMMA DecidedGoesOn ==
    ASSUME NEW r \in ReconcileState, NEW status \in Status, NEW requeue \in BOOLEAN,
           Justified(status), status.phase = "Ready" => r.fe = fe
    PROVE  OnTheWay(Write(r, status, requeue))
<1> DEFINE q == Write(r, status, requeue)
<1>1. q.pc = "get" /\ q.status = status /\ (status.phase = "Ready" => q.fe = r.fe)
  BY WriteIs
<1> HIDE DEF q
<1>2. OnTheWay(q)
  BY <1>1 DEF OnTheWay, Decided
<1> QED BY <1>2 DEF q

\* A ready status is as true as what it is made of.
LEMMA ReadyGoesOn ==
    ASSUME NEW r \in ReconcileState, NEW unpublish \in UnpublishStatus,
           NEW requeue \in BOOLEAN,
           Found(r), PublishAnswers(r.pub, r.digest), UnpublishAnswers(unpublish)
    PROVE  OnTheWay(WriteReady(r, unpublish, requeue))
<1>1. /\ r.fe \in FE /\ r.digest \in Maybe(Digests) /\ r.pub \in PublishStatus
      /\ r.requeue \in BOOLEAN
  BY DEF ReconcileState
<1> DEFINE status == ReadyStatus(r.fe, r.digest, r.pub, unpublish)
           publish == ApplyUnpublish(r.pub, unpublish)
<1>2. status \in Status
  BY <1>1, StatusTypes, AbsentTypes
<1>3. publish.phase = r.pub.phase /\ publish.id = r.pub.id
  BY <1>1 DEF ApplyUnpublish, PublishStatus
<1>4. /\ status.phase = "Ready" /\ status.art = r.digest /\ status.pub = publish
      /\ status.unpub = unpublish /\ Observes(status, r.fe)
  BY DEF ReadyStatus, StatusFor, Observes
<1> HIDE DEF publish
<1>5. WriteReady(r, unpublish, requeue) = Write(r, status, r.requeue \/ requeue)
  BY DEF WriteReady
<1> HIDE DEF status
<1>6. PublishAnswers(status.pub, status.art)
  BY <1>3, <1>4 DEF PublishAnswers
<1>7. Justified(status)
  BY <1>4, <1>6 DEF Justified, Found
<1>8. r.fe = fe /\ (r.requeue \/ requeue) \in BOOLEAN
  BY <1>1 DEF Found
<1> QED BY <1>2, <1>5, <1>7, <1>8, DecidedGoesOn

\* The unpublish request is answered, or its Job looked for.
LEMMA SyncUnpublishGoesOn ==
    ASSUME NEW r \in ReconcileState, Found(r), PublishAnswers(r.pub, r.digest)
    PROVE  OnTheWay(SyncUnpublish(r))
<1>1. /\ r.fe \in FE /\ r.fe.status.unpub \in UnpublishStatus
      /\ r.fe.unpub \in Maybe(UnpublishIds) /\ r.fe = fe
  BY DEF ReconcileState, FE, Status, Found
<1>2. CASE r.fe.unpub = None
  <2>1. UnpublishAnswers(r.fe.status.unpub)
    BY <1>1, <1>2 DEF UnpublishAnswers
  <2> QED BY <1>1, <1>2, <2>1, ReadyGoesOn DEF SyncUnpublish
<1>3. CASE r.fe.unpub # None /\ ~r.fe.target
  <2> DEFINE failed == [NoUnpublish EXCEPT !.phase = "Failed", !.id = r.fe.unpub]
  <2>1. failed \in UnpublishStatus /\ failed.id = r.fe.unpub
    BY <1>1 DEF NoUnpublish, UnpublishStatus, JobPhases, Maybe
  <2>2. SyncUnpublish(r) = WriteReady(r, failed, FALSE)
    BY <1>3 DEF SyncUnpublish
  <2> HIDE DEF failed
  <2>3. UnpublishAnswers(failed)
    BY <1>1, <1>3, <2>1 DEF UnpublishAnswers
  <2> QED BY <2>1, <2>2, <2>3, ReadyGoesOn
<1>4. CASE r.fe.unpub # None /\ r.fe.target
  <2> DEFINE q == [r EXCEPT !.pc = "unpublish"]
  <2>1. SyncUnpublish(r) = q
    BY <1>4 DEF SyncUnpublish
  <2>2. q.pc = "unpublish" /\ q.fe = r.fe /\ q.digest = r.digest /\ q.pub = r.pub
    BY GotoIs DEF ReconcileSteps
  <2> HIDE DEF q
  <2>3. OnTheWay(q)
    BY <1>4, <2>2 DEF OnTheWay, Found
  <2> QED BY <2>1, <2>3
<1> QED BY <1>2, <1>3, <1>4

\* The publish request is answered ...
LEMMA PublishedGoesOn ==
    ASSUME NEW r \in ReconcileState, NEW publish \in PublishStatus, NEW requeue \in BOOLEAN,
           Found(r), PublishAnswers(publish, r.digest)
    PROVE  OnTheWay(Published(r, publish, requeue))
<1> DEFINE q == [r EXCEPT !.pub = publish, !.requeue = requeue]
<1>1. /\ q \in ReconcileState /\ q.fe = r.fe /\ q.digest = r.digest /\ q.pub = publish
  BY DEF ReconcileState
<1>2. Published(r, publish, requeue) = SyncUnpublish(q)
  BY DEF Published
<1> HIDE DEF q
<1>3. Found(q) /\ PublishAnswers(q.pub, q.digest)
  BY <1>1 DEF Found
<1> QED BY <1>1, <1>2, <1>3, SyncUnpublishGoesOn

\* ... or passed over, or its Job looked for.
LEMMA SyncPublishGoesOn ==
    ASSUME NEW r \in ReconcileState, Found(r)
    PROVE  OnTheWay(SyncPublish(r))
<1>1. /\ r.fe \in FE /\ r.digest \in Maybe(Digests) /\ r.fe = fe
  BY DEF ReconcileState, Found
<1>2. RetainedPublish(r.fe) \in PublishStatus /\ FailedPublish(r.fe, r.digest) \in PublishStatus
  <2>1. PICK job \in RequestJob : TRUE
    BY ObjectTypes
  <2> QED BY <1>1, <2>1, SectionTypes, AbsentTypes DEF Maybe
<1>3. CASE r.fe.pub.id = None \/ RequestStale(r.fe, r.digest)
  <2>1. PublishAnswers(RetainedPublish(r.fe), r.digest)
    BY <1>1, <1>3 DEF PublishAnswers
  <2> QED BY <1>2, <1>3, <2>1, PublishedGoesOn DEF SyncPublish
<1>4. CASE r.fe.pub.id # None /\ ~RequestStale(r.fe, r.digest) /\ RequestInvalid(r.fe)
  <2>1. FailedPublish(r.fe, r.digest).id = r.fe.pub.id
    BY DEF FailedPublish, NoPublish
  <2>2. PublishAnswers(FailedPublish(r.fe, r.digest), r.digest)
    BY <1>1, <1>4, <2>1 DEF PublishAnswers
  <2> QED BY <1>2, <1>4, <2>2, PublishedGoesOn DEF SyncPublish
<1>5. CASE r.fe.pub.id # None /\ ~RequestStale(r.fe, r.digest) /\ ~RequestInvalid(r.fe)
  <2> DEFINE q == [r EXCEPT !.pc = "publish"]
  <2>1. SyncPublish(r) = q
    BY <1>5 DEF SyncPublish
  <2>2. q.pc = "publish" /\ q.fe = r.fe /\ q.digest = r.digest
    BY GotoIs DEF ReconcileSteps
  <2> HIDE DEF q
  <2>3. OnTheWay(q)
    BY <1>5, <2>2 DEF OnTheWay, Found
  <2> QED BY <2>1, <2>3
<1> QED BY <1>3, <1>4, <1>5

\* The statuses that a reconcile without an artifact writes are for its FE.
LEMMA UnreadyStatuses ==
    ASSUME TypeInv
    PROVE  /\ PackagingStatus(fe) \in Status /\ FailedStatus(fe) \in Status
           /\ PackagingStatus(fe).phase = "Packaging" /\ FailedStatus(fe).phase = "Failed"
           /\ Observes(PackagingStatus(fe), fe) /\ Observes(FailedStatus(fe), fe)
<1>1. PackagingStatus(fe) \in Status /\ FailedStatus(fe) \in Status
  BY Parts, StatusTypes, AbsentTypes DEF Maybe
<1> QED BY <1>1 DEF PackagingStatus, FailedStatus, StatusFor, Observes

-----------------------------------------------------------------------------
(* The steps of the reconcile.                                             *)

\* It starts from the FE as it is and lists the package Jobs.
LEMMA StartGoesOn ==
    ASSUME TypeInv, ReconcileStart, cache = fe, fe.uid # 0, ~fe.deleting
    PROVE  OnTheWay(rc')
<1> USE Parts
<1> DEFINE n == LatestAttempt(fe)
           phase == IF n = 0 THEN "Absent" ELSE pjobs[<<ArtifactKey(fe), n>>].phase
           listed == [NoReconcile EXCEPT !.pc = "artifact", !.fe = fe, !.att = n,
                                         !.phase = phase]
<1>1. rc' = IF fe.src \notin ValidSources THEN Write(listed, FailedStatus(fe), FALSE) ELSE listed
  BY DEF ReconcileStart
<1>2. n \in 0 .. MaxAttempts
  BY LatestAttemptIsLatest
<1>3. phase \in JobPhases
  <2>1. ArtifactKey(fe) \in Keys
    BY DEF TypeInv, Keyed, ArtifactKey, Keys
  <2>2. n # 0 => <<ArtifactKey(fe), n>> \in JobNames
    BY <1>2, <2>1, MaxAttemptsAssumption DEF JobNames, Attempts
  <2>3. \A name \in JobNames : pjobs[name].phase \in JobPhases
    BY DEF PackageJob
  <2> HIDE DEF n
  <2> QED BY <2>2, <2>3 DEF JobPhases
<1>4. phase = IF n = 0 THEN "Absent" ELSE pjobs[<<CurrentKey, n>>].phase
  BY DEF CurrentKey
<1> HIDE DEF n, phase
<1>5. listed \in ReconcileState /\ listed.pc = "artifact" /\ listed.fe = fe /\ listed.att = n
      /\ listed.phase = phase
  BY <1>2, <1>3 DEF ReconcileState, ReconcileSteps
<1> HIDE DEF listed
<1>6. CASE fe.src \notin ValidSources
  <2>1. Justified(FailedStatus(fe))
    BY <1>6, UnreadyStatuses DEF Justified
  <2>2. OnTheWay(Write(listed, FailedStatus(fe), FALSE))
    BY <1>5, <2>1, UnreadyStatuses, DecidedGoesOn
  <2> QED BY <1>1, <1>6, <2>2
<1>7. CASE fe.src \in ValidSources
  <2>1. Listed(listed)
    BY <1>4, <1>5, <1>7 DEF Listed, n
  <2>2. OnTheWay(listed)
    BY <1>5, <2>1 DEF OnTheWay
  <2> QED BY <1>1, <1>7, <2>2
<1> QED BY <1>6, <1>7

\* It looks for the artifact, and at the Job that is to make it.
LEMMA PackagingGoesOn ==
    ASSUME TypeInv, OnTheWay(rc), fe.uid # 0, ~Notify, UNCHANGED cms,
           \/ ArtifactFound \/ PackageJobInProgress \/ ReadArtifactAgain
           \/ PackageAttemptsExceeded \/ NextAttempt \/ CreatePackageJob
    PROVE  OnTheWay(rc')
<1> USE Parts
<1>1. rc.pc \in {"artifact", "artifactAgain", "create"}
  BY DEF ArtifactFound, PackageJobInProgress, ReadArtifactAgain, PackageAttemptsExceeded,
         NextAttempt, CreatePackageJob, NoArtifact, AttemptWasted
<1>2. /\ Listed(rc)
      /\ rc.pc = "artifactAgain" => rc.phase = "Succeeded"
      /\ rc.pc = "create" => rc.att < MaxAttempts
  BY <1>1 DEF OnTheWay
<1>3. /\ rc.fe = fe /\ ArtifactKey(rc.fe) = CurrentKey /\ fe.src \in ValidSources
      /\ rc.att = LatestAttempt(fe) /\ rc.att \in 0 .. MaxAttempts
      /\ rc.phase = IF rc.att = 0 THEN "Absent" ELSE pjobs[<<CurrentKey, rc.att>>].phase
  BY <1>2 DEF Listed, CurrentKey
<1>4. Attempts = 1 .. MaxAttempts /\ MaxAttempts \in Nat \ {0}
  BY MaxAttemptsAssumption DEF Attempts
<1>5. CurrentKey \in Keys
  BY DEF TypeInv, Keyed, CurrentKey, ArtifactKey, Keys
<1>6. \A status \in Status, requeue \in BOOLEAN :
        Justified(status) /\ status.phase # "Ready" => OnTheWay(Write(rc, status, requeue))
  BY DecidedGoesOn
<1>7. ASSUME NEW pc \in {"artifactAgain", "create"}, rc' = [rc EXCEPT !.pc = pc],
             pc = "artifactAgain" => rc.phase = "Succeeded",
             pc = "create" => rc.att < MaxAttempts
      PROVE  OnTheWay(rc')
  <2>1. rc'.pc = pc /\ rc'.fe = rc.fe /\ rc'.att = rc.att /\ rc'.phase = rc.phase
    BY <1>7 DEF ReconcileState
  <2> QED BY <1>2, <1>7, <2>1 DEF OnTheWay, Listed
<1>8. CASE ArtifactFound
  <2> DEFINE q == [rc EXCEPT !.digest = cms[CurrentKey].digest, !.att = 0, !.phase = "Absent"]
  <2>1. cms[CurrentKey].digest \in Maybe(Digests) /\ 0 \in 0 .. MaxAttempts
    BY <1>4, <1>5 DEF ConfigMap
  <2>2. q \in ReconcileState /\ q.fe = fe /\ q.digest = cms[CurrentKey].digest
    BY <1>3, <2>1 DEF ReconcileState, JobPhases
  <2>3. rc' = SyncPublish(q) /\ MatchingArtifact(CurrentKey)
    BY <1>3, <1>8 DEF ArtifactFound, Continue
  <2> HIDE DEF q
  <2>4. Found(q)
    BY <2>2, <2>3 DEF Found
  <2> QED BY <2>2, <2>3, <2>4, SyncPublishGoesOn
<1>9. CASE PackageJobInProgress
  <2>1. rc.phase = "Running" /\ rc' = Write(rc, PackagingStatus(fe), TRUE)
    BY <1>3, <1>9 DEF PackageJobInProgress, Continue
  <2>2. rc.att \in Attempts /\ pjobs[<<CurrentKey, rc.att>>].phase = "Running"
    BY <1>3, <1>4, <2>1
  <2>3. Justified(PackagingStatus(fe))
    BY <2>2, UnreadyStatuses DEF Justified
  <2> QED BY <1>6, <2>1, <2>3, UnreadyStatuses
<1>10. CASE ReadArtifactAgain
  BY <1>7, <1>10 DEF ReadArtifactAgain, Continue
<1>11. CASE PackageAttemptsExceeded
  <2>1. /\ rc.att = MaxAttempts /\ rc' = Write(rc, FailedStatus(fe), FALSE)
        /\ ~MatchingArtifact(CurrentKey) /\ rc.phase \in Terminal
    BY <1>2, <1>3, <1>4, <1>11
       DEF PackageAttemptsExceeded, AttemptWasted, NoArtifact, Continue, Terminal
  <2>2. pjobs[<<CurrentKey, MaxAttempts>>].phase \in Terminal
    BY <1>3, <1>4, <2>1
  <2>3. Justified(FailedStatus(fe))
    BY <2>1, <2>2, UnreadyStatuses DEF Justified
  <2> QED BY <1>6, <2>1, <2>3, UnreadyStatuses
<1>12. CASE NextAttempt
  BY <1>3, <1>4, <1>7, <1>12 DEF NextAttempt, Continue
<1>13. CASE CreatePackageJob
  <2>1. pjobs[<<CurrentKey, rc.att + 1>>].uid # 0 /\ rc' = Write(rc, PackagingStatus(fe), TRUE)
    BY <1>3, <1>13 DEF CreatePackageJob
  <2>2. rc.att + 1 \in Attempts
    BY <1>2, <1>3, <1>4, <1>13 DEF CreatePackageJob
  <2>3. pjobs[<<CurrentKey, rc.att + 1>>].uid # fe.uid
    <3>1. \A n \in Attempts : pjobs[<<CurrentKey, n>>].uid = fe.uid => n <= LatestAttempt(fe)
      BY LatestAttemptIsLatest DEF CurrentKey
    <3> QED BY <1>3, <2>2, <3>1
  <2>4. Orphaned(pjobs[<<CurrentKey, rc.att + 1>>].uid)
    BY <2>1, <2>3 DEF Orphaned
  <2>5. Justified(PackagingStatus(fe))
    BY <2>2, <2>4, UnreadyStatuses DEF Justified
  <2> QED BY <1>6, <2>1, <2>5, UnreadyStatuses
<1> QED BY <1>8, <1>9, <1>10, <1>11, <1>12, <1>13

\* It looks at the Jobs of the requests.
LEMMA RequestsGoOn ==
    ASSUME TypeInv, OnTheWay(rc), fe.uid # 0, ~Notify, UNCHANGED rjobs,
           \/ ObservePublishJob \/ KeepFinishedPublish \/ NeedPublishJob \/ CreatePublishJob
           \/ ObserveUnpublishJob \/ KeepFinishedUnpublish \/ NeedUnpublishJob
           \/ CreateUnpublishJob
    PROVE  OnTheWay(rc')
<1> USE Parts
<1>1. CASE ObservePublishJob \/ KeepFinishedPublish \/ NeedPublishJob \/ CreatePublishJob
  <2>1. rc.pc \in {"publish", "createPublish"}
    BY <1>1 DEF ObservePublishJob, KeepFinishedPublish, NeedPublishJob, CreatePublishJob
  <2>2. Found(rc) /\ rc.fe = fe /\ fe.pub.id \in PublishIds /\ fe.status.pub \in PublishStatus
    BY <2>1 DEF OnTheWay, Found, Maybe, Status
  <2>3. rjobs[fe.pub.id] \in RequestJob
    BY <2>2 DEF RequestIds
  <2>4. ASSUME rjobs[fe.pub.id].uid # 0, rc' = PublishJobSynced(rjobs[fe.pub.id])
        PROVE  OnTheWay(rc')
    <3> DEFINE publish == PublishFromJob(fe.pub.id, rc.digest, rjobs[fe.pub.id])
    <3>1. publish \in PublishStatus /\ publish.id = fe.pub.id
          /\ publish.phase = rjobs[fe.pub.id].phase
      <4>1. rjobs[fe.pub.id].phase \in JobPhases /\ rjobs[fe.pub.id].fin \in Nat
        BY <2>3 DEF RequestJob
      <4> QED BY <4>1 DEF PublishFromJob, PublishStatus
    <3>2. rc' = Published(rc, publish, rjobs[fe.pub.id].phase = "Running")
      BY <2>2, <2>4 DEF PublishJobSynced
    <3> HIDE DEF publish
    <3>3. PublishAnswers(publish, rc.digest)
      BY <3>1 DEF PublishAnswers
    <3> QED BY <2>2, <3>1, <3>2, <3>3, PublishedGoesOn
  <2>5. CASE ObservePublishJob
    BY <2>2, <2>4, <2>5 DEF ObservePublishJob, Continue
  <2>6. CASE CreatePublishJob
    BY <2>2, <2>4, <2>6 DEF CreatePublishJob, CreateRequestJob
  <2>7. CASE KeepFinishedPublish
    <3>1. PublishAnswers(fe.status.pub, rc.digest)
      BY <2>2, <2>7 DEF KeepFinishedPublish, PublishAlreadyFinished, PublishAnswers
    <3>2. rc' = Published(rc, fe.status.pub, FALSE)
      BY <2>2, <2>7 DEF KeepFinishedPublish, Continue
    <3> QED BY <2>2, <3>1, <3>2, PublishedGoesOn
  <2>8. CASE NeedPublishJob
    <3>1. rc'.pc = "createPublish" /\ rc'.fe = rc.fe /\ rc'.digest = rc.digest
      BY <2>8 DEF NeedPublishJob, Continue, ReconcileState
    <3> QED BY <2>1, <2>2, <3>1 DEF OnTheWay, Found
  <2> QED BY <1>1, <2>5, <2>6, <2>7, <2>8
<1>2. CASE \/ ObserveUnpublishJob \/ KeepFinishedUnpublish \/ NeedUnpublishJob
           \/ CreateUnpublishJob
  <2>1. rc.pc \in {"unpublish", "createUnpublish"}
    BY <1>2 DEF ObserveUnpublishJob, KeepFinishedUnpublish, NeedUnpublishJob,
                CreateUnpublishJob
  <2>2. /\ Found(rc) /\ PublishAnswers(rc.pub, rc.digest) /\ rc.fe = fe
        /\ fe.status.unpub \in UnpublishStatus
    BY <2>1 DEF OnTheWay, Found, Status
  <2>3. fe.unpub \in UnpublishIds
    BY <2>1, <2>2 DEF TypeInv, Prepared
  <2>4. rjobs[fe.unpub] \in RequestJob
    BY <2>3 DEF RequestIds
  <2>5. ASSUME rjobs[fe.unpub].uid # 0, rc' = UnpublishJobSynced(rjobs[fe.unpub])
        PROVE  OnTheWay(rc')
    <3> DEFINE unpublish == UnpublishFromJob(fe.unpub, rjobs[fe.unpub])
    <3>1. unpublish \in UnpublishStatus /\ unpublish.id = fe.unpub
          /\ unpublish.phase = rjobs[fe.unpub].phase
      <4>1. rjobs[fe.unpub].phase \in JobPhases /\ rjobs[fe.unpub].fin \in Nat
        BY <2>4 DEF RequestJob
      <4> QED BY <4>1 DEF UnpublishFromJob, UnpublishStatus
    <3>2. rc' = WriteReady(rc, unpublish, rjobs[fe.unpub].phase = "Running")
      BY <2>2, <2>5 DEF UnpublishJobSynced
    <3> HIDE DEF unpublish
    <3>3. UnpublishAnswers(unpublish)
      BY <3>1 DEF UnpublishAnswers
    <3> QED BY <2>2, <3>1, <3>2, <3>3, ReadyGoesOn
  <2>6. CASE ObserveUnpublishJob
    BY <2>2, <2>5, <2>6 DEF ObserveUnpublishJob, Continue
  <2>7. CASE CreateUnpublishJob
    BY <2>2, <2>5, <2>7 DEF CreateUnpublishJob, CreateRequestJob
  <2>8. CASE KeepFinishedUnpublish
    <3>1. UnpublishAnswers(fe.status.unpub)
      BY <2>2, <2>8 DEF KeepFinishedUnpublish, UnpublishAlreadyFinished, UnpublishAnswers
    <3>2. rc' = WriteReady(rc, fe.status.unpub, FALSE)
      BY <2>2, <2>8 DEF KeepFinishedUnpublish, Continue
    <3> QED BY <2>2, <3>1, <3>2, ReadyGoesOn
  <2>9. CASE NeedUnpublishJob
    <3>1. rc'.pc = "createUnpublish" /\ rc'.fe = rc.fe /\ rc'.digest = rc.digest
          /\ rc'.pub = rc.pub
      BY <2>9 DEF NeedUnpublishJob, Continue, ReconcileState
    <3> QED BY <2>2, <3>1 DEF OnTheWay, Found
  <2> QED BY <1>2, <2>6, <2>7, <2>8, <2>9
<1> QED BY <1>1, <1>2

\* When status and labels are written it goes on, or is done.
LEMMA StatusDoneGoesOn ==
    ASSUME TypeInv, StatusDone, InStep, fe.status.phase = rc.status.phase,
           rc.status.phase = "Ready" => rc.fe = fe
    PROVE  OnTheWay(rc')
<1> USE Parts
<1>1. CASE rc.status.phase = "Ready"
  <2>1. rc'.pc = "after" /\ rc'.fe = rc.fe
    BY <1>1 DEF StatusDone, ReconcileState
  <2> QED BY <1>1, <2>1 DEF OnTheWay
<1>2. CASE rc.status.phase # "Ready"
  <2>1. rc'.pc = "idle"
    BY <1>2 DEF StatusDone, Finish, NoReconcile
  <2> QED BY <1>2, <2>1 DEF OnTheWay
<1> QED BY <1>1, <1>2

\* When the status is written the labels follow it.
LEMMA LabelsGoOn ==
    ASSUME TypeInv, LabelsOrDone, Written(rc)
    PROVE  OnTheWay(rc')
<1> USE Parts
<1>1. Observes(fe.status, fe) /\ Justified(fe.status)
  BY DEF Written, Justified
<1>2. CASE fe.labels # StatusLabels(fe.status)
  <2>1. StatusLabels(fe.status) \in Labels
    BY LabelTypes
  <2>2. rc' = [rc EXCEPT !.pc = "labels", !.labels = StatusLabels(fe.status)]
    BY <1>1, <1>2 DEF LabelsOrDone
  <2>3. /\ rc'.pc = "labels" /\ rc'.labels = StatusLabels(fe.status)
        /\ rc'.fe = rc.fe /\ rc'.status = rc.status
    BY <2>1, <2>2 DEF ReconcileState
  <2> QED BY <2>3 DEF OnTheWay, Written
<1>3. CASE fe.labels = StatusLabels(fe.status)
  BY <1>1, <1>3, StatusDoneGoesOn DEF LabelsOrDone, Written, InStep
<1> QED BY <1>2, <1>3

\* What the patch leaves of a justified status is justified.
LEMMA MergedJustified ==
    ASSUME TypeInv, NEW status \in Status, Justified(status), fe.uid # 0
    PROVE  /\ Justified(MergedStatus(fe.status, status))
           /\ MergedStatus(fe.status, status).phase = status.phase
<1> USE Parts
<1> DEFINE merged == MergedStatus(fe.status, status)
<1>1. /\ merged.phase = status.phase /\ merged.gen = status.gen /\ merged.src = status.src
      /\ merged.token = status.token /\ merged.art = status.art
      /\ merged.pub = MergedPublish(fe.status.pub, status.pub)
      /\ merged.unpub = MergedUnpublish(fe.status.unpub, status.unpub)
  BY DEF MergedStatus, Status
<1> HIDE DEF merged
<1>2. /\ merged.pub.phase = status.pub.phase
      /\ status.pub.id # None => merged.pub.id = status.pub.id
  <2>1. status.pub \in PublishStatus
    BY DEF Status
  <2> QED BY <1>1, <2>1 DEF MergedPublish, Or, PublishStatus
<1>3. /\ merged.unpub.phase = status.unpub.phase
      /\ status.unpub.id # None => merged.unpub.id = status.unpub.id
  <2>1. status.unpub \in UnpublishStatus
    BY DEF Status
  <2> QED BY <1>1, <2>1 DEF MergedUnpublish, Or, UnpublishStatus
<1>4. Observes(merged, fe)
  BY <1>1 DEF Observes, Justified
<1>5. PublishAnswers(status.pub, status.art) => PublishAnswers(merged.pub, merged.art)
  BY <1>1, <1>2 DEF PublishAnswers
<1>6. UnpublishAnswers(status.unpub) => UnpublishAnswers(merged.unpub)
  BY <1>3 DEF UnpublishAnswers
<1>7. Justified(merged)
  BY <1>1, <1>4, <1>5, <1>6 DEF Justified
<1> QED BY <1>1, <1>7 DEF merged

\* It writes the status and the labels, if they are not there already.
LEMMA WritesGoOn ==
    ASSUME TypeInv, OnTheWay(rc), fe.uid # 0, ~fe.unseen', UNCHANGED fe,
           GetLatest \/ PatchStatus \/ GetPatched \/ PatchLabels
    PROVE  OnTheWay(rc')
<1> USE Parts
<1>1. CASE GetLatest
  <2>1. Decided(rc)
    BY <1>1 DEF GetLatest, OnTheWay
  <2>2. Observes(rc.status, fe)
    BY <2>1 DEF Decided, Justified
  <2>3. CASE fe.status = rc.status
    <3>1. LabelsOrDone
      BY <1>1, <2>2, <2>3 DEF GetLatest
    <3>2. Written(rc)
      BY <2>1, <2>3 DEF Decided, Written
    <3> QED BY <3>1, <3>2, LabelsGoOn
  <2>4. CASE fe.status # rc.status
    <3>1. rc' = [rc EXCEPT !.pc = "patch"]
      BY <1>1, <2>2, <2>4 DEF GetLatest
    <3>2. rc'.pc = "patch" /\ rc'.fe = rc.fe /\ rc'.status = rc.status
      BY <3>1 DEF ReconcileState
    <3> QED BY <2>1, <3>2 DEF OnTheWay, Decided
  <2> QED BY <2>3, <2>4
<1>2. CASE PatchStatus
  <2>1. Decided(rc)
    BY <1>2 DEF PatchStatus, OnTheWay
  <2> DEFINE merged == MergedStatus(fe.status, rc.status)
  <2>2. merged \in Status /\ Justified(merged) /\ merged.phase = rc.status.phase
    BY <2>1, MergedJustified, StatusTypes, SectionTypes, AbsentTypes DEF Decided, Maybe
  <2>3. fe' = Stored([fe EXCEPT !.status = merged]) /\ rc' = [rc EXCEPT !.pc = "reget"]
    BY <1>2 DEF PatchStatus
  <2> HIDE DEF merged
  <2>4. [fe EXCEPT !.status = merged] \in FE /\ [fe EXCEPT !.status = merged].status = merged
    BY <2>2 DEF FE
  <2>5. fe.status = merged
    BY <2>3, <2>4, StoredSeenLater
  <2>6. rc'.pc = "reget" /\ rc'.fe = rc.fe /\ rc'.status = rc.status
    BY <2>3 DEF ReconcileState
  <2> QED BY <2>1, <2>2, <2>5, <2>6 DEF OnTheWay, Written, Decided
<1>3. CASE GetPatched
  BY <1>3, LabelsGoOn DEF GetPatched, OnTheWay
<1>4. CASE PatchLabels
  <2>1. Written(rc) /\ rc.labels = StatusLabels(fe.status)
    BY <1>4 DEF PatchLabels, OnTheWay
  <2>2. fe' = Stored([fe EXCEPT !.labels = rc.labels]) /\ StatusDone
    BY <1>4 DEF PatchLabels
  <2>3. [fe EXCEPT !.labels = rc.labels] \in FE
        /\ [fe EXCEPT !.labels = rc.labels].labels = rc.labels
    BY DEF FE
  <2>4. fe.labels = rc.labels
    BY <2>2, <2>3, StoredSeenLater
  <2> QED BY <2>1, <2>2, <2>4, StatusDoneGoesOn DEF Written, InStep
<1> QED BY <1>1, <1>2, <1>3, <1>4

\* It lists the old artifacts, and is done if there are none to collect.
LEMMA CollectingGoesOn ==
    ASSUME TypeInv, BirthsDiffer, FinitelyMany, OnTheWay(rc), fe.uid # 0, ListOldArtifacts
    PROVE  OnTheWay(rc')
<1> USE Parts
<1>1. InStep /\ rc.fe = fe
  BY DEF ListOldArtifacts, OnTheWay
<1>2. Observes(fe.status, fe)
  BY <1>1 DEF InStep, Justified
<1> DEFINE doomed == GcCandidates(cms, fe, KeepNames(fe), RetainOld)
<1>3. CASE doomed = {}
  <2>1. rc'.pc = "idle"
    BY <1>1, <1>3 DEF ListOldArtifacts, Finish, NoReconcile
  <2>2. OldArtifactsBounded
    BY <1>2, <1>3, NothingToCollect
  <2> QED BY <1>1, <2>1, <2>2 DEF OnTheWay
<1>4. CASE doomed # {}
  <2>1. \A key \in doomed : key \in Keys /\ cms[key].uid = fe.uid
    <3>1. DOMAIN cms = Keys
      OBVIOUS
    <3> QED BY <3>1, Zenon DEF GcCandidates
  <2>2. rc' = [NoReconcile EXCEPT !.pc = "gc", !.doomed = doomed, !.requeue = rc.requeue]
    BY <1>1, <1>4 DEF ListOldArtifacts
  <2> HIDE DEF doomed
  <2>3. rc'.pc = "gc" /\ rc'.doomed = doomed
    BY <2>2 DEF NoReconcile
  <2> QED BY <1>1, <2>1, <2>3 DEF OnTheWay
<1> QED BY <1>3, <1>4

\* While nothing is on its way to the controller, a reconcile works on the FE
\* there is, and what it has found out stays true until it is written.
LEMMA ReconcileOnTheWay ==
    ASSUME TypeInv, RestInv, Reconcile, Undisturbed'
    PROVE  OnTheWay(rc)'
<1> USE Parts
<1>1. /\ UNCHANGED <<fe, cache, pjobs, rjobs>> /\ ~Notify
      /\ ReconcileStart \/ Undisturbed
      /\ UNCHANGED cms \/ DeleteOldArtifact
  BY ReconcileRests
<1>2. fe.uid # 0 /\ ~fe.deleting /\ ~fe.unseen /\ cache = fe
  BY <1>1 DEF Undisturbed, RestInv, CacheCurrent
<1>3. ReconcileStart \/ OnTheWay(rc)
  BY <1>1 DEF RestInv
<1>4. ~DeleteOldArtifact
  <2> SUFFICES ASSUME DeleteOldArtifact PROVE FALSE
    OBVIOUS
  <2>1. rc.pc = "gc" /\ ~ReconcileStart
    BY DEF DeleteOldArtifact, ReconcileStart
  <2>2. \A key \in rc.doomed : cms[key].uid # 0
    BY <1>3, <2>1 DEF OnTheWay
  <2> QED BY <1>1, <2>2 DEF DeleteOldArtifact
<1>5. ~DeleteFrontendExtension
  <2>1. DeleteFrontendExtension => fe' = Stored(AbsentFE)
    BY <1>2 DEF DeleteFrontendExtension
  <2> QED BY <1>1, <1>2, <2>1, StoredSeenLater
<1>6. OnTheWay(rc')
  <2>1. CASE ReconcileStart
    BY <1>2, <2>1, StartGoesOn
  <2>2. CASE \/ ArtifactFound \/ PackageJobInProgress \/ ReadArtifactAgain
             \/ PackageAttemptsExceeded \/ NextAttempt \/ CreatePackageJob
    <3>1. ~ReconcileStart
      BY <2>2 DEF ReconcileStart, ArtifactFound, PackageJobInProgress, ReadArtifactAgain,
                  PackageAttemptsExceeded, NextAttempt, CreatePackageJob, NoArtifact,
                  AttemptWasted
    <3> QED BY <1>1, <1>2, <1>3, <1>4, <2>2, <3>1, PackagingGoesOn
  <2>3. CASE \/ ObservePublishJob \/ KeepFinishedPublish \/ NeedPublishJob \/ CreatePublishJob
             \/ ObserveUnpublishJob \/ KeepFinishedUnpublish \/ NeedUnpublishJob
             \/ CreateUnpublishJob
    <3>1. ~ReconcileStart
      BY <2>3 DEF ReconcileStart, ObservePublishJob, KeepFinishedPublish, NeedPublishJob,
                  CreatePublishJob, ObserveUnpublishJob, KeepFinishedUnpublish,
                  NeedUnpublishJob, CreateUnpublishJob
    <3> QED BY <1>1, <1>2, <1>3, <2>3, <3>1, RequestsGoOn
  <2>4. CASE GetLatest \/ PatchStatus \/ GetPatched \/ PatchLabels
    <3>1. ~ReconcileStart
      BY <2>4 DEF ReconcileStart, GetLatest, PatchStatus, GetPatched, PatchLabels
    <3> QED BY <1>1, <1>2, <1>3, <2>4, <3>1, WritesGoOn
  <2>5. CASE ListOldArtifacts
    <3>1. ~ReconcileStart
      BY <2>5 DEF ReconcileStart, ListOldArtifacts
    <3> QED BY <1>2, <1>3, <2>5, <3>1, CollectingGoesOn DEF RestInv
  <2> QED BY <1>4, <1>5, <2>1, <2>2, <2>3, <2>4, <2>5 DEF Reconcile
<1>7. SameWorld
  BY <1>1, <1>4 DEF SameWorld
<1> QED BY <1>2, <1>6, <1>7, WorldStays

-----------------------------------------------------------------------------

\* The invariant holds at first: the FE is unseen,
LEMMA RestInit ==
    ASSUME Init
    PROVE  RestInv
<1>1. fe.unseen
  <2>1. PICK source \in Sources, token \in Tokens, target \in Targets :
          fe = NewFE(1, source, token, target)
    BY DEF Init
  <2> QED BY <2>1 DEF NewFE
<1>2. \A key \in Keys : cms[key].uid = 0
  BY DEF Init, NoConfigMap
<1>3. {key \in Keys : cms[key].uid # 0} = {}
  BY <1>2
<1> QED BY <1>1, <1>2, <1>3, FS_EmptySet
        DEF RestInv, CacheCurrent, BirthsDiffer, FinitelyMany, Undisturbed

\* ... and every step preserves it.
LEMMA RestStep ==
    ASSUME TypeInv, RestInv, [Next]_vars
    PROVE  RestInv'
<1>1. CacheCurrent' /\ BirthsDiffer' /\ FinitelyMany'
  BY CacheStep, ArtifactsStep DEF RestInv
<1>2. ASSUME Undisturbed, SameWorld, UNCHANGED rc
      PROVE  OnTheWay(rc)'
  BY <1>2, WorldStays DEF RestInv, Undisturbed
<1>3. Undisturbed' => OnTheWay(rc)'
  <2>1. CASE UNCHANGED vars
    BY <1>2, <2>1 DEF vars, Undisturbed, SameWorld
  <2>2. CASE Next
    BY <1>2, <2>2, OthersRest, ReconcileOnTheWay
  <2> QED BY <2>1, <2>2
<1> QED BY <1>1, <1>3 DEF RestInv

\* So it always holds.
LEMMA RestInvariant == Spec => []RestInv
<1>1. TypeInv /\ RestInv /\ [Next]_vars => RestInv'
  BY RestStep
<1>2. Init => RestInv
  BY RestInit
<1> QED BY <1>1, <1>2, TypeInvariance, PTL DEF Spec

\* When the controller has caught up, status and labels are right.
LEMMA QuietIsInStep ==
    ASSUME RestInv, Quiet
    PROVE  /\ Justified(fe.status) /\ fe.labels = StatusLabels(fe.status)
           /\ fe.status.phase = "Ready" => OldArtifactsBounded
BY DEF RestInv, Quiet, CaughtUp, Undisturbed, OnTheWay, InStep

\* The status of an FE at rest is of its current spec, and its labels say the
\* same, after whatever race of edits, patches and failures.
THEOREM StatusIsCurrent == Spec => []QuietStatusIsCurrent
<1>1. RestInv => QuietStatusIsCurrent
  BY QuietIsInStep DEF QuietStatusIsCurrent, Justified
<1> QED BY <1>1, RestInvariant, PTL

\* A Ready FE at rest can be downloaded with the digest its status gives.
THEOREM ReadyIsDownloadable == Spec => []QuietReadyIsDownloadable
<1>1. RestInv => QuietReadyIsDownloadable
  BY QuietIsInStep DEF QuietReadyIsDownloadable, Justified, MatchingArtifact, CurrentKey
<1> QED BY <1>1, RestInvariant, PTL

\* A Failed FE at rest has an invalid source, or its attempts are used up.
THEOREM FailedHasReason == Spec => []QuietFailedHasReason
<1>1. RestInv => QuietFailedHasReason
  BY QuietIsInStep DEF QuietFailedHasReason, Justified, CurrentKey
<1> QED BY <1>1, RestInvariant, PTL

\* An FE that is Packaging at rest waits for a Job, whose end will be noticed.
THEOREM PackagingHasJob == Spec => []QuietPackagingHasJob
<1>1. RestInv => QuietPackagingHasJob
  BY QuietIsInStep DEF QuietPackagingHasJob, Justified, CurrentKey
<1> QED BY <1>1, RestInvariant, PTL

\* A Ready FE at rest keeps no more old artifacts than are to be retained,
\* however many sources and tokens it has had.
THEOREM OldArtifactsAreBounded == Spec => []QuietOldArtifactsAreBounded
<1>1. RestInv => QuietOldArtifactsAreBounded
  BY QuietIsInStep DEF QuietOldArtifactsAreBounded, OldArtifactsBounded
<1> QED BY <1>1, RestInvariant, PTL

\* A Ready FE at rest has answered its current requests with the phase of
\* their Jobs, and passed over those made for something else.
THEOREM RequestsAreAnswered == Spec => []QuietRequestsAreAnswered
<1>1. RestInv => QuietRequestsAreAnswered
  <2> SUFFICES ASSUME RestInv, Quiet, fe.status.phase = "Ready"
               PROVE  /\ PublishAnswers(fe.status.pub, fe.status.art)
                      /\ UnpublishAnswers(fe.status.unpub)
    BY DEF QuietRequestsAreAnswered, PublishAnswers, UnpublishAnswers
  <2> QED BY QuietIsInStep DEF Justified
<1> QED BY <1>1, RestInvariant, PTL
=============================================================================
