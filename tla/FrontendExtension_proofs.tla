---------------------- MODULE FrontendExtension_proofs ----------------------
(***************************************************************************)
(* Proofs about FrontendExtension, for every value of its constants.       *)
(***************************************************************************)
EXTENDS FrontendExtension, WellFoundedInduction, TLAPS

-----------------------------------------------------------------------------
(* Numbers.                                                                *)

\* Max, of a set of naturals that is not empty and has a bound, is what its
\* name says.
LEMMA MaxOfNaturals ==
    ASSUME NEW S \in SUBSET Nat, S # {}, NEW b \in Nat, \A x \in S : x <= b
    PROVE  Max(S) \in S /\ \A x \in S : x <= Max(S)
<1> DEFINE T == {b - x : x \in S}
           R == OpToRel(<, Nat)
<1>1. T \subseteq Nat
  <2>1. \A x \in S : b - x \in Nat
    OBVIOUS
  <2> QED BY <2>1, Zenon
<1>2. T # {}
  BY Zenon
<1>3. PICK t \in T : \A u \in T : ~(<<u, t>> \in R)
  BY <1>1, <1>2, NatLessThanWellFounded, WFMin, Zenon
<1>4. R = {ss \in Nat \X Nat : ss[1] < ss[2]}
  BY Zenon DEF OpToRel
<1>5. \A u \in T : ~(u < t)
  <2> HIDE DEF R, T
  <2> QED BY <1>1, <1>3, <1>4
<1>6. PICK x \in S : t = b - x
  BY Zenon
<1>7. \A y \in S : b - y \in T
  BY Zenon
<1>8. \A y \in S : y <= x
  BY <1>5, <1>6, <1>7
<1>9. QED
  BY <1>8 DEF Max

\* The latest attempt is one of the attempts, or 0; the FE has a Job of that
\* attempt and none of a later one.
LEMMA LatestAttemptIsLatest ==
    ASSUME NEW x
    PROVE  /\ LatestAttempt(x) \in 0 .. MaxAttempts
           /\ LatestAttempt(x) # 0 =>
                pjobs[<<ArtifactKey(x), LatestAttempt(x)>>].uid = x.uid
           /\ \A n \in Attempts :
                pjobs[<<ArtifactKey(x), n>>].uid = x.uid => n <= LatestAttempt(x)
<1> DEFINE mine == {n \in Attempts : pjobs[<<ArtifactKey(x), n>>].uid = x.uid}
<1>1. MaxAttempts \in Nat /\ Attempts = 1 .. MaxAttempts
  BY MaxAttemptsAssumption DEF Attempts
<1>2. mine \in SUBSET Nat /\ \A n \in mine : n <= MaxAttempts
  BY <1>1
<1>3. LatestAttempt(x) = IF mine = {} THEN 0 ELSE Max(mine)
  BY Zenon DEF LatestAttempt
<1>4. CASE mine = {}
  BY <1>1, <1>3, <1>4
<1>5. CASE mine # {}
  <2>1. Max(mine) \in mine /\ \A n \in mine : n <= Max(mine)
    <3> HIDE DEF mine
    <3> QED BY <1>1, <1>2, <1>5, MaxOfNaturals
  <2> QED BY <1>1, <1>3, <1>5, <2>1
<1>6. QED
  BY <1>4, <1>5

-----------------------------------------------------------------------------
(* Types of what the pure operators return.                                *)

\* The statuses that stand for absence are statuses.
LEMMA AbsentTypes ==
    /\ NoPublish \in PublishStatus /\ NoUnpublish \in UnpublishStatus
    /\ NoStatus \in Status /\ NoRequest \in Request
BY DEF NoPublish, NoUnpublish, NoStatus, NoRequest, PublishStatus,
    UnpublishStatus, Status, Request, JobPhases, Maybe

\* What a reconcile keeps or makes of the publish and unpublish sections.
LEMMA SectionTypes ==
    ASSUME NEW x \in FE, NEW digest \in Maybe(Digests), NEW job \in RequestJob,
           NEW id \in Maybe(PublishIds), NEW uid \in Maybe(UnpublishIds),
           NEW publish \in PublishStatus, NEW unpublish \in UnpublishStatus
    PROVE  /\ RetainedPublish(x) \in PublishStatus
           /\ PublishWithoutArtifact(x) \in PublishStatus
           /\ FailedPublish(x, digest) \in PublishStatus
           /\ PublishFromJob(id, digest, job) \in PublishStatus
           /\ UnpublishFromJob(uid, job) \in UnpublishStatus
           /\ ApplyUnpublish(publish, unpublish) \in PublishStatus
<1>1. x.status.pub \in PublishStatus /\ x.pub.id \in Maybe(PublishIds)
  BY DEF FE, Status, Request
<1>2. RetainedPublish(x) \in PublishStatus
  BY <1>1, AbsentTypes DEF RetainedPublish
<1>3. PublishWithoutArtifact(x) \in PublishStatus
  BY <1>1, <1>2 DEF PublishWithoutArtifact, PublishStatus, NoPublish, JobPhases, Maybe
<1>4. FailedPublish(x, digest) \in PublishStatus
  BY <1>1 DEF FailedPublish, PublishStatus, NoPublish, JobPhases, Maybe
<1>5. PublishFromJob(id, digest, job) \in PublishStatus
  BY DEF PublishFromJob, PublishStatus, RequestJob, JobPhases
<1>6. UnpublishFromJob(uid, job) \in UnpublishStatus
  BY DEF UnpublishFromJob, UnpublishStatus, RequestJob
<1>7. ApplyUnpublish(publish, unpublish) \in PublishStatus
  BY DEF ApplyUnpublish, PublishStatus
<1>8. QED
  BY <1>2, <1>3, <1>4, <1>5, <1>6, <1>7

\* The statuses a reconcile wants and the one its patch leaves.
LEMMA StatusTypes ==
    ASSUME NEW x \in FE, NEW digest \in Maybe(Digests),
           NEW publish \in PublishStatus, NEW unpublish \in UnpublishStatus,
           NEW old \in Status, NEW new \in Status
    PROVE  /\ PackagingStatus(x) \in Status /\ FailedStatus(x) \in Status
           /\ ReadyStatus(x, digest, publish, unpublish) \in Status
           /\ MergedStatus(old, new) \in Status
<1>1. /\ x.gen \in Nat /\ x.src \in Maybe(Sources) /\ x.token \in Maybe(Tokens)
      /\ x.status.unpub \in UnpublishStatus
  BY DEF FE, Status
<1>2. \A phase \in {"Packaging", "Ready", "Failed"}, art \in Maybe(Digests),
         p \in PublishStatus, u \in UnpublishStatus :
            StatusFor(x, phase, art, p, u) \in Status
  BY <1>1 DEF StatusFor, Status
<1>3. PackagingStatus(x) \in Status /\ FailedStatus(x) \in Status
  <2>1. PublishWithoutArtifact(x) \in PublishStatus
    <3>1. PICK job \in RequestJob : TRUE
      <4>1. NoRJob \in RequestJob
        BY DEF NoRJob, RequestJob, JobPhases, Maybe
      <4> QED BY <4>1
    <3> QED BY <3>1, SectionTypes DEF Maybe
  <2> QED BY <1>1, <1>2, <2>1 DEF PackagingStatus, FailedStatus, Maybe
<1>4. ReadyStatus(x, digest, publish, unpublish) \in Status
  <2>1. ApplyUnpublish(publish, unpublish) \in PublishStatus
    BY DEF ApplyUnpublish, PublishStatus
  <2> QED BY <1>2, <2>1 DEF ReadyStatus
<1>5. MergedStatus(old, new) \in Status
  <2>1. MergedPublish(old.pub, new.pub) \in PublishStatus
    BY DEF MergedPublish, Or, Status, PublishStatus
  <2>2. MergedUnpublish(old.unpub, new.unpub) \in UnpublishStatus
    BY DEF MergedUnpublish, Or, Status, UnpublishStatus
  <2> QED BY <2>1, <2>2 DEF MergedStatus, Status
<1>6. QED
  BY <1>3, <1>4, <1>5

\* The labels computed from a status have their type.
LEMMA LabelTypes ==
    ASSUME NEW status \in Status
    PROVE  StatusLabels(status) \in Labels
<1>1. PublishState(status.pub) \in {"publishing", "published", "failed", "not-published"}
  BY DEF PublishState
<1>2. PublishFresh(status) \in BOOLEAN
  BY DEF PublishFresh
<1>3. status.phase \in {"Absent", "Packaging", "Ready", "Failed"}
  BY DEF Status
<1>4. QED
  BY <1>1, <1>2, <1>3 DEF StatusLabels, Labels

-----------------------------------------------------------------------------
(* Types of the objects.                                                   *)

\* The objects that do not exist, and a new FE, have their types.
LEMMA ObjectTypes ==
    /\ NoPJob \in PackageJob /\ NoRJob \in RequestJob /\ NoConfigMap \in ConfigMap
    /\ AbsentFE \in FE /\ NoReconcile \in ReconcileState /\ NoCall \in Call
    /\ NothingInstalled \in Registry
    /\ \A uid \in Uids, src \in Sources, token \in Tokens, target \in BOOLEAN :
          NewFE(uid, src, token, target) \in FE
<1>1. NoPJob \in PackageJob /\ NoRJob \in RequestJob /\ NoConfigMap \in ConfigMap
  BY DEF NoPJob, NoRJob, NoConfigMap, PackageJob, RequestJob, ConfigMap, JobPhases, Maybe
<1>2. \A uid \in Uids, src \in Maybe(Sources), token \in Maybe(Tokens), target \in BOOLEAN :
          NewFE(uid, src, token, target) \in FE
  <2>1. StatusLabels(NoStatus) \in Labels
    BY AbsentTypes, LabelTypes
  <2> QED BY <2>1, AbsentTypes DEF NewFE, FE, Maybe
<1>3. AbsentFE \in FE
  <2>1. NewFE(0, None, None, FALSE) \in FE
    <3>1. 0 \in Uids
      BY BoundsAssumption DEF Uids
    <3> QED BY <1>2, <3>1 DEF Maybe
  <2> QED BY <2>1 DEF AbsentFE, FE
<1>4. NoReconcile \in ReconcileState
  <2>1. StatusLabels(NoStatus) \in Labels
    BY AbsentTypes, LabelTypes
  <2> QED BY <1>3, <2>1, AbsentTypes, MaxAttemptsAssumption
          DEF NoReconcile, ReconcileState, ReconcileSteps, JobPhases, Maybe
<1>5. NoCall \in Call /\ NothingInstalled \in Registry
  BY AbsentTypes DEF NoCall, Call, NothingInstalled, Registry, Maybe
<1>6. QED
  BY <1>1, <1>2, <1>3, <1>4, <1>5 DEF Maybe

\* A write leaves an FE.
LEMMA StoredType ==
    ASSUME fe \in FE, NEW new \in FE
    PROVE  /\ Stored(new) \in FE
           /\ Stored(new).uid = new.uid
           /\ Stored(new).src = new.src /\ Stored(new).token = new.token
BY DEF Stored, FE

-----------------------------------------------------------------------------
(* The inductive invariant behind TypeOK.                                  *)

\* An FE that exists has a source and a rebuild token.
Keyed(x) == x.uid # 0 => x.src \in Sources /\ x.token \in Tokens

WorkSteps ==
    {"artifact", "artifactAgain", "create", "publish", "createPublish",
     "unpublish", "createUnpublish"}

\* A reconcile at work knows its artifact key, and the id of the request whose
\* Job it is about to read or create.
Prepared(r) ==
    /\ r \in ReconcileState
    /\ r.pc \in WorkSteps => ArtifactKey(r.fe) \in Keys
    /\ r.pc \in {"publish", "createPublish"} => r.fe.pub.id \in PublishIds
    /\ r.pc \in {"unpublish", "createUnpublish"} => r.fe.unpub \in UnpublishIds

CallPrepared ==
    api.op \in {"unpublish", "unpublishAndDelete"} => api.id \in UnpublishIds

BirthsBounded == \E b \in Nat : \A key \in Keys : cms[key].born <= b

TypeInv ==
    /\ TypeOK
    /\ Keyed(fe) /\ Keyed(cache)
    /\ Prepared(rc)
    /\ CallPrepared
    /\ BirthsBounded

\* The reconcile that is not running is prepared, and so is one that goes on
\* to write a status.
LEMMA WritePrepared ==
    /\ Prepared(NoReconcile)
    /\ \A r \in ReconcileState, status \in Status, requeue \in BOOLEAN :
          Prepared(Write(r, status, requeue))
<1>1. NoReconcile \in ReconcileState /\ AbsentFE \in FE
  BY ObjectTypes
<1>2. Prepared(NoReconcile)
  BY <1>1 DEF Prepared, NoReconcile, WorkSteps
<1>3. ASSUME NEW r \in ReconcileState, NEW status \in Status, NEW requeue \in BOOLEAN
      PROVE  Prepared(Write(r, status, requeue))
  <2>1. r.fe \in FE
    BY DEF ReconcileState
  <2>2. Write(r, status, requeue) \in ReconcileState
    BY <1>1, <2>1 DEF Write, ReconcileState, ReconcileSteps
  <2>3. Write(r, status, requeue).pc = "get"
    BY <1>1 DEF Write, ReconcileState
  <2> QED BY <2>2, <2>3 DEF Prepared, WorkSteps
<1>4. QED
  BY <1>2, <1>3

\* A reconcile that has found its artifact goes on prepared.
LEMMA SyncPrepared ==
    ASSUME NEW r \in ReconcileState, ArtifactKey(r.fe) \in Keys
    PROVE  /\ \A unpublish \in UnpublishStatus, requeue \in BOOLEAN :
                Prepared(WriteReady(r, unpublish, requeue))
           /\ \A publish \in PublishStatus, requeue \in BOOLEAN :
                Prepared(Published(r, publish, requeue))
           /\ Prepared(SyncPublish(r))
<1>0. PICK job \in RequestJob : TRUE
  BY ObjectTypes
<1>1. ASSUME NEW q \in ReconcileState, NEW unpublish \in UnpublishStatus,
             NEW requeue \in BOOLEAN
      PROVE  Prepared(WriteReady(q, unpublish, requeue))
  <2>1. q.fe \in FE /\ q.digest \in Maybe(Digests) /\ q.pub \in PublishStatus
        /\ q.requeue \in BOOLEAN
    BY DEF ReconcileState
  <2>2. ReadyStatus(q.fe, q.digest, q.pub, unpublish) \in Status
    BY <2>1, StatusTypes, AbsentTypes
  <2> QED BY <2>1, <2>2, WritePrepared DEF WriteReady
<1>2. ASSUME NEW q \in ReconcileState, ArtifactKey(q.fe) \in Keys
      PROVE  Prepared(SyncUnpublish(q))
  <2>1. q.fe \in FE /\ q.fe.status.unpub \in UnpublishStatus
        /\ q.fe.unpub \in Maybe(UnpublishIds)
    BY DEF ReconcileState, FE, Status
  <2>2. [NoUnpublish EXCEPT !.phase = "Failed", !.id = q.fe.unpub] \in UnpublishStatus
    BY <2>1 DEF NoUnpublish, UnpublishStatus, JobPhases, Maybe
  <2>3. CASE q.fe.unpub = None
    BY <1>1, <2>1, <2>3 DEF SyncUnpublish
  <2>4. CASE q.fe.unpub # None /\ ~q.fe.target
    BY <1>1, <2>2, <2>4 DEF SyncUnpublish
  <2>5. CASE q.fe.unpub # None /\ q.fe.target
    <3>1. SyncUnpublish(q) = [q EXCEPT !.pc = "unpublish"]
      BY <2>5 DEF SyncUnpublish
    <3> QED BY <1>2, <2>1, <2>5, <3>1
            DEF Prepared, ReconcileState, ReconcileSteps, WorkSteps, Maybe
  <2> QED BY <2>3, <2>4, <2>5
<1>3. ASSUME NEW publish \in PublishStatus, NEW requeue \in BOOLEAN
      PROVE  Prepared(Published(r, publish, requeue))
  <2> DEFINE q == [r EXCEPT !.pub = publish, !.requeue = requeue]
  <2>1. q \in ReconcileState /\ q.fe = r.fe
    BY DEF ReconcileState
  <2>2. Prepared(SyncUnpublish(q))
    BY <1>2, <2>1
  <2> QED BY <2>2 DEF Published
<1>4. Prepared(SyncPublish(r))
  <2>1. r.fe \in FE /\ r.digest \in Maybe(Digests) /\ r.fe.pub.id \in Maybe(PublishIds)
    BY DEF ReconcileState, FE, Request
  <2>2. RetainedPublish(r.fe) \in PublishStatus /\ FailedPublish(r.fe, r.digest) \in PublishStatus
    BY <1>0, <2>1, SectionTypes, AbsentTypes DEF Maybe
  <2>3. CASE r.fe.pub.id = None \/ RequestStale(r.fe, r.digest)
    BY <1>3, <2>2, <2>3 DEF SyncPublish
  <2>4. CASE r.fe.pub.id # None /\ ~RequestStale(r.fe, r.digest) /\ RequestInvalid(r.fe)
    BY <1>3, <2>2, <2>4 DEF SyncPublish
  <2>5. CASE r.fe.pub.id # None /\ ~RequestStale(r.fe, r.digest) /\ ~RequestInvalid(r.fe)
    <3>1. SyncPublish(r) = [r EXCEPT !.pc = "publish"]
      BY <2>5 DEF SyncPublish
    <3> QED BY <2>1, <2>5, <3>1
            DEF Prepared, ReconcileState, ReconcileSteps, WorkSteps, Maybe
  <2> QED BY <2>3, <2>4, <2>5
<1>5. QED
  BY <1>1, <1>3, <1>4

\* The initial states satisfy the inductive type invariant.
LEMMA TypeInvInit == Init => TypeInv
<1> SUFFICES ASSUME Init PROVE TypeInv
  OBVIOUS
<1>1. PICK source \in Sources, token \in Tokens, target \in Targets :
          fe = NewFE(1, source, token, target)
  BY DEF Init
<1>2. fe \in FE /\ fe.src \in Sources /\ fe.token \in Tokens
  <2>1. fe \in FE
    <3>1. 1 \in Uids
      BY BoundsAssumption DEF Uids
    <3> QED BY <1>1, <3>1, ObjectTypes, TargetsAssumption
  <2> QED BY <1>1, <2>1 DEF NewFE
<1>3. cache \in FE /\ cache.uid = 0
  BY ObjectTypes DEF Init, AbsentFE, NewFE
<1>4. TypeOK
  BY <1>2, <1>3, ObjectTypes, BoundsAssumption DEF Init, TypeOK
<1>5. Prepared(rc)
  BY WritePrepared DEF Init
<1>6. CallPrepared /\ BirthsBounded
  BY DEF Init, CallPrepared, NoCall, BirthsBounded, NoConfigMap
<1>7. QED
  BY <1>2, <1>3, <1>4, <1>5, <1>6 DEF TypeInv, Keyed

\* What a step of the reconcile has to establish when it changes nothing but
\* the reconcile and the queue.
LEMMA ReconcileOnly ==
    ASSUME TypeInv, Prepared(rc'), queue' \in {"empty", "timer", "event"},
           UNCHANGED <<fe, cache, objectVars, registry, clock, api>>,
           events' \in 0 .. MaxEvents
    PROVE  TypeInv'
<1>1. TypeOK'
  BY DEF TypeInv, TypeOK, Prepared, objectVars
<1>2. Keyed(fe)' /\ Keyed(cache)' /\ Prepared(rc)' /\ CallPrepared' /\ BirthsBounded'
  BY DEF TypeInv, Keyed, CallPrepared, BirthsBounded, objectVars
<1>3. QED
  BY <1>1, <1>2 DEF TypeInv

\* The parts of the invariant that the steps of the reconcile use.
LEMMA ReconcileTypes ==
    ASSUME TypeInv
    PROVE  /\ rc \in ReconcileState
           /\ rc.fe \in FE /\ rc.status \in Status /\ rc.labels \in Labels
           /\ rc.requeue \in BOOLEAN
           /\ fe \in FE /\ fe.status \in Status /\ fe.status.pub \in PublishStatus
           /\ queue \in {"empty", "timer", "event"}
           /\ events \in 0 .. MaxEvents
BY DEF TypeInv, TypeOK, ReconcileState, FE, Status

\* A reconcile that ends, one way or another, and one that goes on to a step
\* that has nothing to be prepared for.
LEMMA EndTypes ==
    ASSUME TypeInv
    PROVE  /\ Finish => Prepared(rc') /\ queue' \in {"empty", "timer", "event"}
           /\ Abort => Prepared(rc') /\ queue' \in {"empty", "timer", "event"}
           /\ StatusDone => Prepared(rc') /\ queue' \in {"empty", "timer", "event"}
           /\ LabelsOrDone => Prepared(rc') /\ queue' \in {"empty", "timer", "event"}
           /\ \A pc \in {"patch", "reget", "after"} : Prepared([rc EXCEPT !.pc = pc])
<1> USE ReconcileTypes
<1>1. Finish => Prepared(rc') /\ queue' \in {"empty", "timer", "event"}
  BY WritePrepared DEF Finish, SetTimer
<1>2. Abort => Prepared(rc') /\ queue' \in {"empty", "timer", "event"}
  BY WritePrepared DEF Abort, Notify
<1>3. \A pc \in {"patch", "reget", "after"} : Prepared([rc EXCEPT !.pc = pc])
  BY DEF Prepared, ReconcileState, ReconcileSteps, WorkSteps
<1>4. StatusDone => Prepared(rc') /\ queue' \in {"empty", "timer", "event"}
  BY <1>1, <1>3 DEF StatusDone
<1>5. Prepared([rc EXCEPT !.pc = "labels", !.labels = StatusLabels(fe.status)])
  BY LabelTypes DEF Prepared, ReconcileState, ReconcileSteps, WorkSteps
<1>6. LabelsOrDone => Prepared(rc') /\ queue' \in {"empty", "timer", "event"}
  BY <1>4, <1>5 DEF LabelsOrDone
<1>7. QED
  BY <1>1, <1>2, <1>3, <1>4, <1>6

\* Packaging.
LEMMA PackagingStep ==
    ASSUME TypeInv,
           \/ ReconcileStart \/ ArtifactFound \/ PackageJobInProgress \/ ReadArtifactAgain
           \/ PackageAttemptsExceeded \/ NextAttempt \/ CreatePackageJob
    PROVE  TypeInv'
<1> USE ReconcileTypes
<1>1. CASE ReconcileStart
  <2> DEFINE n == LatestAttempt(cache)
             listed == [NoReconcile EXCEPT
                          !.pc = "artifact", !.fe = cache, !.att = n,
                          !.phase = IF n = 0 THEN "Absent"
                                    ELSE pjobs[<<ArtifactKey(cache), n>>].phase]
  <2>1. cache \in FE /\ ArtifactKey(cache) \in Keys
    BY <1>1 DEF ReconcileStart, TypeInv, TypeOK, Keyed, ArtifactKey, Keys
  <2>2. n \in 0 .. MaxAttempts
    BY LatestAttemptIsLatest
  <2>3. n # 0 => pjobs[<<ArtifactKey(cache), n>>].phase \in JobPhases
    <3>1. n # 0 => <<ArtifactKey(cache), n>> \in JobNames
      BY <2>1, <2>2, MaxAttemptsAssumption DEF JobNames, Attempts
    <3>2. pjobs \in [JobNames -> PackageJob]
      BY DEF TypeInv, TypeOK
    <3> HIDE DEF n
    <3> QED BY <3>1, <3>2 DEF PackageJob
  <2>4. listed \in ReconcileState /\ listed.fe = cache
    <3> HIDE DEF n
    <3> QED BY <2>1, <2>2, <2>3, ObjectTypes
            DEF ReconcileState, ReconcileSteps, JobPhases
  <2>5. Prepared(listed)
    <3>1. listed.pc = "artifact"
      <4> HIDE DEF n
      <4> QED BY ObjectTypes DEF ReconcileState
    <3> HIDE DEF listed
    <3> QED BY <2>1, <2>4, <3>1 DEF Prepared, WorkSteps
  <2>6. Prepared(Write(listed, FailedStatus(cache), FALSE))
    <3>1. FailedStatus(cache) \in Status
      BY <2>1, StatusTypes, AbsentTypes DEF Maybe
    <3> HIDE DEF listed
    <3> QED BY <2>4, <3>1, WritePrepared
  <2>7. rc' \in {NoReconcile, Write(listed, FailedStatus(cache), FALSE), listed}
    <3>1. rc' = CASE cache.deleting -> NoReconcile
                  [] cache.src \notin ValidSources ->
                        Write(listed, FailedStatus(cache), FALSE)
                  [] OTHER -> listed
      BY <1>1, Zenon DEF ReconcileStart
    <3> HIDE DEF listed
    <3> QED BY <3>1
  <2>8. Prepared(rc')
    <3> HIDE DEF listed
    <3> QED BY <2>5, <2>6, <2>7, WritePrepared
  <2>9. /\ queue' \in {"empty", "timer", "event"} /\ events' \in 0 .. MaxEvents
        /\ UNCHANGED <<fe, cache, objectVars, registry, clock, api>>
    BY <1>1 DEF ReconcileStart
  <2> QED BY <2>8, <2>9, ReconcileOnly
<1>2. CASE ArtifactFound
  <2> DEFINE q == [rc EXCEPT !.digest = cms[ArtifactKey(rc.fe)].digest,
                             !.att = 0, !.phase = "Absent"]
  <2>1. ArtifactKey(rc.fe) \in Keys
    BY <1>2 DEF ArtifactFound, TypeInv, Prepared, WorkSteps
  <2>2. cms[ArtifactKey(rc.fe)].digest \in Maybe(Digests)
    BY <2>1 DEF TypeInv, TypeOK, ConfigMap
  <2>3. q \in ReconcileState /\ q.fe = rc.fe
    <3>1. \A d \in Maybe(Digests) :
             LET r == [rc EXCEPT !.digest = d, !.att = 0, !.phase = "Absent"]
             IN  r \in ReconcileState /\ r.fe = rc.fe
      <4>1. 0 \in 0 .. MaxAttempts /\ "Absent" \in JobPhases
        BY MaxAttemptsAssumption DEF JobPhases
      <4> QED BY <4>1 DEF ReconcileState
    <3> QED BY <2>2, <3>1
  <2>4. Prepared(SyncPublish(q))
    <3> HIDE DEF q
    <3> QED BY <2>1, <2>3, SyncPrepared
  <2> QED BY <1>2, <2>4, ReconcileOnly DEF ArtifactFound, Continue
<1>3. PackagingStatus(rc.fe) \in Status /\ FailedStatus(rc.fe) \in Status
  BY StatusTypes, AbsentTypes DEF Maybe
<1>4. CASE PackageJobInProgress
  BY <1>3, <1>4, WritePrepared, ReconcileOnly DEF PackageJobInProgress, Continue
<1>5. CASE ReadArtifactAgain
  <2>1. Prepared([rc EXCEPT !.pc = "artifactAgain"])
    BY <1>5 DEF ReadArtifactAgain, NoArtifact, TypeInv, Prepared, ReconcileState,
                ReconcileSteps, WorkSteps
  <2> QED BY <1>5, <2>1, ReconcileOnly DEF ReadArtifactAgain, Continue
<1>6. CASE PackageAttemptsExceeded
  BY <1>3, <1>6, WritePrepared, ReconcileOnly DEF PackageAttemptsExceeded, Continue
<1>7. CASE NextAttempt
  <2>1. Prepared([rc EXCEPT !.pc = "create"])
    BY <1>7 DEF NextAttempt, AttemptWasted, NoArtifact, TypeInv, Prepared,
                ReconcileState, ReconcileSteps, WorkSteps
  <2> QED BY <1>7, <2>1, ReconcileOnly DEF NextAttempt, Continue
<1>8. CASE CreatePackageJob
  <2>1. Prepared(rc')
    BY <1>3, <1>8, WritePrepared DEF CreatePackageJob
  <2>2. [NoPJob EXCEPT !.uid = rc.fe.uid, !.phase = "Running", !.pod = "new"] \in PackageJob
    <3>1. rc.fe.uid \in Nat
      BY BoundsAssumption DEF FE, Uids
    <3> QED BY <3>1, ObjectTypes DEF PackageJob, JobPhases
  <2>3. pjobs' \in [JobNames -> PackageJob]
    BY <1>8, <2>2 DEF CreatePackageJob, TypeInv, TypeOK
  <2>4. queue' \in {"empty", "timer", "event"}
    BY <1>8 DEF CreatePackageJob, Notify
  <2> QED BY <1>8, <2>1, <2>3, <2>4
          DEF CreatePackageJob, TypeInv, TypeOK, Prepared, Keyed, CallPrepared, BirthsBounded
<1>9. QED
  BY <1>1, <1>2, <1>4, <1>5, <1>6, <1>7, <1>8

\* Publish and unpublish.
LEMMA RequestStep ==
    ASSUME TypeInv,
           \/ ObservePublishJob \/ KeepFinishedPublish
           \/ NeedPublishJob \/ CreatePublishJob
           \/ ObserveUnpublishJob \/ KeepFinishedUnpublish
           \/ NeedUnpublishJob \/ CreateUnpublishJob
    PROVE  TypeInv'
<1> USE ReconcileTypes
<1>1. rc.pc \in WorkSteps /\ ArtifactKey(rc.fe) \in Keys
  BY DEF ObservePublishJob, KeepFinishedPublish, NeedPublishJob, CreatePublishJob,
         ObserveUnpublishJob, KeepFinishedUnpublish, NeedUnpublishJob,
         CreateUnpublishJob, TypeInv, Prepared, WorkSteps
<1>2. /\ rc.fe.status.pub \in PublishStatus /\ rc.fe.status.unpub \in UnpublishStatus
      /\ rc.fe.pub.id \in Maybe(PublishIds) /\ rc.fe.unpub \in Maybe(UnpublishIds)
      /\ rc.digest \in Maybe(Digests) /\ rc.fe.uid \in Nat
      /\ rjobs \in [RequestIds -> RequestJob]
  BY BoundsAssumption DEF FE, Status, Request, ReconcileState, TypeInv, TypeOK, Uids
<1>3. ASSUME NEW job \in RequestJob
      PROVE  Prepared(PublishJobSynced(job)) /\ Prepared(UnpublishJobSynced(job))
  <2>1. PublishFromJob(rc.fe.pub.id, rc.digest, job) \in PublishStatus
    BY <1>2, SectionTypes
  <2>2. UnpublishFromJob(rc.fe.unpub, job) \in UnpublishStatus
    BY <1>2, SectionTypes
  <2> QED BY <1>1, <2>1, <2>2, SyncPrepared DEF PublishJobSynced, UnpublishJobSynced
<1>4. CASE ObservePublishJob
  <2>1. rjobs[rc.fe.pub.id] \in RequestJob
    BY <1>2, <1>4 DEF ObservePublishJob, TypeInv, Prepared, RequestIds
  <2> QED BY <1>3, <1>4, <2>1, ReconcileOnly DEF ObservePublishJob, Continue
<1>5. CASE KeepFinishedPublish
  BY <1>1, <1>2, <1>5, SyncPrepared, ReconcileOnly DEF KeepFinishedPublish, Continue
<1>6. CASE NeedPublishJob
  <2>1. Prepared([rc EXCEPT !.pc = "createPublish"])
    BY <1>1, <1>6 DEF NeedPublishJob, TypeInv, Prepared, ReconcileState,
                      ReconcileSteps, WorkSteps
  <2> QED BY <1>6, <2>1, ReconcileOnly DEF NeedPublishJob, Continue
<1>7. CASE ObserveUnpublishJob
  <2>1. rjobs[rc.fe.unpub] \in RequestJob
    BY <1>2, <1>7 DEF ObserveUnpublishJob, TypeInv, Prepared, RequestIds
  <2> QED BY <1>3, <1>7, <2>1, ReconcileOnly DEF ObserveUnpublishJob, Continue
<1>8. CASE KeepFinishedUnpublish
  BY <1>1, <1>2, <1>8, SyncPrepared, ReconcileOnly DEF KeepFinishedUnpublish, Continue
<1>9. CASE NeedUnpublishJob
  <2>1. Prepared([rc EXCEPT !.pc = "createUnpublish"])
    BY <1>1, <1>9 DEF NeedUnpublishJob, TypeInv, Prepared, ReconcileState,
                      ReconcileSteps, WorkSteps
  <2> QED BY <1>9, <2>1, ReconcileOnly DEF NeedUnpublishJob, Continue
<1>10. ASSUME NEW id \in RequestIds, NEW job \in RequestJob, CreateRequestJob(id, job)
       PROVE  /\ rjobs' \in [RequestIds -> RequestJob] /\ rjobs'[id] \in RequestJob
              /\ Prepared(rc') => TypeInv'
  <2>1. /\ rjobs' \in {rjobs, [rjobs EXCEPT ![id] = job]}
        /\ queue' \in {"event", queue}
        /\ UNCHANGED <<fe, cache, pjobs, cms, registry, clock, api, events>>
    BY <1>10, Zenon DEF CreateRequestJob, Notify
  <2>2. rjobs' \in [RequestIds -> RequestJob]
    BY <1>2, <2>1
  <2> QED BY <2>1, <2>2
          DEF TypeInv, TypeOK, Prepared, Keyed, CallPrepared, BirthsBounded
<1>11. CASE CreatePublishJob
  <2> DEFINE new == [NoRJob EXCEPT !.uid = rc.fe.uid, !.phase = "Running",
                                   !.digest = rc.digest, !.key = ArtifactKey(rc.fe)]
  <2>1. rc.fe.pub.id \in RequestIds
    BY <1>11 DEF CreatePublishJob, TypeInv, Prepared, RequestIds
  <2>2. new \in RequestJob
    BY <1>1, <1>2, ObjectTypes DEF RequestJob, JobPhases, Maybe
  <2>3. CreateRequestJob(rc.fe.pub.id, new) /\ rc' = PublishJobSynced(rjobs'[rc.fe.pub.id])
    BY <1>11, Zenon DEF CreatePublishJob
  <2> HIDE DEF new
  <2> QED BY <1>3, <1>10, <2>1, <2>2, <2>3
<1>12. CASE CreateUnpublishJob
  <2> DEFINE new == [NoRJob EXCEPT !.uid = rc.fe.uid, !.phase = "Running"]
  <2>1. rc.fe.unpub \in RequestIds
    BY <1>12 DEF CreateUnpublishJob, TypeInv, Prepared, RequestIds
  <2>2. new \in RequestJob
    BY <1>2, ObjectTypes DEF RequestJob, JobPhases
  <2>3. CreateRequestJob(rc.fe.unpub, new) /\ rc' = UnpublishJobSynced(rjobs'[rc.fe.unpub])
    BY <1>12, Zenon DEF CreateUnpublishJob
  <2> HIDE DEF new
  <2> QED BY <1>3, <1>10, <2>1, <2>2, <2>3
<1>13. QED
  BY <1>4, <1>5, <1>6, <1>7, <1>8, <1>9, <1>11, <1>12

\* A step that changes the FE, and of the rest only the reconcile and queue.
LEMMA FEChanges ==
    ASSUME TypeInv, fe' \in FE, Keyed(fe)', cache' \in FE, Keyed(cache)',
           Prepared(rc'), queue' \in {"empty", "timer", "event"},
           UNCHANGED <<objectVars, registry, clock>>,
           api' \in Call, CallPrepared', events' \in 0 .. MaxEvents
    PROVE  TypeInv'
<1>1. TypeOK'
  BY DEF TypeInv, TypeOK, Prepared, objectVars
<1>2. BirthsBounded'
  BY DEF TypeInv, BirthsBounded, objectVars
<1>3. QED
  BY <1>1, <1>2 DEF TypeInv

\* A write by name of a part of the FE that is neither its source nor its
\* token.
LEMMA StoredKeyed ==
    ASSUME TypeInv, NEW new \in FE, new.uid = fe.uid, new.src = fe.src,
           new.token = fe.token, fe' = Stored(new)
    PROVE  fe' \in FE /\ Keyed(fe)'
<1>1. fe \in FE /\ Keyed(fe)
  BY DEF TypeInv, TypeOK
<1>2. QED
  BY <1>1, StoredType DEF Keyed

\* What a write stores when it removes the FE has its type and is keyed.
LEMMA StoredAbsent ==
    ASSUME TypeInv, fe' = Stored(AbsentFE)
    PROVE  fe' \in FE /\ Keyed(fe)'
<1>1. fe \in FE
  BY DEF TypeInv, TypeOK
<1>2. AbsentFE \in FE /\ AbsentFE.uid = 0
  BY ObjectTypes DEF AbsentFE, NewFE
<1>3. QED
  BY <1>1, <1>2, StoredType DEF Keyed

\* The status, the labels and what follows them.
LEMMA StatusStep ==
    ASSUME TypeInv,
           \/ GetLatest \/ PatchStatus \/ GetPatched \/ PatchLabels
           \/ DeleteFrontendExtension \/ ListOldArtifacts \/ DeleteOldArtifact
    PROVE  TypeInv'
<1> USE ReconcileTypes
<1>0. api \in Call /\ CallPrepared /\ cache \in FE /\ Keyed(cache) /\ Keyed(fe)
  BY DEF TypeInv, TypeOK
<1>1. CASE GetLatest
  <2>1. Prepared(rc') /\ queue' \in {"empty", "timer", "event"}
    <3>1. \/ Abort \/ StatusDone \/ LabelsOrDone
          \/ rc' = [rc EXCEPT !.pc = "patch"] /\ UNCHANGED queue
      BY <1>1 DEF GetLatest
    <3> QED BY <3>1, EndTypes
  <2> QED BY <1>1, <2>1, ReconcileOnly DEF GetLatest
<1>2. CASE PatchStatus
  <2>1. Prepared(rc') /\ queue' \in {"empty", "timer", "event"}
    BY <1>2, EndTypes DEF PatchStatus
  <2>2. fe' \in FE /\ Keyed(fe)'
    <3>1. MergedStatus(fe.status, rc.status) \in Status
      BY StatusTypes, AbsentTypes DEF Maybe
    <3>2. \A status \in Status :
             LET new == [fe EXCEPT !.status = status]
             IN  /\ new \in FE /\ new.uid = fe.uid
                 /\ new.src = fe.src /\ new.token = fe.token
      BY DEF FE
    <3>3. CASE fe.uid = 0
      BY <1>0, <1>2, <3>3 DEF PatchStatus, Keyed
    <3>4. CASE fe.uid # 0
      <4>1. fe' = Stored([fe EXCEPT !.status = MergedStatus(fe.status, rc.status)])
        BY <1>2, <3>4 DEF PatchStatus
      <4> QED BY <3>1, <3>2, <4>1, StoredKeyed
    <3> QED BY <3>3, <3>4
  <2>3. UNCHANGED <<cache, objectVars, registry, clock, api, events>>
    BY <1>2 DEF PatchStatus
  <2>4. Keyed(cache)' /\ CallPrepared'
    BY <1>0, <2>3 DEF Keyed, CallPrepared
  <2> QED BY <1>0, <2>1, <2>2, <2>3, <2>4, FEChanges
<1>3. CASE GetPatched
  BY <1>3, EndTypes, ReconcileOnly DEF GetPatched
<1>4. CASE PatchLabels
  <2>1. Prepared(rc') /\ queue' \in {"empty", "timer", "event"}
    BY <1>4, EndTypes DEF PatchLabels
  <2>2. fe' \in FE /\ Keyed(fe)'
    <3>1. LET new == [fe EXCEPT !.labels = rc.labels]
          IN  /\ new \in FE /\ new.uid = fe.uid
              /\ new.src = fe.src /\ new.token = fe.token
      BY DEF FE
    <3>2. fe' = fe \/ fe' = Stored([fe EXCEPT !.labels = rc.labels])
      BY <1>4 DEF PatchLabels
    <3> QED BY <1>0, <3>1, <3>2, StoredKeyed DEF Keyed
  <2>3. UNCHANGED <<cache, objectVars, registry, clock, api, events>>
    BY <1>4 DEF PatchLabels
  <2>4. Keyed(cache)' /\ CallPrepared'
    BY <1>0, <2>3 DEF Keyed, CallPrepared
  <2> QED BY <1>0, <2>1, <2>2, <2>3, <2>4, FEChanges
<1>5. CASE DeleteFrontendExtension
  <2>1. Prepared(rc') /\ queue' \in {"empty", "timer", "event"}
    BY <1>5, EndTypes, WritePrepared DEF DeleteFrontendExtension
  <2>2. fe' \in FE /\ Keyed(fe)'
    BY <1>0, <1>5, StoredAbsent DEF DeleteFrontendExtension, Keyed
  <2>3. UNCHANGED <<cache, objectVars, registry, clock, api, events>>
    BY <1>5 DEF DeleteFrontendExtension
  <2>4. Keyed(cache)' /\ CallPrepared'
    BY <1>0, <2>3 DEF Keyed, CallPrepared
  <2> QED BY <1>0, <2>1, <2>2, <2>3, <2>4, FEChanges
<1>6. CASE ListOldArtifacts
  <2> DEFINE doomed == GcCandidates(cms, rc.fe, KeepNames(rc.fe), RetainOld)
  <2>1. doomed \in SUBSET Keys
    <3>1. DOMAIN cms = Keys
      BY DEF TypeInv, TypeOK
    <3> QED BY <3>1 DEF GcCandidates
  <2>2. \A d \in SUBSET Keys :
           Prepared([NoReconcile EXCEPT !.pc = "gc", !.doomed = d, !.requeue = rc.requeue])
    BY ObjectTypes DEF Prepared, ReconcileState, ReconcileSteps, WorkSteps
  <2>3. \/ Finish
        \/ /\ rc' = [NoReconcile EXCEPT !.pc = "gc", !.doomed = doomed,
                                        !.requeue = rc.requeue]
           /\ UNCHANGED queue
    BY <1>6 DEF ListOldArtifacts
  <2>4. Prepared(rc') /\ queue' \in {"empty", "timer", "event"}
    <3> HIDE DEF doomed
    <3> QED BY <2>1, <2>2, <2>3, EndTypes
  <2> QED BY <1>6, <2>4, ReconcileOnly DEF ListOldArtifacts
<1>7. CASE DeleteOldArtifact
  <2>1. PICK key \in rc.doomed :
          /\ cms' = [cms EXCEPT ![key] = NoConfigMap]
          /\ rc' = IF rc.doomed = {key} THEN NoReconcile
                   ELSE [rc EXCEPT !.doomed = @ \ {key}]
          /\ CASE cms[key].uid # 0 -> Notify
               [] cms[key].uid = 0 /\ rc.doomed = {key} /\ rc.requeue -> SetTimer
               [] OTHER -> UNCHANGED queue
    BY <1>7 DEF DeleteOldArtifact
  <2>2. Prepared([rc EXCEPT !.doomed = @ \ {key}])
    BY <1>7 DEF DeleteOldArtifact, Prepared, ReconcileState, WorkSteps
  <2>3. Prepared(rc')
    BY <2>1, <2>2, WritePrepared
  <2>4. queue' \in {"empty", "timer", "event"}
    BY <2>1 DEF Notify, SetTimer
  <2>5. cms \in [Keys -> ConfigMap] /\ cms' \in [Keys -> ConfigMap]
    BY <2>1, ObjectTypes DEF TypeInv, TypeOK
  <2>6. BirthsBounded'
    <3>1. PICK b \in Nat : \A k \in Keys : cms[k].born <= b
      BY DEF TypeInv, BirthsBounded
    <3>2. \A k \in Keys : cms'[k].born <= b
      BY <2>1, <2>5, <3>1 DEF NoConfigMap
    <3> QED BY <3>2 DEF BirthsBounded
  <2>7. UNCHANGED <<fe, cache, pjobs, rjobs, registry, clock, api, events>>
    BY <1>7 DEF DeleteOldArtifact
  <2> QED BY <2>3, <2>4, <2>5, <2>6, <2>7
          DEF TypeInv, TypeOK, Prepared, Keyed, CallPrepared
<1>8. QED
  BY <1>1, <1>2, <1>3, <1>4, <1>5, <1>6, <1>7

\* The watch, and a reconcile that is cut short.
LEMMA WatchStep ==
    ASSUME TypeInv, CacheSync \/ ReconcileError
    PROVE  TypeInv'
<1> USE ReconcileTypes
<1>1. CASE CacheSync
  <2>1. fe' \in FE /\ fe'.uid = fe.uid /\ fe'.src = fe.src /\ fe'.token = fe.token
    BY <1>1 DEF CacheSync, FE
  <2>2. Keyed(fe)' /\ Keyed(cache)' /\ cache' \in FE
    BY <1>1, <2>1 DEF CacheSync, TypeInv, Keyed
  <2>3. queue' \in {"empty", "timer", "event"}
    BY <1>1 DEF CacheSync
  <2>4. /\ UNCHANGED <<rc, objectVars, registry, clock, api, events>>
        /\ Prepared(rc) /\ api \in Call /\ CallPrepared
    BY <1>1 DEF CacheSync, TypeInv, TypeOK
  <2>5. CallPrepared'
    BY <2>4 DEF CallPrepared
  <2> QED BY <2>1, <2>2, <2>3, <2>4, <2>5, FEChanges
<1>2. CASE ReconcileError
  BY <1>2, EndTypes, ReconcileOnly, BoundsAssumption DEF ReconcileError, Disturb
<1>3. QED
  BY <1>1, <1>2

-----------------------------------------------------------------------------
(* The Jobs, Kubernetes and the users preserve it.                         *)

\* A step that changes the owned objects and leaves the FE alone.
LEMMA ObjectsChange ==
    ASSUME TypeInv,
           pjobs' \in [JobNames -> PackageJob], rjobs' \in [RequestIds -> RequestJob],
           cms' \in [Keys -> ConfigMap], BirthsBounded',
           registry' \in Registry, clock' \in Nat,
           queue' \in {"event", queue}, events' \in {events, events + 1},
           events' = events \/ events < MaxEvents,
           UNCHANGED <<fe, cache, rc, api>>
    PROVE  TypeInv'
BY BoundsAssumption DEF TypeInv, TypeOK, Prepared, Keyed, CallPrepared

\* Replacing ConfigMaps by others that are not newer, or removing them.
LEMMA BirthsStay ==
    ASSUME TypeInv, NEW key \in Keys, NEW cm \in ConfigMap,
           cm.born = 0 \/ cm.born = cms[key].born \/ cm.born = 1 + Max(Births),
           cms' = [cms EXCEPT ![key] = cm]
    PROVE  cms' \in [Keys -> ConfigMap] /\ BirthsBounded'
<1>1. cms \in [Keys -> ConfigMap]
  BY DEF TypeInv, TypeOK
<1>2. PICK b \in Nat : \A k \in Keys : cms[k].born <= b
  BY DEF TypeInv, BirthsBounded
<1>3. Max(Births) <= b /\ Max(Births) \in Nat
  <2>1. Births \in SUBSET Nat /\ Births # {} /\ \A x \in Births : x <= b
    BY <1>1, <1>2 DEF Births, ConfigMap
  <2>2. Max(Births) \in Births
    BY <2>1, MaxOfNaturals
  <2> QED BY <2>1, <2>2
<1>4. \A k \in Keys : cms'[k].born <= b + 1
  <2>1. \A k \in Keys : cms[k].born \in Nat
    BY <1>1 DEF ConfigMap
  <2> QED BY <1>1, <1>2, <1>3, <2>1
<1>5. QED
  BY <1>1, <1>4 DEF BirthsBounded

\* The largest age of an artifact ConfigMap is a natural number.
LEMMA MaxOfBirths ==
    ASSUME TypeInv, Keys # {}
    PROVE  Max(Births) \in Nat
<1>1. PICK b \in Nat : \A k \in Keys : cms[k].born <= b
  BY DEF TypeInv, BirthsBounded
<1>2. Births \in SUBSET Nat /\ Births # {} /\ \A x \in Births : x <= b
  BY <1>1 DEF Births, ConfigMap, TypeInv, TypeOK
<1>3. QED
  BY <1>2, MaxOfNaturals

\* The steps of package Jobs preserve the type invariant.
LEMMA PackagerStep ==
    ASSUME TypeInv, NEW name \in JobNames,
           Packager(name) \/ PackagerFail(name) \/ ExpirePackageJob(name)
              \/ CollectPackageJob(name)
    PROVE  TypeInv'
<1>1. /\ pjobs \in [JobNames -> PackageJob] /\ rjobs \in [RequestIds -> RequestJob]
      /\ cms \in [Keys -> ConfigMap] /\ registry \in Registry /\ clock \in Nat
      /\ fe \in FE /\ BirthsBounded
  BY DEF TypeInv, TypeOK
<1>2. name[1] \in Keys /\ name[1][1] \in Sources
  BY DEF JobNames, Keys
<1>3. pjobs[name] \in PackageJob /\ fe.uid \in Nat
  BY <1>1, BoundsAssumption DEF FE, Uids
<1>4. ASSUME NEW job \in PackageJob, pjobs' = [pjobs EXCEPT ![name] = job],
             UNCHANGED <<rjobs, registry, clock>>, queue' \in {"event", queue},
             UNCHANGED <<fe, cache, rc, api>>,
             events' \in {events, events + 1}, events' = events \/ events < MaxEvents,
             cms' \in [Keys -> ConfigMap], BirthsBounded'
      PROVE  TypeInv'
  BY <1>1, <1>4, ObjectsChange
<1>5. UNCHANGED cms => cms' \in [Keys -> ConfigMap] /\ BirthsBounded'
  BY <1>1 DEF BirthsBounded
<1>6. CASE PackagerBuild(name)
  <2>1. PICK v \in Variants :
          PJobStep(name, [pjobs[name] EXCEPT !.pod = "built", !.owner = fe.uid,
                                             !.digest = <<fe.src, v>>])
    BY <1>6 DEF PackagerBuild
  <2>2. <<fe.src, v>> \in Maybe(Digests)
    BY <1>2, <1>6 DEF PackagerBuild, Digests, Maybe
  <2>3. [pjobs[name] EXCEPT !.pod = "built", !.owner = fe.uid,
                            !.digest = <<fe.src, v>>] \in PackageJob
    BY <1>3, <2>2 DEF PackageJob
  <2> QED BY <1>4, <1>5, <1>6, <2>1, <2>3 DEF PackagerBuild, PJobStep
<1>7. CASE PackagerRefuse(name)
  <2>1. [pjobs[name] EXCEPT !.phase = "Failed", !.pod = "gone"] \in PackageJob
    BY <1>3 DEF PackageJob, JobPhases
  <2> QED BY <1>4, <1>5, <1>7, <2>1 DEF PackagerRefuse, PJobStep, Notify
<1>8. CASE PackagerUpsert(name)
  <2> DEFINE born == IF cms[name[1]].uid # 0 THEN cms[name[1]].born ELSE 1 + Max(Births)
             cm == [uid |-> pjobs[name].owner, digest |-> pjobs[name].digest,
                    intact |-> TRUE, born |-> born]
             pod == IF pjobs[name].phase = "Running" THEN "wrote" ELSE "gone"
  <2>1. born \in Nat
    <3>1. Max(Births) \in Nat
      BY <1>2, MaxOfBirths
    <3>2. cms[name[1]].born \in Nat
      BY <1>1, <1>2 DEF ConfigMap
    <3> QED BY <3>1, <3>2
  <2>2. cm \in ConfigMap /\ cm.born = born
    <3> HIDE DEF born
    <3> QED BY <1>3, <2>1 DEF ConfigMap, PackageJob
  <2>3. [pjobs[name] EXCEPT !.pod = pod] \in PackageJob
    BY <1>3 DEF PackageJob
  <2>4. /\ cms' = [cms EXCEPT ![name[1]] = cm]
        /\ PJobStep(name, [pjobs[name] EXCEPT !.pod = pod])
        /\ Notify
    BY <1>8, Zenon DEF PackagerUpsert
  <2>5. cm.born = cms[name[1]].born \/ cm.born = 1 + Max(Births)
    BY <2>2
  <2>6. cms' \in [Keys -> ConfigMap] /\ BirthsBounded'
    <3> HIDE DEF cm
    <3> QED BY <1>2, <2>2, <2>4, <2>5, BirthsStay
  <2> HIDE DEF pod
  <2> QED BY <1>4, <2>3, <2>4, <2>6 DEF PJobStep, Notify
<1>9. CASE PackagerSucceed(name)
  <2>1. [pjobs[name] EXCEPT !.phase = "Succeeded", !.pod = "gone"] \in PackageJob
    BY <1>3 DEF PackageJob, JobPhases
  <2> QED BY <1>4, <1>5, <1>9, <2>1 DEF PackagerSucceed, PJobStep, Notify
<1>10. CASE PackagerFail(name)
  <2>1. PICK pod \in {"gone"} \cup
              (IF "linger" \in Disturbances THEN {pjobs[name].pod} \cap {"built"} ELSE {}) :
          pjobs' = [pjobs EXCEPT ![name].phase = "Failed", ![name].pod = pod]
    BY <1>10 DEF PackagerFail
  <2>2. [pjobs[name] EXCEPT !.phase = "Failed", !.pod = pod] \in PackageJob
    BY <1>3, <2>1 DEF PackageJob, JobPhases
  <2>3. pjobs' = [pjobs EXCEPT ![name] =
                    [pjobs[name] EXCEPT !.phase = "Failed", !.pod = pod]]
    BY <1>1, <2>1 DEF PackageJob
  <2> QED BY <1>4, <1>5, <1>10, <2>2, <2>3 DEF PackagerFail, Disturb, Notify
<1>11. CASE ExpirePackageJob(name)
  BY <1>4, <1>5, <1>11, ObjectTypes DEF ExpirePackageJob, Disturb, Notify
<1>12. CASE CollectPackageJob(name)
  BY <1>4, <1>5, <1>12, ObjectTypes DEF CollectPackageJob, Notify
<1>13. QED
  BY <1>6, <1>7, <1>8, <1>9, <1>10, <1>11, <1>12 DEF Packager

\* The steps of publish and unpublish Jobs preserve the type invariant.
LEMMA PublisherStep ==
    ASSUME TypeInv, NEW id \in RequestIds,
           Publisher(id) \/ PublisherFail(id) \/ ExpireRequestJob(id)
              \/ CollectRequestJob(id)
    PROVE  TypeInv'
<1>1. /\ pjobs \in [JobNames -> PackageJob] /\ rjobs \in [RequestIds -> RequestJob]
      /\ cms \in [Keys -> ConfigMap] /\ registry \in Registry /\ clock \in Nat
      /\ BirthsBounded
  BY DEF TypeInv, TypeOK
<1>2. rjobs[id] \in RequestJob
  BY <1>1
<1>3. ASSUME NEW job \in RequestJob, rjobs' = [rjobs EXCEPT ![id] = job],
             UNCHANGED <<pjobs, cms>>, queue' \in {"event", queue},
             UNCHANGED <<fe, cache, rc, api>>,
             events' \in {events, events + 1}, events' = events \/ events < MaxEvents,
             registry' \in Registry, clock' \in Nat
      PROVE  TypeInv'
  <2>1. BirthsBounded'
    BY <1>1, <1>3 DEF BirthsBounded
  <2> QED BY <1>1, <1>3, <2>1, ObjectsChange
<1>4. CASE PublisherInstall(id)
  <2>1. [rjobs[id] EXCEPT !.done = TRUE] \in RequestJob
    BY <1>2 DEF RequestJob
  <2>2. registry' \in Registry
    BY <1>1, <1>2, <1>4 DEF PublisherInstall, Registry, RequestJob
  <2> QED BY <1>1, <1>3, <1>4, <2>1, <2>2 DEF PublisherInstall, RJobStep
<1>5. CASE PublisherRefuse(id)
  <2>1. [rjobs[id] EXCEPT !.phase = "Failed"] \in RequestJob
    BY <1>2 DEF RequestJob, JobPhases
  <2> QED BY <1>1, <1>3, <1>5, <2>1 DEF PublisherRefuse, RJobStep, Notify
<1>6. CASE PublisherUninstall(id)
  <2>1. [rjobs[id] EXCEPT !.done = TRUE] \in RequestJob
    BY <1>2 DEF RequestJob
  <2>2. registry' \in Registry
    BY <1>1, <1>6 DEF PublisherUninstall, Registry, Maybe
  <2> QED BY <1>1, <1>3, <1>6, <2>1, <2>2 DEF PublisherUninstall, RJobStep
<1>7. CASE PublisherSucceed(id)
  <2>1. clock' \in Nat
    BY <1>1, <1>7 DEF PublisherSucceed
  <2>2. [rjobs[id] EXCEPT !.phase = "Succeeded", !.fin = clock'] \in RequestJob
    BY <1>2, <2>1 DEF RequestJob, JobPhases
  <2>3. registry' \in Registry
    BY <1>1, <1>2, <1>7 DEF PublisherSucceed, Registry, RequestJob
  <2> QED BY <1>3, <1>7, <2>1, <2>2, <2>3 DEF PublisherSucceed, RJobStep, Notify
<1>8. CASE PublisherFail(id)
  <2>1. [rjobs[id] EXCEPT !.phase = "Failed"] \in RequestJob
    BY <1>2 DEF RequestJob, JobPhases
  <2>2. rjobs' = [rjobs EXCEPT ![id] = [rjobs[id] EXCEPT !.phase = "Failed"]]
    BY <1>1, <1>8 DEF PublisherFail, RequestJob
  <2> QED BY <1>1, <1>3, <1>8, <2>1, <2>2 DEF PublisherFail, Disturb, Notify
<1>9. CASE ExpireRequestJob(id)
  BY <1>1, <1>3, <1>9, ObjectTypes DEF ExpireRequestJob, Disturb, Notify
<1>10. CASE CollectRequestJob(id)
  BY <1>1, <1>3, <1>10, ObjectTypes DEF CollectRequestJob, Notify
<1>11. QED
  BY <1>4, <1>5, <1>6, <1>7, <1>8, <1>9, <1>10 DEF Publisher

\* The garbage collector of Kubernetes preserves the type invariant.
LEMMA CollectorStep ==
    ASSUME TypeInv, (\E key \in Keys : CollectArtifact(key)) \/ RemoveDeletedFE
    PROVE  TypeInv'
<1>1. ASSUME NEW key \in Keys, CollectArtifact(key)
      PROVE  TypeInv'
  <2>1. cms' \in [Keys -> ConfigMap] /\ BirthsBounded'
    <3>1. NoConfigMap \in ConfigMap /\ NoConfigMap.born = 0
      BY ObjectTypes DEF NoConfigMap
    <3>2. cms' = [cms EXCEPT ![key] = NoConfigMap]
      BY <1>1 DEF CollectArtifact
    <3> QED BY <3>1, <3>2, BirthsStay
  <2> QED BY <1>1, <2>1, ObjectsChange DEF CollectArtifact, Notify, TypeInv, TypeOK
<1>2. CASE RemoveDeletedFE
  <2>1. fe' \in FE /\ Keyed(fe)'
    BY <1>2, StoredAbsent DEF RemoveDeletedFE
  <2> QED BY <1>2, <2>1, FEChanges
          DEF RemoveDeletedFE, controllerVars, TypeInv, TypeOK, Keyed, Prepared, CallPrepared
<1>3. QED
  BY <1>1, <1>2

\* A user's write of the FE.
LEMMA UserWriteStep ==
    ASSUME TypeInv, NEW kind, NEW new \in FE, Keyed(new), UserWrites(kind, new)
    PROVE  TypeInv'
<1>1. fe \in FE /\ fe' = Stored(new)
  BY DEF UserWrites, TypeInv, TypeOK
<1>2. fe' \in FE /\ Keyed(fe)'
  BY <1>1, StoredType DEF Keyed
<1>3. events' \in 0 .. MaxEvents
  BY BoundsAssumption DEF UserWrites, Disturb, TypeInv, TypeOK
<1>4. UNCHANGED <<cache, queue, rc, objectVars, registry, clock, api>>
  BY DEF UserWrites, controllerVars
<1>5. /\ cache \in FE /\ queue \in {"empty", "timer", "event"} /\ Prepared(rc)
      /\ api \in Call /\ Keyed(cache) /\ CallPrepared
  BY DEF TypeInv, TypeOK
<1>6. Prepared(rc') /\ Keyed(cache)' /\ CallPrepared'
  BY <1>4, <1>5 DEF Keyed, CallPrepared
<1>7. QED
  BY <1>2, <1>3, <1>4, <1>5, <1>6, FEChanges

\* Edits of the FE and of artifacts preserve the type invariant.
LEMMA UserStep ==
    ASSUME TypeInv,
           \/ \E source \in Sources : EditSpec(source)
           \/ \E token \in Tokens : SetRebuildToken(token)
           \/ \E id \in PublishIds, source \in {None, fe.src}, digest \in Digests \cup {None} :
                 AnnotatePublish(id, source, digest)
           \/ \E id \in UnpublishIds : AnnotateUnpublish(id)
           \/ DeleteInBackground \/ DeleteInForeground
           \/ \E source \in Sources, token \in Tokens : Recreate(source, token)
           \/ \E key \in Keys : TamperArtifact(key)
    PROVE  TypeInv'
<1>1. fe \in FE /\ Keyed(fe) /\ fe.gen \in Nat /\ fe.src \in Maybe(Sources)
      /\ events \in 0 .. MaxEvents
  BY DEF TypeInv, TypeOK, FE
<1>2. ASSUME NEW source \in Sources, EditSpec(source)
      PROVE  TypeInv'
  <2> DEFINE new == [fe EXCEPT !.src = source, !.gen = @ + 1]
  <2>1. source \in Maybe(Sources) /\ fe.gen + 1 \in Nat
    BY <1>1 DEF Maybe
  <2>2. new \in FE /\ new.src = source /\ new.token = fe.token
    BY <1>1, <2>1 DEF FE
  <2>3. Keyed(new)
    BY <1>1, <1>2, <2>2 DEF EditSpec, Keyed
  <2> HIDE DEF new
  <2>4. UserWrites("edit", new)
    BY <1>2 DEF EditSpec, new
  <2> QED BY <2>2, <2>3, <2>4, UserWriteStep
<1>3. ASSUME NEW token \in Tokens, SetRebuildToken(token)
      PROVE  TypeInv'
  <2>1. [fe EXCEPT !.token = token] \in FE /\ Keyed([fe EXCEPT !.token = token])
    BY <1>1 DEF FE, Keyed, Maybe
  <2> QED BY <1>3, <2>1, UserWriteStep DEF SetRebuildToken
<1>4. ASSUME NEW id \in PublishIds, NEW source \in {None, fe.src},
             NEW digest \in Digests \cup {None}, AnnotatePublish(id, source, digest)
      PROVE  TypeInv'
  <2> DEFINE req == [id |-> id, gen |-> 0, src |-> source, digest |-> digest]
  <2>1. req \in Request
    BY <1>1 DEF Request, Maybe
  <2>2. [fe EXCEPT !.pub = req] \in FE /\ Keyed([fe EXCEPT !.pub = req])
    <3> HIDE DEF req
    <3> QED BY <1>1, <2>1 DEF FE, Keyed
  <2> QED BY <1>4, <2>2, UserWriteStep DEF AnnotatePublish
<1>5. ASSUME NEW id \in UnpublishIds, AnnotateUnpublish(id)
      PROVE  TypeInv'
  <2>1. [fe EXCEPT !.unpub = id] \in FE /\ Keyed([fe EXCEPT !.unpub = id])
    BY <1>1 DEF FE, Keyed, Maybe
  <2> QED BY <1>5, <2>1, UserWriteStep DEF AnnotateUnpublish
<1>6. CASE DeleteInBackground
  <2>1. AbsentFE \in FE /\ Keyed(AbsentFE)
    BY ObjectTypes DEF Keyed, AbsentFE, NewFE
  <2> QED BY <1>6, <2>1, UserWriteStep DEF DeleteInBackground
<1>7. CASE DeleteInForeground
  <2>1. [fe EXCEPT !.deleting = TRUE] \in FE /\ Keyed([fe EXCEPT !.deleting = TRUE])
    BY <1>1 DEF FE, Keyed
  <2> QED BY <1>7, <2>1, UserWriteStep DEF DeleteInForeground
<1>8. ASSUME NEW source \in Sources, NEW token \in Tokens, Recreate(source, token)
      PROVE  TypeInv'
  <2>1. NewFE(events + 2, source, token, TRUE) \in FE
    <3>1. events + 2 \in Uids
      BY <1>1, <1>8, BoundsAssumption DEF Recreate, UserWrites, Disturb, Uids
    <3> QED BY <3>1, ObjectTypes
  <2>2. Keyed(NewFE(events + 2, source, token, TRUE))
    BY DEF Keyed, NewFE
  <2> QED BY <1>8, <2>1, <2>2, UserWriteStep DEF Recreate
<1>9. ASSUME NEW key \in Keys, TamperArtifact(key)
      PROVE  TypeInv'
  <2>1. PICK cm \in {NoConfigMap, [cms[key] EXCEPT !.intact = FALSE]} :
          cms' = [cms EXCEPT ![key] = cm]
    BY <1>9 DEF TamperArtifact
  <2>2. cm \in ConfigMap /\ (cm.born = 0 \/ cm.born = cms[key].born)
    <3>1. cms[key] \in ConfigMap
      BY DEF TypeInv, TypeOK
    <3>2. NoConfigMap \in ConfigMap /\ NoConfigMap.born = 0
      BY ObjectTypes DEF NoConfigMap
    <3>3. LET spoilt == [cms[key] EXCEPT !.intact = FALSE]
          IN  spoilt \in ConfigMap /\ spoilt.born = cms[key].born
      BY <3>1 DEF ConfigMap
    <3> QED BY <2>1, <3>2, <3>3
  <2>3. cms' \in [Keys -> ConfigMap] /\ BirthsBounded'
    BY <2>1, <2>2, BirthsStay
  <2> QED BY <1>9, <2>3, ObjectsChange DEF TamperArtifact, Disturb, Notify, TypeInv, TypeOK
<1>10. QED
  BY <1>2, <1>3, <1>4, <1>5, <1>6, <1>7, <1>8, <1>9

\* The HTTP API accepts a request.
LEMMA AcceptStep ==
    ASSUME TypeInv, NEW kind, NEW id \in Maybe(RequestIds), NEW req \in Request,
           NEW op \in {"publish", "unpublish", "unpublishAndDelete",
                       "delete", "deleteUnpublished"},
           op \in {"unpublish", "unpublishAndDelete"} => id \in UnpublishIds,
           Accept(kind, op, id, req)
    PROVE  TypeInv'
<1>1. api \in Call /\ fe \in FE
  BY DEF TypeInv, TypeOK
<1>2. api' \in Call /\ CallPrepared'
  <2>1. api' = [op |-> op, id |-> id, req |-> req, used |-> api.used \cup ({id} \ {None})]
    BY DEF Accept
  <2>2. api.used \cup ({id} \ {None}) \in SUBSET RequestIds
    BY <1>1 DEF Call, Maybe
  <2> QED BY <2>1, <2>2 DEF Call, CallPrepared
<1>3. events' \in 0 .. MaxEvents
  BY BoundsAssumption DEF Accept, Disturb, TypeInv, TypeOK
<1>4. UNCHANGED <<fe, cache, queue, rc, objectVars, registry, clock>>
  BY DEF Accept, controllerVars
<1>5. /\ cache \in FE /\ queue \in {"empty", "timer", "event"} /\ Prepared(rc)
      /\ Keyed(cache) /\ Keyed(fe)
  BY DEF TypeInv, TypeOK
<1>6. Prepared(rc') /\ Keyed(cache)' /\ Keyed(fe)'
  BY <1>4, <1>5 DEF Keyed
<1>7. QED
  BY <1>1, <1>2, <1>3, <1>4, <1>5, <1>6, FEChanges

\* It completes one.
LEMMA CompleteStep ==
    ASSUME TypeInv, ApiCompletes
    PROVE  TypeInv'
<1>1. api \in Call /\ fe \in FE /\ Keyed(fe) /\ CallPrepared
  BY DEF TypeInv, TypeOK
<1>2. api' \in Call /\ CallPrepared'
  <2>1. api' = [NoCall EXCEPT !.used = api.used]
    BY DEF ApiCompletes, PatchPublishRequest, PatchUnpublishRequest, DeleteByName
  <2> QED BY <1>1, <2>1, ObjectTypes DEF Call, CallPrepared, NoCall
<1>3. fe' \in FE /\ Keyed(fe)'
  <2>1. fe' = fe => fe' \in FE /\ Keyed(fe)'
    BY <1>1 DEF Keyed
  <2>2. CASE PatchPublishRequest
    <3>1. LET new == [fe EXCEPT !.pub = api.req, !.target = TRUE]
          IN  /\ new \in FE /\ new.uid = fe.uid
              /\ new.src = fe.src /\ new.token = fe.token
      BY <1>1 DEF FE, Call
    <3> QED BY <2>1, <2>2, <3>1, StoredKeyed DEF PatchPublishRequest
  <2>3. CASE PatchUnpublishRequest
    <3>1. api.id \in UnpublishIds
      BY <1>1, <2>3 DEF PatchUnpublishRequest, CallPrepared
    <3>2. \A delAfter \in {fe.delAfter, api.id} :
            LET new == [fe EXCEPT !.unpub = api.id, !.target = TRUE, !.delAfter = delAfter]
            IN  /\ new \in FE /\ new.uid = fe.uid
                /\ new.src = fe.src /\ new.token = fe.token
      BY <1>1, <3>1 DEF FE, Maybe
    <3>3. PICK delAfter \in {fe.delAfter, api.id} :
            \/ fe' = fe
            \/ fe' = Stored([fe EXCEPT !.unpub = api.id, !.target = TRUE,
                                       !.delAfter = delAfter])
      BY <2>3 DEF PatchUnpublishRequest
    <3> QED BY <2>1, <3>2, <3>3, StoredKeyed
  <2>4. CASE DeleteByName
    BY <2>1, <2>4, StoredAbsent DEF DeleteByName
  <2> QED BY <2>2, <2>3, <2>4 DEF ApiCompletes
<1>4. UNCHANGED <<cache, queue, rc, objectVars, registry, clock, events>>
  BY DEF ApiCompletes, PatchPublishRequest, PatchUnpublishRequest, DeleteByName,
         controllerVars
<1>5. /\ cache \in FE /\ queue \in {"empty", "timer", "event"} /\ Prepared(rc)
      /\ Keyed(cache) /\ events \in 0 .. MaxEvents
  BY DEF TypeInv, TypeOK
<1>6. Prepared(rc') /\ Keyed(cache)'
  BY <1>4, <1>5 DEF Keyed
<1>7. QED
  BY <1>2, <1>3, <1>4, <1>5, <1>6, FEChanges

\* The requests that the API accepts preserve the type invariant.
LEMMA RequestAcceptedStep ==
    ASSUME TypeInv,
           \/ \E id \in PublishIds : TriggerPublish(id)
           \/ \E id \in UnpublishIds : TriggerUnpublish(id)
           \/ \E id \in UnpublishIds, unpublish \in BOOLEAN : DeleteExtension(id, unpublish)
    PROVE  TypeInv'
<1>1. fe \in FE
  BY DEF TypeInv, TypeOK
<1>2. ASSUME NEW id \in PublishIds, TriggerPublish(id)
      PROVE  TypeInv'
  <2> DEFINE req == [id |-> id, gen |-> fe.gen, src |-> fe.src, digest |-> ReadyArtifact]
  <2>1. ReadyArtifact \in Maybe(Digests)
    BY <1>1 DEF ReadyArtifact, FE, Status, Maybe
  <2>2. req \in Request /\ id \in Maybe(RequestIds)
    BY <1>1, <2>1 DEF Request, FE, Maybe, RequestIds
  <2>3. Accept("publish", "publish", id, req)
    BY <1>2, Zenon DEF TriggerPublish
  <2> HIDE DEF req
  <2> QED BY <2>2, <2>3, AcceptStep
<1>3. ASSUME NEW id \in UnpublishIds, TriggerUnpublish(id)
      PROVE  TypeInv'
  BY <1>3, AcceptStep, AbsentTypes DEF TriggerUnpublish, Maybe, RequestIds
<1>4. ASSUME NEW id \in UnpublishIds, NEW unpublish \in BOOLEAN,
             DeleteExtension(id, unpublish)
      PROVE  TypeInv'
  BY <1>4, AcceptStep, AbsentTypes DEF DeleteExtension, Maybe, RequestIds
<1>5. QED
  BY <1>2, <1>3, <1>4

-----------------------------------------------------------------------------
(* The type invariant.                                                     *)

\* Every step preserves the type invariant.
LEMMA TypeInvStep == TypeInv /\ [Next]_vars => TypeInv'
<1> SUFFICES ASSUME TypeInv, [Next]_vars PROVE TypeInv'
  OBVIOUS
<1>1. CASE ControllerNext
  BY <1>1, PackagingStep, RequestStep, StatusStep, WatchStep DEF ControllerNext, Reconcile
<1>2. CASE JobsNext
  BY <1>2, PackagerStep, PublisherStep, CollectorStep DEF JobsNext, Collector
<1>3. CASE ApiNext
  BY <1>3, UserStep, RequestAcceptedStep, CompleteStep DEF ApiNext
<1>4. CASE UNCHANGED vars
  BY <1>4 DEF vars, TypeInv, TypeOK, Prepared, Keyed, CallPrepared, BirthsBounded
<1>5. QED
  BY <1>1, <1>2, <1>3, <1>4 DEF Next

\* The inductive type invariant is an invariant.
LEMMA TypeInvariance == Spec => []TypeInv
BY TypeInvInit, TypeInvStep, PTL DEF Spec

\* Every variable always has its type: no reconcile, however stale the FE it
\* works on, makes a Job beyond the last attempt or a status that names a
\* digest or an id that was never given out.
THEOREM TypeCorrectness == Spec => []TypeOK
<1>1. TypeInv => TypeOK
  BY DEF TypeInv
<1>2. QED
  BY TypeInvariance, <1>1, PTL

-----------------------------------------------------------------------------
(* Which steps touch package Jobs and artifacts.                           *)

\* The steps of the packager and of Kubernetes on one package Job.
PackageJobAct(name) ==
    Packager(name) \/ PackagerFail(name) \/ ExpirePackageJob(name) \/ CollectPackageJob(name)

\* Every other step, but the creation of a package Job, leaves them alone.
LEMMA PackageJobSteps ==
    ASSUME [Next]_vars
    PROVE  \/ CreatePackageJob
           \/ \E name \in JobNames : PackageJobAct(name)
           \/ UNCHANGED pjobs
<1>1. CASE ControllerNext
  BY <1>1 DEF ControllerNext, Reconcile, CacheSync, ReconcileError, Continue, ReconcileStart,
     ArtifactFound, PackageJobInProgress, ReadArtifactAgain, PackageAttemptsExceeded,
     NextAttempt, ObservePublishJob, KeepFinishedPublish, NeedPublishJob,
     CreatePublishJob, ObserveUnpublishJob, KeepFinishedUnpublish, NeedUnpublishJob,
     CreateUnpublishJob, CreateRequestJob, GetLatest, PatchStatus, GetPatched, PatchLabels,
     DeleteFrontendExtension, ListOldArtifacts, DeleteOldArtifact, objectVars
<1>2. CASE JobsNext
  <2>1. CASE \E name \in JobNames :
                Packager(name) \/ PackagerFail(name) \/ ExpirePackageJob(name)
    BY <2>1 DEF PackageJobAct
  <2>2. CASE \E id \in RequestIds :
                Publisher(id) \/ PublisherFail(id) \/ ExpireRequestJob(id)
    BY <2>2 DEF Publisher, PublisherInstall, PublisherRefuse, PublisherUninstall,
       PublisherSucceed, RJobStep, PublisherFail, ExpireRequestJob
  <2>3. CASE Collector
    BY <2>3 DEF Collector, PackageJobAct, CollectRequestJob, CollectArtifact,
       RemoveDeletedFE, objectVars
  <2> QED BY <1>2, <2>1, <2>2, <2>3 DEF JobsNext
<1>3. CASE ApiNext
  BY <1>3 DEF ApiNext, UserWrites, EditSpec, SetRebuildToken, AnnotatePublish,
     AnnotateUnpublish, DeleteInBackground, DeleteInForeground, Recreate, TamperArtifact,
     TriggerPublish, TriggerUnpublish, DeleteExtension, Accept, ApiCompletes,
     PatchPublishRequest, PatchUnpublishRequest, DeleteByName, objectVars
<1>4. QED
  BY <1>1, <1>2, <1>3 DEF Next, vars

\* A ConfigMap changes only when a packager writes what it has built, or when
\* it is deleted or spoilt.
LEMMA ConfigMapSteps ==
    ASSUME TypeInv, [Next]_vars
    PROVE  \/ \E name \in JobNames : PackagerUpsert(name)
           \/ \A key \in Keys :
                cms'[key].uid # 0 /\ cms'[key].intact => cms'[key] = cms[key]
<1>0. cms \in [Keys -> ConfigMap]
  BY DEF TypeInv, TypeOK
<1>1. ASSUME NEW key \in Keys, cms' = [cms EXCEPT ![key] = NoConfigMap]
      PROVE  \A k \in Keys : cms'[k].uid # 0 /\ cms'[k].intact => cms'[k] = cms[k]
  BY <1>0, <1>1 DEF NoConfigMap
<1>2. CASE ControllerNext
  <2>1. CASE DeleteOldArtifact
    <3>1. PICK key \in rc.doomed : cms' = [cms EXCEPT ![key] = NoConfigMap]
      BY <2>1 DEF DeleteOldArtifact
    <3>2. key \in Keys
      BY DEF TypeInv, TypeOK, ReconcileState
    <3> QED BY <1>1, <3>1, <3>2
  <2>2. CASE ~DeleteOldArtifact
    BY <1>2, <2>2 DEF ControllerNext, Reconcile, CacheSync, ReconcileError, Continue,
     ReconcileStart, ArtifactFound, PackageJobInProgress, ReadArtifactAgain,
     PackageAttemptsExceeded, NextAttempt, CreatePackageJob, ObservePublishJob,
     KeepFinishedPublish, NeedPublishJob, CreatePublishJob, ObserveUnpublishJob,
     KeepFinishedUnpublish, NeedUnpublishJob, CreateUnpublishJob, CreateRequestJob,
     GetLatest, PatchStatus, GetPatched, PatchLabels, DeleteFrontendExtension,
     ListOldArtifacts, objectVars
  <2> QED BY <2>1, <2>2
<1>3. CASE JobsNext
  <2>1. CASE \E name \in JobNames :
                Packager(name) \/ PackagerFail(name) \/ ExpirePackageJob(name)
    BY <2>1 DEF Packager, PackagerBuild, PackagerRefuse, PackagerSucceed, PJobStep,
       PackagerFail, ExpirePackageJob
  <2>2. CASE \E id \in RequestIds :
                Publisher(id) \/ PublisherFail(id) \/ ExpireRequestJob(id)
    BY <2>2 DEF Publisher, PublisherInstall, PublisherRefuse, PublisherUninstall,
       PublisherSucceed, RJobStep, PublisherFail, ExpireRequestJob
  <2>3. CASE Collector
    BY <1>1, <2>3 DEF Collector, CollectPackageJob, CollectRequestJob, CollectArtifact,
       RemoveDeletedFE, objectVars
  <2> QED BY <1>3, <2>1, <2>2, <2>3 DEF JobsNext
<1>4. CASE ApiNext
  <2>1. ASSUME NEW key \in Keys, TamperArtifact(key)
        PROVE  \A k \in Keys : cms'[k].uid # 0 /\ cms'[k].intact => cms'[k] = cms[k]
    <3>1. PICK cm \in {NoConfigMap, [cms[key] EXCEPT !.intact = FALSE]} :
            cms' = [cms EXCEPT ![key] = cm]
      BY <2>1 DEF TamperArtifact
    <3>2. ~(cm.uid # 0 /\ cm.intact)
      BY <1>0, <3>1 DEF ConfigMap, NoConfigMap
    <3> QED BY <1>0, <3>1, <3>2
  <2>2. CASE ~(\E key \in Keys : TamperArtifact(key))
    BY <1>4, <2>2 DEF ApiNext, UserWrites, EditSpec, SetRebuildToken, AnnotatePublish,
     AnnotateUnpublish, DeleteInBackground, DeleteInForeground, Recreate,
     TriggerPublish, TriggerUnpublish, DeleteExtension, Accept, ApiCompletes,
     PatchPublishRequest, PatchUnpublishRequest, DeleteByName, objectVars
  <2> QED BY <2>1, <2>2
<1>5. QED
  BY <1>2, <1>3, <1>4 DEF Next, vars

-----------------------------------------------------------------------------
(* Artifacts are what they are named for.                                  *)

\* What a packager has built, and has perhaps still to write, is built from
\* the source its Job is named for.
BuildsHonest ==
    \A name \in JobNames :
        pjobs[name].pod = "built" => pjobs[name].digest[1] = name[1][1]

HonestInv == BuildsHonest /\ ArtifactHonest

\* Every step preserves the invariant that artifacts are honest.
LEMMA HonestStep ==
    ASSUME TypeInv, HonestInv, [Next]_vars
    PROVE  HonestInv'
<1>0. pjobs \in [JobNames -> PackageJob] /\ cms \in [Keys -> ConfigMap]
  BY DEF TypeInv, TypeOK
<1>1. ASSUME NEW name \in JobNames, NEW job, pjobs' = [pjobs EXCEPT ![name] = job],
             job.pod = "built" => job.digest[1] = name[1][1]
      PROVE  BuildsHonest'
  BY <1>0, <1>1 DEF HonestInv, BuildsHonest
<1>2. BuildsHonest'
  <2>1. CASE CreatePackageJob
    <3> DEFINE name == <<ArtifactKey(rc.fe), rc.att + 1>>
               job == [NoPJob EXCEPT !.uid = rc.fe.uid, !.phase = "Running", !.pod = "new"]
    <3>1. pjobs' = pjobs \/ pjobs' = [pjobs EXCEPT ![name] = job]
      BY <2>1 DEF CreatePackageJob
    <3>2. job.pod = "new"
      BY DEF NoPJob
    <3>3. \A n \in JobNames : pjobs'[n] = pjobs[n] \/ pjobs'[n] = job
      <4> HIDE DEF job, name
      <4> QED BY <1>0, <3>1
    <3> HIDE DEF job
    <3> QED BY <3>2, <3>3 DEF HonestInv, BuildsHonest
  <2>2. ASSUME NEW name \in JobNames, PackageJobAct(name)
        PROVE  BuildsHonest'
    <3>0. pjobs[name] \in PackageJob
      BY <1>0
    <3>1. CASE PackagerBuild(name)
      <4>1. PICK v \in Variants :
              pjobs' = [pjobs EXCEPT ![name] =
                          [pjobs[name] EXCEPT !.pod = "built", !.owner = fe.uid,
                                              !.digest = <<fe.src, v>>]]
        BY <3>1 DEF PackagerBuild, PJobStep
      <4>2. LET job == [pjobs[name] EXCEPT !.pod = "built", !.owner = fe.uid,
                                           !.digest = <<fe.src, v>>]
            IN  job.digest[1] = name[1][1]
        BY <3>0, <3>1 DEF PackagerBuild, PackageJob
      <4> QED BY <1>1, <4>1, <4>2
    <3>2. CASE PackagerRefuse(name)
      BY <1>1, <3>0, <3>2 DEF PackagerRefuse, PJobStep, PackageJob
    <3>3. CASE PackagerUpsert(name)
      <4>1. PICK pod \in {"wrote", "gone"} :
              pjobs' = [pjobs EXCEPT ![name] = [pjobs[name] EXCEPT !.pod = pod]]
        BY <3>3 DEF PackagerUpsert, PJobStep
      <4> QED BY <1>1, <3>0, <4>1 DEF PackageJob
    <3>4. CASE PackagerSucceed(name)
      BY <1>1, <3>0, <3>4 DEF PackagerSucceed, PJobStep, PackageJob
    <3>5. CASE PackagerFail(name)
      <4>1. PICK pod \in {"gone"} \cup {pjobs[name].pod} :
              pjobs' = [pjobs EXCEPT ![name].phase = "Failed", ![name].pod = pod]
        BY <3>5 DEF PackagerFail
      <4>2. pjobs' = [pjobs EXCEPT ![name] =
                        [pjobs[name] EXCEPT !.phase = "Failed", !.pod = pod]]
        BY <1>0, <4>1 DEF PackageJob
      <4> DEFINE job == [pjobs[name] EXCEPT !.phase = "Failed", !.pod = pod]
      <4>3. job.pod = pod /\ job.digest = pjobs[name].digest
        BY <3>0 DEF PackageJob
      <4>4. job.pod = "built" => job.digest[1] = name[1][1]
        BY <4>1, <4>3 DEF HonestInv, BuildsHonest
      <4> HIDE DEF job
      <4> QED BY <1>1, <4>2, <4>4 DEF job
    <3>6. CASE ExpirePackageJob(name)
      BY <1>1, <3>6 DEF ExpirePackageJob, NoPJob
    <3>7. CASE CollectPackageJob(name)
      BY <1>1, <3>7 DEF CollectPackageJob, NoPJob
    <3> QED BY <2>2, <3>1, <3>2, <3>3, <3>4, <3>5, <3>6, <3>7 DEF PackageJobAct, Packager
  <2>3. CASE UNCHANGED pjobs
    BY <2>3 DEF HonestInv, BuildsHonest
  <2> QED BY <2>1, <2>2, <2>3, PackageJobSteps
<1>3. ArtifactHonest'
  <2>1. ASSUME NEW name \in JobNames, PackagerUpsert(name)
        PROVE  ArtifactHonest'
    <3> DEFINE born == IF cms[name[1]].uid # 0 THEN cms[name[1]].born
                       ELSE 1 + Max(Births)
               cm == [uid |-> pjobs[name].owner, digest |-> pjobs[name].digest,
                      intact |-> TRUE, born |-> born]
    <3>1. cms' = [cms EXCEPT ![name[1]] = cm] /\ cm.digest = pjobs[name].digest
      BY <2>1, Zenon DEF PackagerUpsert
    <3> HIDE DEF cm
    <3>2. cm.digest[1] = name[1][1]
      BY <2>1, <3>1 DEF PackagerUpsert, HonestInv, BuildsHonest
    <3> QED BY <1>0, <3>1, <3>2 DEF HonestInv, ArtifactHonest
  <2>2. CASE \A key \in Keys :
                cms'[key].uid # 0 /\ cms'[key].intact => cms'[key] = cms[key]
    BY <2>2 DEF HonestInv, ArtifactHonest
  <2> QED BY <2>1, <2>2, ConfigMapSteps
<1>4. QED
  BY <1>2, <1>3 DEF HonestInv

\* An artifact holds what was built from the source it is named for, for any
\* number of edits, attempts, failures and packagers that outlive their Job.
THEOREM ArtifactsAreHonest == Spec => []ArtifactHonest
<1>1. Init => HonestInv
  BY DEF Init, HonestInv, BuildsHonest, ArtifactHonest, NoPJob, NoConfigMap
<1>2. TypeInv /\ HonestInv /\ [Next]_vars => HonestInv'
  BY HonestStep
<1>3. HonestInv => ArtifactHonest
  BY DEF HonestInv
<1>4. QED
  BY TypeInvariance, <1>1, <1>2, <1>3, PTL DEF Spec

-----------------------------------------------------------------------------
(* Package Jobs are made one after the other.                              *)

Attempt(key, n) == pjobs[<<key, n>>]

\* A Job that runs is the last attempt of its FE at its artifact key.
LaterAttemptEndsEarlier ==
    \A key \in Keys, m, n \in Attempts :
        m < n /\ Attempt(key, m).uid = Attempt(key, n).uid =>
            Attempt(key, m).phase # "Running"

\* A Job that does not exist does not run.
RunningExists == \A name \in JobNames : pjobs[name].phase = "Running" => pjobs[name].uid # 0

\* A reconcile that looks at package Jobs knows the last attempt there is and,
\* when it is going to make the next one, none of them runs.
LatestKnown ==
    rc.pc \in {"artifact", "artifactAgain", "create"} =>
        /\ rc.fe.uid # 0
        /\ \A n \in Attempts :
              Attempt(ArtifactKey(rc.fe), n).uid = rc.fe.uid =>
                /\ n <= rc.att
                /\ Attempt(ArtifactKey(rc.fe), n).phase = "Running" =>
                      n = rc.att /\ rc.pc = "artifact" /\ rc.phase = "Running"

OrderInv == LaterAttemptEndsEarlier /\ LatestKnown /\ RunningExists

\* Package Jobs only end or disappear.
JobsOnlyEnd ==
    \A name \in JobNames :
        \/ pjobs'[name] = NoPJob
        \/ /\ pjobs'[name].uid = pjobs[name].uid
           /\ pjobs'[name].phase = "Running" => pjobs[name].phase = "Running"

\* An act of a package Job, or of Kubernetes on it, at most ends it and leaves
\* the reconcile alone.
LEMMA ActsOnlyEnd ==
    ASSUME TypeInv, NEW name \in JobNames, PackageJobAct(name)
    PROVE  JobsOnlyEnd /\ UNCHANGED rc
<1>0. pjobs \in [JobNames -> PackageJob] /\ pjobs[name] \in PackageJob
  BY DEF TypeInv, TypeOK
<1>1. ASSUME NEW job, pjobs' = [pjobs EXCEPT ![name] = job],
             \/ job = NoPJob
             \/ job.uid = pjobs[name].uid /\ (job.phase = "Running" =>
                                                 pjobs[name].phase = "Running")
      PROVE  JobsOnlyEnd
  BY <1>0, <1>1 DEF JobsOnlyEnd
<1>2. CASE PackagerBuild(name)
  <2>1. PICK v \in Variants :
          pjobs' = [pjobs EXCEPT ![name] =
                      [pjobs[name] EXCEPT !.pod = "built", !.owner = fe.uid,
                                          !.digest = <<fe.src, v>>]]
    BY <1>2 DEF PackagerBuild, PJobStep
  <2>2. UNCHANGED rc
    BY <1>2 DEF PackagerBuild, PJobStep
  <2> QED BY <1>0, <1>1, <2>1, <2>2 DEF PackageJob
<1>3. CASE PackagerRefuse(name)
  BY <1>0, <1>1, <1>3 DEF PackagerRefuse, PJobStep, PackageJob
<1>4. CASE PackagerUpsert(name)
  <2>1. PICK pod \in {"wrote", "gone"} :
          pjobs' = [pjobs EXCEPT ![name] = [pjobs[name] EXCEPT !.pod = pod]]
    BY <1>4 DEF PackagerUpsert, PJobStep
  <2>2. UNCHANGED rc
    BY <1>4 DEF PackagerUpsert, PJobStep
  <2> QED BY <1>0, <1>1, <2>1, <2>2 DEF PackageJob
<1>5. CASE PackagerSucceed(name)
  BY <1>0, <1>1, <1>5 DEF PackagerSucceed, PJobStep, PackageJob
<1>6. CASE PackagerFail(name)
  <2>1. PICK pod \in {"gone"} \cup {pjobs[name].pod} :
          pjobs' = [pjobs EXCEPT ![name].phase = "Failed", ![name].pod = pod]
    BY <1>6 DEF PackagerFail
  <2>2. pjobs' = [pjobs EXCEPT ![name] =
                    [pjobs[name] EXCEPT !.phase = "Failed", !.pod = pod]]
    BY <1>0, <2>1 DEF PackageJob
  <2>3. UNCHANGED rc
    BY <1>6 DEF PackagerFail
  <2> QED BY <1>0, <1>1, <2>2, <2>3 DEF PackageJob
<1>7. CASE ExpirePackageJob(name)
  BY <1>1, <1>7 DEF ExpirePackageJob
<1>8. CASE CollectPackageJob(name)
  BY <1>1, <1>8 DEF CollectPackageJob
<1>9. QED
  BY <1>2, <1>3, <1>4, <1>5, <1>6, <1>7, <1>8 DEF PackageJobAct, Packager

\* The steps that a reconcile goes on to once it has decided are not those
\* that look at package Jobs.
LEMMA DecidedSteps ==
    /\ NoReconcile.pc = "idle"
    /\ \A r, status, requeue : Write(r, status, requeue).pc = "get"
    /\ \A r \in ReconcileState : \A unpublish, requeue :
          WriteReady(r, unpublish, requeue).pc = "get"
    /\ \A r \in ReconcileState : \A publish, requeue :
          Published(r, publish, requeue).pc \in {"get", "unpublish"}
    /\ \A r \in ReconcileState : SyncPublish(r).pc \in {"get", "unpublish", "publish"}
<1>1. NoReconcile.pc = "idle"
  BY DEF NoReconcile
<1>2. \A r, status, requeue : Write(r, status, requeue).pc = "get"
  BY ObjectTypes DEF Write, ReconcileState
<1>3. \A r, unpublish, requeue : WriteReady(r, unpublish, requeue).pc = "get"
  BY <1>2 DEF WriteReady
<1>4. \A r \in ReconcileState : \A publish, requeue :
          Published(r, publish, requeue).pc \in {"get", "unpublish"}
  <2> SUFFICES ASSUME NEW r \in ReconcileState, NEW publish, NEW requeue
               PROVE  Published(r, publish, requeue).pc \in {"get", "unpublish"}
    OBVIOUS
  <2> DEFINE q == [r EXCEPT !.pub = publish, !.requeue = requeue]
  <2>1. [q EXCEPT !.pc = "unpublish"].pc = "unpublish"
    BY DEF ReconcileState
  <2>2. Published(r, publish, requeue) = SyncUnpublish(q)
    BY Zenon DEF Published
  <2> HIDE DEF q
  <2> QED BY <1>3, <2>1, <2>2 DEF SyncUnpublish
<1>5. \A r \in ReconcileState : SyncPublish(r).pc \in {"get", "unpublish", "publish"}
  <2> SUFFICES ASSUME NEW r \in ReconcileState
               PROVE  SyncPublish(r).pc \in {"get", "unpublish", "publish"}
    OBVIOUS
  <2>1. [r EXCEPT !.pc = "publish"].pc = "publish"
    BY DEF ReconcileState
  <2> QED BY <1>4, <2>1 DEF SyncPublish
<1>6. QED
  BY <1>1, <1>2, <1>3, <1>4, <1>5

LookingSteps == {"artifact", "artifactAgain", "create"}

\* Every other step leaves the package Jobs alone, and the reconcile where it
\* is or past its look at them.
LEMMA LookingAtJobs ==
    ASSUME TypeInv, [Next]_vars
    PROVE  \/ ReconcileStart \/ ReadArtifactAgain \/ NextAttempt \/ CreatePackageJob
           \/ \E name \in JobNames : PackageJobAct(name)
           \/ UNCHANGED pjobs /\ (UNCHANGED rc \/ rc'.pc \notin LookingSteps)
<1> SUFFICES ASSUME ~ReconcileStart, ~ReadArtifactAgain, ~NextAttempt, ~CreatePackageJob,
                    ~(\E name \in JobNames : PackageJobAct(name))
             PROVE  UNCHANGED rc \/ rc'.pc \notin LookingSteps
  BY PackageJobSteps
<1> USE DEF LookingSteps
<1>0. rc \in ReconcileState
  BY DEF TypeInv, TypeOK
<1>1. \A pc \in ReconcileSteps : [rc EXCEPT !.pc = pc].pc = pc
  BY <1>0 DEF ReconcileState
<1>2. /\ Finish \/ Abort => rc'.pc = "idle"
      /\ StatusDone => rc'.pc \in {"idle", "after"}
      /\ LabelsOrDone => rc'.pc \in {"idle", "after", "labels"}
  <2>1. [rc EXCEPT !.pc = "labels", !.labels = StatusLabels(fe.status)].pc = "labels"
    BY <1>0 DEF ReconcileState
  <2>2. Finish \/ Abort => rc'.pc = "idle"
    BY DecidedSteps DEF Finish, Abort
  <2>3. StatusDone => rc'.pc \in {"idle", "after"}
    BY <1>1, <2>2 DEF StatusDone, ReconcileSteps
  <2> QED BY <2>1, <2>2, <2>3 DEF LabelsOrDone
<1>3. CASE ControllerNext
  <2>1. CASE CacheSync
    BY <2>1 DEF CacheSync
  <2>2. CASE ReconcileError
    BY <1>2, <2>2 DEF ReconcileError
  <2>3. CASE ArtifactFound
    <3> DEFINE q == [rc EXCEPT !.digest = cms[ArtifactKey(rc.fe)].digest,
                               !.att = 0, !.phase = "Absent"]
    <3>1. q \in ReconcileState
      <4>1. ArtifactKey(rc.fe) \in Keys
        BY <2>3 DEF ArtifactFound, TypeInv, Prepared, WorkSteps
      <4>2. cms[ArtifactKey(rc.fe)].digest \in Maybe(Digests)
        BY <4>1 DEF TypeInv, TypeOK, ConfigMap
      <4>3. 0 \in 0 .. MaxAttempts /\ "Absent" \in JobPhases
        BY MaxAttemptsAssumption DEF JobPhases
      <4> QED BY <1>0, <4>2, <4>3 DEF ReconcileState
    <3>2. rc' = SyncPublish(q)
      BY <2>3 DEF ArtifactFound, Continue
    <3> HIDE DEF q
    <3> QED BY <3>1, <3>2, DecidedSteps
  <2>4. CASE PackageJobInProgress \/ PackageAttemptsExceeded
    BY <2>4, DecidedSteps DEF PackageJobInProgress, PackageAttemptsExceeded, Continue
  <2>5. CASE ObservePublishJob \/ KeepFinishedPublish \/ CreatePublishJob
    <3>1. PICK publish, requeue : rc' = Published(rc, publish, requeue)
      <4>1. CASE ObservePublishJob
        BY <4>1, Zenon DEF ObservePublishJob, Continue, PublishJobSynced
      <4>2. CASE KeepFinishedPublish
        BY <4>2, Zenon DEF KeepFinishedPublish, Continue
      <4>3. CASE CreatePublishJob
        BY <4>3, Zenon DEF CreatePublishJob, CreateRequestJob, PublishJobSynced
      <4> QED BY <2>5, <4>1, <4>2, <4>3
    <3> QED BY <1>0, <3>1, DecidedSteps
  <2>6. CASE ObserveUnpublishJob \/ KeepFinishedUnpublish \/ CreateUnpublishJob
    <3>1. PICK unpublish, requeue : rc' = WriteReady(rc, unpublish, requeue)
      <4>1. CASE ObserveUnpublishJob
        BY <4>1, Zenon DEF ObserveUnpublishJob, Continue, UnpublishJobSynced
      <4>2. CASE KeepFinishedUnpublish
        BY <4>2, Zenon DEF KeepFinishedUnpublish, Continue
      <4>3. CASE CreateUnpublishJob
        BY <4>3, Zenon DEF CreateUnpublishJob, CreateRequestJob, UnpublishJobSynced
      <4> QED BY <2>6, <4>1, <4>2, <4>3
    <3> QED BY <1>0, <3>1, DecidedSteps
  <2>7. CASE NeedPublishJob \/ NeedUnpublishJob
    BY <1>1, <2>7 DEF NeedPublishJob, NeedUnpublishJob, Continue, ReconcileSteps
  <2>8. CASE GetLatest \/ PatchStatus \/ GetPatched \/ PatchLabels
    BY <1>1, <1>2, <2>8 DEF GetLatest, PatchStatus, GetPatched, PatchLabels, ReconcileSteps
  <2>9. CASE DeleteFrontendExtension
    BY <1>2, <2>9, DecidedSteps DEF DeleteFrontendExtension
  <2>10. CASE ListOldArtifacts
    <3>1. \A doomed : [NoReconcile EXCEPT !.pc = "gc", !.doomed = doomed,
                                          !.requeue = rc.requeue].pc = "gc"
      BY ObjectTypes DEF ReconcileState
    <3> QED BY <1>2, <2>10, <3>1 DEF ListOldArtifacts
  <2>11. CASE DeleteOldArtifact
    <3>1. \A doomed : [rc EXCEPT !.doomed = doomed].pc = rc.pc
      BY <1>0 DEF ReconcileState
    <3> QED BY <2>11, <3>1, DecidedSteps DEF DeleteOldArtifact
  <2> QED BY <1>3, <2>1, <2>2, <2>3, <2>4, <2>5, <2>6, <2>7, <2>8, <2>9, <2>10, <2>11
          DEF ControllerNext, Reconcile
<1>4. CASE JobsNext
  <2>1. CASE \E name \in JobNames :
                Packager(name) \/ PackagerFail(name) \/ ExpirePackageJob(name)
    BY <2>1 DEF PackageJobAct
  <2>2. CASE \E id \in RequestIds :
                Publisher(id) \/ PublisherFail(id) \/ ExpireRequestJob(id)
    BY <2>2 DEF Publisher, PublisherInstall, PublisherRefuse, PublisherUninstall,
       PublisherSucceed, RJobStep, PublisherFail, ExpireRequestJob
  <2>3. CASE Collector
    BY <2>3 DEF Collector, PackageJobAct, CollectRequestJob, CollectArtifact,
       RemoveDeletedFE, controllerVars
  <2> QED BY <1>4, <2>1, <2>2, <2>3 DEF JobsNext
<1>5. CASE ApiNext
  BY <1>5 DEF ApiNext, UserWrites, EditSpec, SetRebuildToken, AnnotatePublish,
     AnnotateUnpublish, DeleteInBackground, DeleteInForeground, Recreate, TamperArtifact,
     TriggerPublish, TriggerUnpublish, DeleteExtension, Accept, ApiCompletes,
     PatchPublishRequest, PatchUnpublishRequest, DeleteByName, controllerVars
<1>6. QED
  BY <1>3, <1>4, <1>5 DEF Next, vars

\* Every step preserves the order of the attempts of an artifact key.
LEMMA OrderStep ==
    ASSUME TypeInv, OrderInv, [Next]_vars
    PROVE  OrderInv'
<1>0. /\ pjobs \in [JobNames -> PackageJob] /\ rc \in ReconcileState
      /\ MaxAttempts \in Nat /\ Attempts = 1 .. MaxAttempts
      /\ \A key \in Keys, n \in Attempts : <<key, n>> \in JobNames
      /\ rc.pc \in LookingSteps => ArtifactKey(rc.fe) \in Keys
      /\ rc.att \in 0 .. MaxAttempts
  BY MaxAttemptsAssumption
     DEF TypeInv, TypeOK, Attempts, JobNames, Prepared, LookingSteps, WorkSteps, ReconcileState
<1>1. CASE JobsOnlyEnd /\ (UNCHANGED rc \/ rc'.pc \notin LookingSteps)
  <2>1. LaterAttemptEndsEarlier'
    <3> SUFFICES ASSUME NEW key \in Keys, NEW m \in Attempts, NEW n \in Attempts, m < n,
                        pjobs'[<<key, m>>].uid = pjobs'[<<key, n>>].uid,
                        pjobs'[<<key, m>>].phase = "Running"
                 PROVE  FALSE
      BY DEF LaterAttemptEndsEarlier, Attempt
    <3>1. /\ pjobs'[<<key, m>>].uid = pjobs[<<key, m>>].uid
          /\ pjobs[<<key, m>>].phase = "Running" /\ pjobs[<<key, m>>].uid # 0
      BY <1>0, <1>1 DEF JobsOnlyEnd, NoPJob, OrderInv, RunningExists
    <3>2. pjobs'[<<key, n>>].uid = pjobs[<<key, n>>].uid
      <4>1. <<key, n>> \in JobNames
        BY <1>0
      <4>2. pjobs'[<<key, n>>] = NoPJob \/ pjobs'[<<key, n>>].uid = pjobs[<<key, n>>].uid
        BY <1>1, <4>1 DEF JobsOnlyEnd
      <4>3. NoPJob.uid = 0
        BY DEF NoPJob
      <4>4. pjobs'[<<key, n>>].uid # 0
        BY <3>1
      <4> QED BY <4>2, <4>3, <4>4
    <3> QED BY <3>1, <3>2 DEF OrderInv, LaterAttemptEndsEarlier, Attempt
  <2>2. LatestKnown'
    BY <1>0, <1>1 DEF OrderInv, LatestKnown, Attempt, JobsOnlyEnd, NoPJob, LookingSteps
  <2>3. RunningExists'
    BY <1>1 DEF OrderInv, RunningExists, JobsOnlyEnd, NoPJob
  <2> QED BY <2>1, <2>2, <2>3 DEF OrderInv
<1>2. UNCHANGED pjobs => LaterAttemptEndsEarlier' /\ RunningExists'
  BY DEF OrderInv, LaterAttemptEndsEarlier, RunningExists, Attempt
<1>3. CASE ReconcileStart
  <2> DEFINE n == LatestAttempt(cache)
             listed == [NoReconcile EXCEPT
                          !.pc = "artifact", !.fe = cache, !.att = n,
                          !.phase = IF n = 0 THEN "Absent"
                                    ELSE pjobs[<<ArtifactKey(cache), n>>].phase]
  <2>1. UNCHANGED pjobs /\ cache.uid # 0 /\ ArtifactKey(cache) \in Keys
    BY <1>3 DEF ReconcileStart, objectVars, TypeInv, Keyed, ArtifactKey, Keys
  <2>2. rc' = CASE cache.deleting -> NoReconcile
                [] cache.src \notin ValidSources -> Write(listed, FailedStatus(cache), FALSE)
                [] OTHER -> listed
    BY <1>3, Zenon DEF ReconcileStart
  <2>3. /\ listed.pc = "artifact" /\ listed.fe = cache /\ listed.att = n
        /\ n # 0 => listed.phase = Attempt(ArtifactKey(cache), n).phase
    <3> HIDE DEF n
    <3> QED BY ObjectTypes DEF ReconcileState, Attempt
  <2>4. n \in 0 .. MaxAttempts /\ (n # 0 => Attempt(ArtifactKey(cache), n).uid = cache.uid)
        /\ \A m \in Attempts : Attempt(ArtifactKey(cache), m).uid = cache.uid => m <= n
    BY LatestAttemptIsLatest DEF Attempt
  <2> HIDE DEF listed, n
  <2>5. CASE rc' = listed
    <3>1. ASSUME NEW m \in Attempts, Attempt(ArtifactKey(cache), m).uid = cache.uid
          PROVE  /\ m <= n
                 /\ Attempt(ArtifactKey(cache), m).phase = "Running" =>
                      m = n /\ listed.phase = "Running"
      <4>1. m <= n /\ n \in Attempts
        BY <1>0, <2>4, <3>1
      <4>2. m < n => Attempt(ArtifactKey(cache), m).phase # "Running"
        BY <2>1, <2>4, <3>1, <4>1, <1>0 DEF OrderInv, LaterAttemptEndsEarlier
      <4> QED BY <1>0, <2>3, <4>1, <4>2
    <3>2. LatestKnown'
      BY <2>1, <2>3, <2>5, <3>1 DEF LatestKnown, Attempt
    <3> QED BY <1>2, <2>1, <3>2 DEF OrderInv
  <2>6. CASE rc'.pc \notin LookingSteps
    BY <1>2, <2>1, <2>6 DEF OrderInv, LatestKnown, LookingSteps
  <2>7. rc' = listed \/ rc'.pc \notin LookingSteps
    BY <2>2, DecidedSteps DEF LookingSteps
  <2> QED BY <2>5, <2>6, <2>7
<1>4. ASSUME NEW pc \in {"artifactAgain", "create"}, rc' = [rc EXCEPT !.pc = pc],
             UNCHANGED pjobs, rc.pc \in LookingSteps,
             rc.pc = "artifact" => rc.phase # "Running" \/ rc.att = 0
      PROVE  OrderInv'
  <2>1. rc'.pc = pc /\ rc'.fe = rc.fe /\ rc'.att = rc.att
    BY <1>0, <1>4 DEF ReconcileState
  <2>2. LatestKnown'
    BY <1>0, <1>4, <2>1 DEF OrderInv, LatestKnown, Attempt, LookingSteps
  <2> QED BY <1>2, <1>4, <2>2 DEF OrderInv
<1>5. CASE ReadArtifactAgain
  BY <1>4, <1>5 DEF ReadArtifactAgain, NoArtifact, Continue, objectVars, LookingSteps
<1>6. CASE NextAttempt
  BY <1>4, <1>6 DEF NextAttempt, AttemptWasted, NoArtifact, Continue, objectVars,
                    LookingSteps
<1>7. CASE CreatePackageJob
  <2> DEFINE key == ArtifactKey(rc.fe)
             next == rc.att + 1
             job == [NoPJob EXCEPT !.uid = rc.fe.uid, !.phase = "Running", !.pod = "new"]
  <2>1. rc'.pc \notin LookingSteps
    BY <1>7, DecidedSteps DEF CreatePackageJob, LookingSteps
  <2>2. pjobs' = pjobs \/ pjobs' = [pjobs EXCEPT ![<<key, next>>] = job]
    BY <1>7 DEF CreatePackageJob
  <2>3. job.uid = rc.fe.uid
    BY DEF NoPJob
  <2>4. /\ rc.fe.uid # 0 /\ key \in Keys
        /\ \A n \in Attempts : Attempt(key, n).uid = rc.fe.uid =>
              n <= rc.att /\ Attempt(key, n).phase # "Running"
    BY <1>0, <1>7 DEF CreatePackageJob, OrderInv, LatestKnown, LookingSteps
  <2>5. ASSUME pjobs' = [pjobs EXCEPT ![<<key, next>>] = job]
        PROVE  LaterAttemptEndsEarlier'
    <3>1. SUFFICES ASSUME NEW k \in Keys, NEW m \in Attempts, NEW n \in Attempts, m < n,
                          Attempt(k, m)'.uid = Attempt(k, n)'.uid
                   PROVE  Attempt(k, m)'.phase # "Running"
      BY DEF LaterAttemptEndsEarlier, Attempt
    <3>2. \A l \in Attempts :
            Attempt(k, l)' = IF k = key /\ l = next THEN job ELSE Attempt(k, l)
      <4> HIDE DEF job, key, next
      <4> QED BY <1>0, <2>5 DEF Attempt
    <3>3. CASE k = key /\ m = next
      <4>1. Attempt(k, n)' = Attempt(k, n) /\ Attempt(k, m)' = job
        <5> HIDE DEF job
        <5> QED BY <1>0, <3>1, <3>2, <3>3
      <4>2. Attempt(key, n).uid = rc.fe.uid
        BY <2>3, <3>1, <3>3, <4>1
      <4> QED BY <1>0, <2>4, <3>1, <3>3, <4>2
    <3>4. CASE k = key /\ n = next
      <4>1. Attempt(k, m)' = Attempt(k, m) /\ Attempt(k, n)' = job
        <5> HIDE DEF job
        <5> QED BY <1>0, <3>1, <3>2, <3>4
      <4> QED BY <2>3, <2>4, <3>1, <3>4, <4>1
    <3>5. CASE ~(k = key /\ m = next) /\ ~(k = key /\ n = next)
      <4>1. Attempt(k, m)' = Attempt(k, m) /\ Attempt(k, n)' = Attempt(k, n)
        <5> HIDE DEF job, key, next
        <5> QED BY <3>2, <3>5
      <4> QED BY <3>1, <4>1 DEF OrderInv, LaterAttemptEndsEarlier
    <3> QED BY <3>3, <3>4, <3>5
  <2>6. LaterAttemptEndsEarlier'
    <3> HIDE DEF job
    <3> QED BY <1>2, <2>2, <2>5
  <2>7. RunningExists'
    <3>1. \A name \in JobNames : pjobs'[name] = pjobs[name] \/ pjobs'[name] = job
      <4> HIDE DEF job, key, next
      <4> QED BY <1>0, <2>2
    <3> HIDE DEF job
    <3> QED BY <2>3, <2>4, <3>1 DEF OrderInv, RunningExists
  <2> QED BY <2>1, <2>6, <2>7 DEF OrderInv, LatestKnown, LookingSteps
<1>8. ASSUME NEW name \in JobNames, PackageJobAct(name)
      PROVE  OrderInv'
  BY <1>1, <1>8, ActsOnlyEnd
<1>9. CASE UNCHANGED pjobs /\ (UNCHANGED rc \/ rc'.pc \notin LookingSteps)
  <2>1. JobsOnlyEnd
    BY <1>9 DEF JobsOnlyEnd
  <2> QED BY <1>1, <1>9, <2>1
<1>10. QED
  BY <1>3, <1>5, <1>6, <1>7, <1>8, <1>9, LookingAtJobs

\* The order of the attempts is an invariant.
LEMMA OrderInvariance == Spec => []OrderInv
<1>1. Init => OrderInv
  BY DEF Init, OrderInv, LaterAttemptEndsEarlier, LatestKnown, RunningExists, Attempt,
         JobNames, NoPJob, NoReconcile
<1>2. TypeInv /\ OrderInv /\ [Next]_vars => OrderInv'
  BY OrderStep
<1>3. QED
  BY TypeInvariance, <1>1, <1>2, PTL DEF Spec

\* However reads and writes of the controller interleave with failures, edits,
\* expiries and a new FE of the same name, an FE has one package Job at work
\* on an artifact key at most.
THEOREM OnePackageJob == Spec => []OnePackageJobAtATime
<1>1. OrderInv => OnePackageJobAtATime
  <2> SUFFICES ASSUME OrderInv, NEW m \in JobNames, NEW n \in JobNames, m[1] = n[1],
                      pjobs[m].uid = pjobs[n].uid,
                      pjobs[m].phase = "Running", pjobs[n].phase = "Running"
               PROVE  m = n
    BY DEF OnePackageJobAtATime
  <2>1. PICK key \in Keys, i \in Attempts, j \in Attempts : m = <<key, i>> /\ n = <<key, j>>
    BY DEF JobNames
  <2>2. ~(i < j) /\ ~(j < i)
    BY <2>1 DEF OrderInv, LaterAttemptEndsEarlier, Attempt
  <2>3. i = j
    BY <2>2, MaxAttemptsAssumption DEF Attempts
  <2> QED BY <2>1, <2>3
<1>2. QED
  BY OrderInvariance, <1>1, PTL

-----------------------------------------------------------------------------
(* The package Jobs implement JobSeries.                                   *)

\* An act of a package Job, or of Kubernetes on it, leaves the others alone.
LEMMA ActsOnOne ==
    ASSUME TypeInv, NEW name \in JobNames, PackageJobAct(name),
           NEW other \in JobNames \ {name}
    PROVE  pjobs'[other] = pjobs[other]
<1>1. pjobs \in [JobNames -> PackageJob]
  BY DEF TypeInv, TypeOK
<1>2. ASSUME NEW job, pjobs' = [pjobs EXCEPT ![name] = job]
      PROVE  pjobs'[other] = pjobs[other]
  BY <1>1, <1>2
<1>3. CASE Packager(name)
  BY <1>2, <1>3 DEF Packager, PackagerBuild, PackagerRefuse, PackagerUpsert,
     PackagerSucceed, PJobStep
<1>4. CASE PackagerFail(name)
  BY <1>1, <1>4 DEF PackagerFail
<1>5. CASE ExpirePackageJob(name) \/ CollectPackageJob(name)
  BY <1>2, <1>5 DEF ExpirePackageJob, CollectPackageJob
<1>6. QED
  BY <1>3, <1>4, <1>5 DEF PackageJobAct

SeriesJob(job) ==
    [owner |-> job.uid,
     state |-> CASE job.uid = 0 -> "none"
                 [] job.uid # 0 /\ job.phase = "Running" -> "running"
                 [] OTHER -> "ended"]

\* What is seen of a Job depends on it alone.
LEMMA SeenJobs ==
    /\ SeriesOfJobs = [name \in JobNames |-> SeriesJob(pjobs[name])]
    /\ SeriesJob(NoPJob) = Series!NoJob
    /\ Keys \X Series!Numbers = JobNames /\ Series!Numbers = Attempts
<1>1. SeriesOfJobs = [name \in JobNames |-> SeriesJob(pjobs[name])]
  BY Zenon DEF SeriesOfJobs, SeriesJob
<1>2. SeriesJob(NoPJob) = Series!NoJob
  BY DEF SeriesJob, NoPJob, Series!NoJob
<1>3. QED
  BY <1>1, <1>2 DEF Series!Numbers, Attempts, JobNames

\* The Job that the controller makes is the next one of its series.
LEMMA CreationBegins ==
    ASSUME TypeInv, OrderInv, CreatePackageJob
    PROVE  Series!Next \/ UNCHANGED SeriesOfJobs
<1> DEFINE key == ArtifactKey(rc.fe)
           n == rc.att + 1
           job == [NoPJob EXCEPT !.uid = rc.fe.uid, !.phase = "Running", !.pod = "new"]
<1>1. /\ pjobs \in [JobNames -> PackageJob] /\ rc \in ReconcileState
      /\ rc.att \in 0 .. MaxAttempts /\ rc.fe.uid \in Uids /\ key \in Keys
  BY DEF TypeInv, TypeOK, ReconcileState, FE, Prepared, WorkSteps, CreatePackageJob
<1>2. /\ rc.fe.uid # 0
      /\ \A m \in Attempts : pjobs[<<key, m>>].uid = rc.fe.uid =>
            m <= rc.att /\ pjobs[<<key, m>>].phase # "Running"
  BY DEF OrderInv, LatestKnown, Attempt, CreatePackageJob
<1>3. \/ UNCHANGED pjobs
      \/ pjobs[<<key, n>>].uid = 0 /\ pjobs' = [pjobs EXCEPT ![<<key, n>>] = job]
  BY DEF CreatePackageJob
<1>4. SeriesJob(job) = [owner |-> rc.fe.uid, state |-> "running"]
  <2>1. job.uid = rc.fe.uid /\ job.phase = "Running"
    BY DEF NoPJob
  <2> HIDE DEF job
  <2> QED BY <1>2, <2>1 DEF SeriesJob
<1>5. CASE UNCHANGED pjobs
  BY <1>5 DEF SeriesOfJobs
<1>6. CASE <<key, n>> \notin JobNames
  <2>1. UNCHANGED pjobs
    <3> HIDE DEF job, key, n
    <3> QED BY <1>1, <1>3, <1>6
  <2> QED BY <2>1 DEF SeriesOfJobs
<1>7. CASE <<key, n>> \in JobNames /\ pjobs[<<key, n>>].uid = 0
           /\ pjobs' = [pjobs EXCEPT ![<<key, n>>] = job]
  <2>1. n \in Attempts
    BY <1>7 DEF JobNames
  <2>2. SeriesOfJobs[<<key, n>>] = Series!NoJob
    BY <1>7, SeenJobs DEF SeriesJob, Series!NoJob
  <2>3. ASSUME NEW m \in Attempts, SeriesOfJobs[<<key, m>>].owner = rc.fe.uid
        PROVE  m < n /\ SeriesOfJobs[<<key, m>>].state = "ended"
    <3>1. <<key, m>> \in JobNames
      BY <1>1 DEF JobNames
    <3>2. SeriesOfJobs[<<key, m>>] = SeriesJob(pjobs[<<key, m>>])
      BY <3>1, SeenJobs
    <3>3. pjobs[<<key, m>>].uid = rc.fe.uid
      BY <2>3, <3>2 DEF SeriesJob
    <3>4. m <= rc.att /\ pjobs[<<key, m>>].phase # "Running"
      BY <1>2, <3>3
    <3>5. SeriesOfJobs[<<key, m>>].state = "ended"
      BY <1>2, <3>2, <3>3, <3>4 DEF SeriesJob
    <3>6. m < n
      BY <1>1, <3>4, MaxAttemptsAssumption DEF Attempts
    <3> QED BY <3>5, <3>6
  <2>4. SeriesOfJobs' = [SeriesOfJobs EXCEPT ![<<key, n>>] =
                            [owner |-> rc.fe.uid, state |-> "running"]]
    <3>1. SeriesOfJobs' = [name \in JobNames |-> SeriesJob(pjobs'[name])]
      BY Zenon DEF SeriesOfJobs, SeriesJob
    <3>2. \A name \in JobNames :
            pjobs'[name] = IF name = <<key, n>> THEN job ELSE pjobs[name]
      <4> HIDE DEF job, key, n
      <4> QED BY <1>1, <1>7
    <3> HIDE DEF job, key, n
    <3> QED BY <1>4, <3>1, <3>2, SeenJobs
  <2>5. Series!Begin(rc.fe.uid, key, n)
    <3> HIDE DEF key, n
    <3> QED BY <2>2, <2>3, <2>4, SeenJobs DEF Series!Begin
  <2>6. rc.fe.uid \in Uids \ {0}
    BY <1>1, <1>2
  <2> HIDE DEF key, n
  <2> QED BY <1>1, <2>1, <2>5, <2>6, SeenJobs DEF Series!Next
<1>8. QED
  BY <1>3, <1>5, <1>6, <1>7

\* Whatever else happens to a package Job ends it, drops it, or is not seen.
LEMMA ActsEndOrDrop ==
    ASSUME TypeInv, TypeInv', OrderInv, NEW name \in JobNames, PackageJobAct(name)
    PROVE  Series!Next \/ UNCHANGED SeriesOfJobs
<1>1. /\ pjobs \in [JobNames -> PackageJob] /\ pjobs' \in [JobNames -> PackageJob]
      /\ \A other \in JobNames \ {name} : pjobs'[other] = pjobs[other]
  BY ActsOnOne DEF TypeInv, TypeOK
<1>2. SeriesOfJobs' = [SeriesOfJobs EXCEPT ![name] = SeriesJob(pjobs'[name])]
  <2>1. SeriesOfJobs' = [other \in JobNames |-> SeriesJob(pjobs'[other])]
    BY Zenon DEF SeriesOfJobs, SeriesJob
  <2> QED BY <1>1, <2>1, SeenJobs
<1>3. \/ pjobs'[name] = NoPJob
      \/ /\ pjobs'[name].uid = pjobs[name].uid
         /\ pjobs'[name].phase = "Running" => pjobs[name].phase = "Running"
  BY ActsOnlyEnd DEF JobsOnlyEnd
<1>4. SeriesOfJobs[name] = SeriesJob(pjobs[name])
  BY SeenJobs
<1>5. CASE pjobs'[name] = NoPJob
  <2>1. Series!Drop(name)
    BY <1>2, <1>5, SeenJobs DEF Series!Drop
  <2> QED BY <2>1, SeenJobs DEF Series!Next
<1>6. CASE SeriesJob(pjobs'[name]) = SeriesJob(pjobs[name])
  <2>1. UNCHANGED SeriesOfJobs
    BY <1>2, <1>4, <1>6, SeenJobs
  <2> QED BY <2>1
<1>7. CASE /\ pjobs'[name].uid = pjobs[name].uid /\ pjobs[name].uid # 0
           /\ pjobs[name].phase = "Running" /\ pjobs'[name].phase # "Running"
  <2>1. /\ SeriesJob(pjobs[name]) = [owner |-> pjobs[name].uid, state |-> "running"]
        /\ SeriesJob(pjobs'[name]) = [owner |-> pjobs[name].uid, state |-> "ended"]
    BY <1>7 DEF SeriesJob
  <2>2. SeriesJob(pjobs'[name]) = [SeriesOfJobs[name] EXCEPT !.state = "ended"]
    BY <1>4, <2>1
  <2>3. SeriesOfJobs' = [SeriesOfJobs EXCEPT ![name].state = "ended"]
    BY <1>2, <2>2
  <2>4. SeriesOfJobs[name].state = "running"
    BY <1>4, <2>1
  <2>5. Series!End(name)
    BY <2>3, <2>4, Zenon DEF Series!End
  <2> QED BY <2>5, SeenJobs DEF Series!Next
<1>8. \/ pjobs'[name] = NoPJob \/ SeriesJob(pjobs'[name]) = SeriesJob(pjobs[name])
      \/ /\ pjobs'[name].uid = pjobs[name].uid /\ pjobs[name].uid # 0
         /\ pjobs[name].phase = "Running" /\ pjobs'[name].phase # "Running"
  BY <1>3 DEF SeriesJob
<1>9. QED
  BY <1>5, <1>6, <1>7, <1>8

\* The package Jobs of the detailed specification, seen from outside, are the
\* Jobs of the abstract one: every step maps to a step of it or a stutter.
THEOREM PackageJobsImplementSeries == Spec => PackageJobsAreSeries
<1>1. Init => Series!Init
  BY SeenJobs DEF Init, Series!Init
<1>2. TypeInv /\ TypeInv' /\ OrderInv /\ [Next]_vars => [Series!Next]_SeriesOfJobs
  <2> SUFFICES ASSUME TypeInv, TypeInv', OrderInv, [Next]_vars
               PROVE  Series!Next \/ UNCHANGED SeriesOfJobs
    OBVIOUS
  <2>1. CASE UNCHANGED pjobs
    BY <2>1 DEF SeriesOfJobs
  <2> QED BY <2>1, PackageJobSteps, CreationBegins, ActsEndOrDrop
<1>3. QED
  BY TypeInvariance, OrderInvariance, <1>1, <1>2, PTL
     DEF Spec, PackageJobsAreSeries, Series!Spec

-----------------------------------------------------------------------------
(* An FE whose attempts are used up gets no further one: a proof for every *)
(* value of the constants of FrontendExtension, provided that its Jobs     *)
(* stay as long as it is there and that it is not made anew.               *)

\* Package Jobs neither expire nor are collected while the FE is there, and
\* there is no second FE of the name.  Each is needed: the controller counts
\* the Jobs there are, so that it begins anew when they have gone, and a
\* reconcile of an earlier FE may write its Failed to a later one, which has
\* made no attempt.
OneLife == {"ttl", "foreground", "recreate"} \cap Disturbances = {}

-----------------------------------------------------------------------------
(* The invariant that the last attempt was made.                           *)

\* Among the jobs is attempt n of the FE, if there is one.
AttemptMade(jobs, uid, key, n) == key \in Keys /\ (uid # 0 => jobs[<<key, n>>].uid = uid)

\* A status says Failed of a valid source only if the last attempt was made.
UsedUp(jobs, uid, status) ==
    status.phase = "Failed" /\ status.src \in ValidSources =>
        AttemptMade(jobs, uid, ArtifactKey(status), MaxAttempts)

\* The attempt that a reconcile found to be the latest is there.
LatestMade ==
    rc.pc \in {"artifact", "artifactAgain"} /\ rc.att # 0 =>
        AttemptMade(pjobs, fe.uid, ArtifactKey(rc.fe), rc.att)

\* The status on the FE, and the one that is about to be written.
LimitInv ==
    /\ fe.uid \in {0, 1} /\ cache.uid \in {0, 1} /\ ~fe.deleting
    /\ fe.uid = 0 => fe.status = NoStatus
    /\ LatestMade
    /\ UsedUp(pjobs, fe.uid, fe.status) /\ UsedUp(pjobs, fe.uid, rc.status)

-----------------------------------------------------------------------------
(* What a step may change.                                                 *)

\* What is to be written of the FE is of the FE there is, with its status, or
\* of none.
SameLife(new) ==
    /\ new \in FE
    /\ \/ new.uid = fe.uid /\ new.status = fe.status /\ ~new.deleting
       \/ new = AbsentFE

\* Seen later or not, what is written is what is there.
LEMMA StoredLife ==
    ASSUME TypeInv, LimitInv, NEW new, SameLife(new), fe' = Stored(new) \/ fe' = fe
    PROVE  \/ fe'.uid = fe.uid /\ fe'.status = fe.status /\ ~fe'.deleting
           \/ fe'.uid = 0 /\ fe'.status = NoStatus /\ ~fe'.deleting
<1>1. fe \in FE /\ new \in FE
  BY DEF TypeInv, TypeOK, SameLife
<1>2. AbsentFE.uid = 0 /\ AbsentFE.status = NoStatus /\ ~AbsentFE.deleting
  BY DEF AbsentFE, NewFE
<1>3. /\ Stored(new).uid = new.uid /\ Stored(new).status = new.status
      /\ Stored(new).deleting = new.deleting
  BY <1>1 DEF Stored, FE
<1>4. QED
  BY <1>2, <1>3 DEF SameLife, LimitInv

\* A step keeps the FE with its status, removes it, or writes a status.
LEMMA LifeSteps ==
    ASSUME OneLife, TypeInv, LimitInv, [Next]_vars
    PROVE  \/ fe'.uid = fe.uid /\ fe'.status = fe.status /\ ~fe'.deleting
           \/ fe'.uid = 0 /\ fe'.status = NoStatus /\ ~fe'.deleting
           \/ PatchStatus
<1> DEFINE Goal == \/ fe'.uid = fe.uid /\ fe'.status = fe.status /\ ~fe'.deleting
                   \/ fe'.uid = 0 /\ fe'.status = NoStatus /\ ~fe'.deleting
                   \/ PatchStatus
<1>0. fe \in FE /\ SameLife(fe) /\ SameLife(AbsentFE)
  BY ObjectTypes DEF TypeInv, TypeOK, LimitInv, SameLife
<1>1. CASE UNCHANGED fe
  BY <1>0, <1>1, StoredLife
<1>2. ASSUME NEW new, SameLife(new), fe' = Stored(new) PROVE Goal
  BY <1>2, StoredLife
<1>3. CASE ControllerNext
  <2>1. CASE CacheSync
    <3>1. SameLife([fe EXCEPT !.unseen = FALSE])
      BY <1>0 DEF SameLife, FE, LimitInv
    <3>2. fe' = [fe EXCEPT !.unseen = FALSE]
      BY <2>1 DEF CacheSync
    <3> QED BY <1>0, <3>2 DEF LimitInv, FE
  <2>2. CASE PatchLabels
    <3>1. SameLife([fe EXCEPT !.labels = rc.labels])
      BY <1>0, ReconcileTypes DEF SameLife, FE, LimitInv
    <3> QED BY <1>1, <1>2, <2>2, <3>1 DEF PatchLabels
  <2>3. CASE DeleteFrontendExtension
    BY <1>0, <1>1, <1>2, <2>3 DEF DeleteFrontendExtension
  <2>4. CASE \/ ReconcileStart \/ ArtifactFound \/ PackageJobInProgress
             \/ ReadArtifactAgain \/ PackageAttemptsExceeded \/ NextAttempt
             \/ CreatePackageJob \/ ObservePublishJob \/ KeepFinishedPublish
             \/ NeedPublishJob \/ CreatePublishJob \/ ObserveUnpublishJob
             \/ KeepFinishedUnpublish \/ NeedUnpublishJob \/ CreateUnpublishJob
             \/ GetLatest \/ GetPatched \/ ListOldArtifacts \/ DeleteOldArtifact
             \/ ReconcileError
    <3>1. UNCHANGED fe
      BY <2>4 DEF Continue, ReconcileStart,
       ArtifactFound, PackageJobInProgress, ReadArtifactAgain, PackageAttemptsExceeded,
       NextAttempt, CreatePackageJob, ObservePublishJob, KeepFinishedPublish,
       NeedPublishJob, CreatePublishJob, ObserveUnpublishJob, KeepFinishedUnpublish,
       NeedUnpublishJob, CreateUnpublishJob, CreateRequestJob, GetLatest, GetPatched,
       ListOldArtifacts, DeleteOldArtifact, ReconcileError
    <3> QED BY <1>1, <3>1
  <2> QED BY <1>3, <2>1, <2>2, <2>3, <2>4 DEF ControllerNext, Reconcile
<1>4. CASE JobsNext
  <2>1. CASE RemoveDeletedFE
    BY <2>1 DEF RemoveDeletedFE, LimitInv
  <2>2. CASE UNCHANGED fe
    BY <1>1, <2>2
  <2> QED BY <1>4, <2>1, <2>2
          DEF JobsNext, Packager, PackagerBuild, PackagerRefuse, PackagerUpsert,
              PackagerSucceed, PJobStep, PackagerFail, ExpirePackageJob, Publisher,
              PublisherInstall, PublisherRefuse, PublisherUninstall, PublisherSucceed,
              RJobStep, PublisherFail, ExpireRequestJob, Collector, CollectPackageJob,
              CollectRequestJob, CollectArtifact
<1>5. CASE ApiNext
  <2>1. ASSUME NEW source \in Sources, EditSpec(source) PROVE Goal
    <3>1. \A src \in Maybe(Sources), gen \in Nat :
            SameLife([fe EXCEPT !.src = src, !.gen = gen])
      BY <1>0 DEF SameLife, FE, LimitInv
    <3>2. fe.gen + 1 \in Nat /\ source \in Maybe(Sources)
      BY <1>0 DEF FE, Maybe
    <3>3. SameLife([fe EXCEPT !.src = source, !.gen = @ + 1])
      BY <3>1, <3>2
    <3> QED BY <1>2, <2>1, <3>3 DEF EditSpec, UserWrites
  <2>2. ASSUME NEW token \in Tokens, SetRebuildToken(token) PROVE Goal
    <3>1. SameLife([fe EXCEPT !.token = token])
      BY <1>0 DEF SameLife, FE, LimitInv, Maybe
    <3> QED BY <1>2, <2>2, <3>1 DEF SetRebuildToken, UserWrites
  <2>3. ASSUME NEW id \in PublishIds, NEW source \in {None, fe.src},
               NEW digest \in Digests \cup {None}, AnnotatePublish(id, source, digest)
        PROVE  Goal
    <3>1. [id |-> id, gen |-> 0, src |-> source, digest |-> digest] \in Request
      BY <1>0 DEF Request, FE, Maybe
    <3>2. \A request \in Request : SameLife([fe EXCEPT !.pub = request])
      BY <1>0 DEF SameLife, FE, LimitInv
    <3>3. SameLife([fe EXCEPT !.pub = [id |-> id, gen |-> 0, src |-> source,
                                       digest |-> digest]])
      BY <3>1, <3>2
    <3> QED BY <1>2, <2>3, <3>3 DEF AnnotatePublish, UserWrites
  <2>4. ASSUME NEW id \in UnpublishIds, AnnotateUnpublish(id) PROVE Goal
    <3>1. SameLife([fe EXCEPT !.unpub = id])
      BY <1>0 DEF SameLife, FE, LimitInv, Maybe
    <3> QED BY <1>2, <2>4, <3>1 DEF AnnotateUnpublish, UserWrites
  <2>5. CASE DeleteInBackground
    BY <1>0, <1>2, <2>5 DEF DeleteInBackground, UserWrites
  <2>6. ~DeleteInForeground /\ \A source, token : ~Recreate(source, token)
    BY DEF OneLife, DeleteInForeground, Recreate, UserWrites, Disturb
  <2>7. CASE PatchPublishRequest
    <3>1. SameLife([fe EXCEPT !.pub = api.req, !.target = TRUE])
      BY <1>0 DEF SameLife, FE, LimitInv, TypeInv, TypeOK, Call
    <3> QED BY <1>1, <1>2, <2>7, <3>1 DEF PatchPublishRequest
  <2>8. CASE PatchUnpublishRequest
    <3>1. \A x \in Maybe(UnpublishIds), y \in Maybe(UnpublishIds) :
             SameLife([fe EXCEPT !.unpub = x, !.target = TRUE, !.delAfter = y])
      BY <1>0 DEF SameLife, FE, LimitInv
    <3>2. api.id \in Maybe(UnpublishIds) /\ fe.delAfter \in Maybe(UnpublishIds)
      BY <1>0, <2>8 DEF PatchUnpublishRequest, TypeInv, CallPrepared, FE, Maybe
    <3>3. SameLife([fe EXCEPT !.unpub = api.id, !.target = TRUE,
                              !.delAfter = IF api.op = "unpublish" THEN @ ELSE api.id])
      BY <3>1, <3>2
    <3> QED BY <1>1, <1>2, <2>8, <3>3 DEF PatchUnpublishRequest
  <2>9. CASE DeleteByName
    BY <1>0, <1>1, <1>2, <2>9 DEF DeleteByName
  <2>10. CASE UNCHANGED fe
    BY <1>1, <2>10
  <2> QED BY <1>5, <2>1, <2>2, <2>3, <2>4, <2>5, <2>6, <2>7, <2>8, <2>9, <2>10
          DEF ApiNext, ApiCompletes, TamperArtifact, TriggerPublish, TriggerUnpublish,
              DeleteExtension, Accept
<1>6. QED
  BY <1>1, <1>3, <1>4, <1>5 DEF Next, vars

\* An FE that has left is not there again, and what a step writes of it is the
\* FE there is.
LEMMA UidSteps ==
    ASSUME OneLife, TypeInv, LimitInv, [Next]_vars
    PROVE  /\ fe'.uid \in {fe.uid, 0} /\ ~fe'.deleting
           /\ fe'.uid = 0 => fe'.status = NoStatus
           /\ \/ fe'.status = fe.status \/ fe'.status = NoStatus
              \/ fe'.status = MergedStatus(fe.status, rc.status)
<1>0. fe \in FE /\ rc.status \in Status /\ fe.status \in Status
  BY ReconcileTypes
<1>1. CASE PatchStatus
  <2>1. CASE fe.uid = 0
    BY <1>1, <2>1 DEF PatchStatus, LimitInv
  <2>2. CASE fe.uid # 0
    <3> DEFINE merged == MergedStatus(fe.status, rc.status)
               new == [fe EXCEPT !.status = merged]
    <3>1. fe' = Stored(new)
      BY <1>1, <2>2 DEF PatchStatus
    <3>2. merged \in Status
      BY <1>0, StatusTypes, AbsentTypes DEF Maybe
    <3>3. new \in FE /\ new.uid = fe.uid /\ ~new.deleting /\ new.status = merged
      <4> HIDE DEF merged
      <4> QED BY <1>0, <3>2 DEF FE, LimitInv
    <3> HIDE DEF new, merged
    <3>4. fe'.uid = fe.uid /\ ~fe'.deleting /\ fe'.status = merged
      BY <3>1, <3>3 DEF Stored, FE
    <3> QED BY <2>2, <3>4 DEF merged
  <2> QED BY <2>1, <2>2
<1>2. QED
  BY <1>1, LifeSteps DEF LimitInv

\* A package Job of the FE stays as long as the FE does.
LEMMA AttemptsStay ==
    ASSUME OneLife, TypeInv, LimitInv, [Next]_vars,
           NEW name \in JobNames, fe.uid # 0, pjobs[name].uid = fe.uid
    PROVE  pjobs'[name].uid = fe.uid
<1>0. pjobs \in [JobNames -> PackageJob] /\ pjobs[name] \in PackageJob
  BY DEF TypeInv, TypeOK
<1>1. CASE CreatePackageJob
  <2>1. PICK other, job : pjobs' = pjobs \/ /\ pjobs[other].uid = 0
                                            /\ pjobs' = [pjobs EXCEPT ![other] = job]
    BY <1>1 DEF CreatePackageJob
  <2> QED BY <1>0, <2>1
<1>2. ASSUME NEW other \in JobNames, PackageJobAct(other) PROVE pjobs'[name].uid = fe.uid
  <2>1. CASE other # name
    BY <1>2, <2>1, ActsOnOne
  <2>2. ~ExpirePackageJob(name) /\ ~CollectPackageJob(name)
    BY DEF OneLife, ExpirePackageJob, Disturb, CollectPackageJob, Orphaned, LimitInv
  <2>3. ASSUME NEW job \in PackageJob, job.uid = pjobs[name].uid,
               pjobs' = [pjobs EXCEPT ![name] = job]
        PROVE  pjobs'[name].uid = fe.uid
    BY <1>0, <2>3
  <2>4. CASE PackagerBuild(name)
    <3>1. PICK digest : pjobs' = [pjobs EXCEPT ![name] =
                            [pjobs[name] EXCEPT !.pod = "built", !.owner = fe.uid,
                                                !.digest = digest]]
      BY <2>4 DEF PackagerBuild, PJobStep
    <3>2. [pjobs[name] EXCEPT !.pod = "built", !.owner = fe.uid,
                              !.digest = digest].uid = pjobs[name].uid
      BY <1>0 DEF PackageJob
    <3> QED BY <1>0, <3>1, <3>2
  <2>5. CASE PackagerRefuse(name)
    BY <1>0, <2>5 DEF PackagerRefuse, PJobStep, PackageJob
  <2>6. CASE PackagerUpsert(name)
    <3>1. PICK pod : pjobs' = [pjobs EXCEPT ![name] = [pjobs[name] EXCEPT !.pod = pod]]
      BY <2>6 DEF PackagerUpsert, PJobStep
    <3> QED BY <1>0, <3>1 DEF PackageJob
  <2>7. CASE PackagerSucceed(name)
    BY <1>0, <2>7 DEF PackagerSucceed, PJobStep, PackageJob
  <2>8. CASE PackagerFail(name)
    <3>1. PICK pod : pjobs' = [pjobs EXCEPT ![name].phase = "Failed", ![name].pod = pod]
      BY <2>8 DEF PackagerFail
    <3>2. pjobs' = [pjobs EXCEPT ![name] =
                      [pjobs[name] EXCEPT !.phase = "Failed", !.pod = pod]]
      BY <1>0, <3>1 DEF PackageJob
    <3> QED BY <1>0, <3>2 DEF PackageJob
  <2> QED BY <1>2, <2>1, <2>2, <2>4, <2>5, <2>6, <2>7, <2>8
          DEF PackageJobAct, Packager
<1>3. QED
  BY <1>1, <1>2, PackageJobSteps

\* An attempt that was made stays made.
LEMMA MadeStays ==
    ASSUME OneLife, TypeInv, LimitInv, [Next]_vars,
           NEW key, NEW n \in Attempts, AttemptMade(pjobs, fe.uid, key, n)
    PROVE  AttemptMade(pjobs', fe'.uid, key, n)
<1>1. key \in Keys /\ <<key, n>> \in JobNames
  BY DEF AttemptMade, JobNames
<1>2. CASE fe'.uid = 0
  BY <1>1, <1>2 DEF AttemptMade
<1>3. CASE fe'.uid # 0
  <2>1. fe'.uid = fe.uid /\ fe.uid # 0
    BY <1>3, UidSteps
  <2>2. pjobs'[<<key, n>>].uid = fe.uid
    BY <1>1, <2>1, AttemptsStay DEF AttemptMade
  <2> QED BY <1>1, <2>1, <2>2 DEF AttemptMade
<1>4. QED
  BY <1>2, <1>3

-----------------------------------------------------------------------------
(* Who says Failed.                                                        *)

\* A reconcile that has found its artifact does not.
LEMMA FoundStatus ==
    /\ \A r, status, requeue : Write(r, status, requeue).status = status
    /\ \A r \in ReconcileState : \A unpublish, requeue :
          WriteReady(r, unpublish, requeue).status.phase = "Ready"
    /\ \A r \in ReconcileState : \A publish, requeue :
          \/ Published(r, publish, requeue).status = r.status
          \/ Published(r, publish, requeue).status.phase = "Ready"
    /\ \A r \in ReconcileState :
          SyncPublish(r).status = r.status \/ SyncPublish(r).status.phase = "Ready"
<1>0. \A r, status, requeue : Write(r, status, requeue).status = status
  BY ObjectTypes DEF Write, ReconcileState
<1>1. \A r, unpublish, requeue : WriteReady(r, unpublish, requeue).status.phase = "Ready"
  <2>1. \A x, digest, publish, unpublish :
          ReadyStatus(x, digest, publish, unpublish).phase = "Ready"
    BY DEF ReadyStatus, StatusFor
  <2> QED BY <1>0, <2>1 DEF WriteReady
<1>2. \A r \in ReconcileState : \A publish, requeue :
          \/ Published(r, publish, requeue).status = r.status
          \/ Published(r, publish, requeue).status.phase = "Ready"
  <2> SUFFICES ASSUME NEW r \in ReconcileState, NEW publish, NEW requeue
               PROVE  \/ Published(r, publish, requeue).status = r.status
                      \/ Published(r, publish, requeue).status.phase = "Ready"
    OBVIOUS
  <2> DEFINE q == [r EXCEPT !.pub = publish, !.requeue = requeue]
  <2>1. [q EXCEPT !.pc = "unpublish"].status = r.status
    BY DEF ReconcileState
  <2>2. Published(r, publish, requeue) = SyncUnpublish(q)
    BY Zenon DEF Published
  <2> HIDE DEF q
  <2> QED BY <1>1, <2>1, <2>2 DEF SyncUnpublish
<1>3. \A r \in ReconcileState :
          SyncPublish(r).status = r.status \/ SyncPublish(r).status.phase = "Ready"
  <2> SUFFICES ASSUME NEW r \in ReconcileState
               PROVE  SyncPublish(r).status = r.status \/ SyncPublish(r).status.phase = "Ready"
    OBVIOUS
  <2>1. [r EXCEPT !.pc = "publish"].status = r.status
    BY DEF ReconcileState
  <2> QED BY <1>2, <2>1 DEF SyncPublish
<1>4. QED
  BY <1>0, <1>1, <1>2, <1>3

\* A step leaves the status of the reconcile, or puts one in its place that
\* does not say Failed, but when the source is found invalid or the last
\* attempt found wasted.
LEMMA FailedSteps ==
    ASSUME TypeInv, [Next]_vars
    PROVE  \/ rc'.status = rc.status
           \/ rc'.status.phase # "Failed"
           \/ cache.src \notin ValidSources /\ rc'.status = FailedStatus(cache)
           \/ PackageAttemptsExceeded /\ rc'.status = FailedStatus(rc.fe)
<1> DEFINE Goal == \/ rc'.status = rc.status
                   \/ rc'.status.phase # "Failed"
                   \/ cache.src \notin ValidSources /\ rc'.status = FailedStatus(cache)
                   \/ PackageAttemptsExceeded /\ rc'.status = FailedStatus(rc.fe)
<1>0. /\ rc \in ReconcileState
      /\ NoReconcile.status.phase # "Failed"
      /\ \A pc : [rc EXCEPT !.pc = pc].status = rc.status
  <2>1. NoReconcile.status.phase # "Failed"
    BY DEF NoReconcile, NoStatus
  <2>2. \A pc : [rc EXCEPT !.pc = pc].status = rc.status
    BY DEF TypeInv, TypeOK, ReconcileState
  <2> QED BY <2>1, <2>2 DEF TypeInv, TypeOK
<1>1. CASE UNCHANGED rc
  BY <1>1
<1>2. Finish \/ Abort \/ StatusDone \/ LabelsOrDone => Goal
  <2>1. Finish \/ Abort => Goal
    BY <1>0 DEF Finish, Abort
  <2>2. StatusDone => Goal
    BY <1>0, <2>1 DEF StatusDone
  <2>3. \A labels : [rc EXCEPT !.pc = "labels", !.labels = labels].status = rc.status
    BY <1>0 DEF ReconcileState
  <2> QED BY <2>1, <2>2, <2>3 DEF LabelsOrDone
<1>3. CASE ControllerNext
  <2>1. CASE ReconcileStart
    <3> DEFINE n == LatestAttempt(cache)
               listed == [NoReconcile EXCEPT
                            !.pc = "artifact", !.fe = cache, !.att = n,
                            !.phase = IF n = 0 THEN "Absent"
                                      ELSE pjobs[<<ArtifactKey(cache), n>>].phase]
    <3>1. rc' = CASE cache.deleting -> NoReconcile
                  [] cache.src \notin ValidSources -> Write(listed, FailedStatus(cache), FALSE)
                  [] OTHER -> listed
      BY <2>1, Zenon DEF ReconcileStart
    <3>2. listed.status.phase # "Failed"
      <4> HIDE DEF n
      <4> QED BY ObjectTypes DEF ReconcileState, NoReconcile, NoStatus
    <3>3. Write(listed, FailedStatus(cache), FALSE).status = FailedStatus(cache)
      BY ObjectTypes DEF Write, ReconcileState
    <3> HIDE DEF listed
    <3>4. CASE cache.deleting
      <4>1. rc' \in {NoReconcile, Write(listed, FailedStatus(cache), FALSE)}
        BY <3>1, <3>4
      <4>2. cache.src \in ValidSources => rc' = NoReconcile
        BY <3>1, <3>4
      <4> QED BY <1>0, <3>3, <4>1, <4>2
    <3>5. CASE ~cache.deleting /\ cache.src \notin ValidSources
      <4>1. rc' = Write(listed, FailedStatus(cache), FALSE)
        BY <3>1, <3>5
      <4> QED BY <3>3, <3>5, <4>1
    <3>6. CASE ~cache.deleting /\ cache.src \in ValidSources
      <4>1. rc' = listed
        BY <3>1, <3>6
      <4> QED BY <3>2, <4>1
    <3> QED BY <3>4, <3>5, <3>6
  <2>2. CASE ArtifactFound
    <3> DEFINE q == [rc EXCEPT !.digest = cms[ArtifactKey(rc.fe)].digest,
                               !.att = 0, !.phase = "Absent"]
    <3>1. q \in ReconcileState
      <4>1. ArtifactKey(rc.fe) \in Keys
        BY <2>2 DEF ArtifactFound, TypeInv, Prepared, WorkSteps
      <4>2. cms[ArtifactKey(rc.fe)].digest \in Maybe(Digests)
        BY <4>1 DEF TypeInv, TypeOK, ConfigMap
      <4>3. 0 \in 0 .. MaxAttempts /\ "Absent" \in JobPhases
        BY MaxAttemptsAssumption DEF JobPhases
      <4> QED BY <1>0, <4>2, <4>3 DEF ReconcileState
    <3>2. rc' = SyncPublish(q) /\ q.status = rc.status
      BY <1>0, <2>2 DEF ArtifactFound, Continue, ReconcileState
    <3> HIDE DEF q
    <3> QED BY <3>1, <3>2, FoundStatus
  <2>3. CASE PackageJobInProgress
    <3>1. PackagingStatus(rc.fe).phase # "Failed"
      BY DEF PackagingStatus, StatusFor
    <3>2. PICK requeue : rc' = Write(rc, PackagingStatus(rc.fe), requeue)
      BY <2>3 DEF PackageJobInProgress, Continue
    <3> QED BY <3>1, <3>2, FoundStatus
  <2>4. CASE PackageAttemptsExceeded
    <3>1. PICK requeue : rc' = Write(rc, FailedStatus(rc.fe), requeue)
      BY <2>4 DEF PackageAttemptsExceeded, Continue
    <3> QED BY <2>4, <3>1, FoundStatus
  <2>5. CASE CreatePackageJob
    <3>1. PackagingStatus(rc.fe).phase # "Failed"
      BY DEF PackagingStatus, StatusFor
    <3>2. PICK requeue : rc' = Write(rc, PackagingStatus(rc.fe), requeue)
      BY <2>5 DEF CreatePackageJob
    <3> QED BY <3>1, <3>2, FoundStatus
  <2>6. CASE ObservePublishJob \/ KeepFinishedPublish \/ CreatePublishJob
    <3>1. PICK publish, requeue : rc' = Published(rc, publish, requeue)
      <4>1. CASE ObservePublishJob
        BY <4>1, Zenon DEF ObservePublishJob, Continue, PublishJobSynced
      <4>2. CASE KeepFinishedPublish
        BY <4>2, Zenon DEF KeepFinishedPublish, Continue
      <4>3. CASE CreatePublishJob
        BY <4>3, Zenon DEF CreatePublishJob, CreateRequestJob, PublishJobSynced
      <4> QED BY <2>6, <4>1, <4>2, <4>3
    <3> QED BY <1>0, <3>1, FoundStatus
  <2>7. CASE ObserveUnpublishJob \/ KeepFinishedUnpublish \/ CreateUnpublishJob
    <3>1. PICK unpublish, requeue : rc' = WriteReady(rc, unpublish, requeue)
      <4>1. CASE ObserveUnpublishJob
        BY <4>1, Zenon DEF ObserveUnpublishJob, Continue, UnpublishJobSynced
      <4>2. CASE KeepFinishedUnpublish
        BY <4>2, Zenon DEF KeepFinishedUnpublish, Continue
      <4>3. CASE CreateUnpublishJob
        BY <4>3, Zenon DEF CreateUnpublishJob, CreateRequestJob, UnpublishJobSynced
      <4> QED BY <2>7, <4>1, <4>2, <4>3
    <3> QED BY <1>0, <3>1, FoundStatus
  <2>8. CASE ReadArtifactAgain \/ NextAttempt \/ NeedPublishJob \/ NeedUnpublishJob
    BY <1>0, <2>8 DEF ReadArtifactAgain, NextAttempt, NeedPublishJob, NeedUnpublishJob, Continue
  <2>9. CASE GetLatest \/ PatchStatus \/ GetPatched \/ PatchLabels
    BY <1>0, <1>2, <2>9 DEF GetLatest, PatchStatus, GetPatched, PatchLabels
  <2>10. CASE DeleteFrontendExtension \/ ReconcileError
    BY <1>0, <1>2, <2>10 DEF DeleteFrontendExtension, ReconcileError
  <2>11. CASE ListOldArtifacts
    <3>1. \A doomed : [NoReconcile EXCEPT !.pc = "gc", !.doomed = doomed,
                          !.requeue = rc.requeue].status.phase # "Failed"
      BY ObjectTypes DEF ReconcileState, NoReconcile, NoStatus
    <3> QED BY <1>2, <2>11, <3>1 DEF ListOldArtifacts
  <2>12. CASE DeleteOldArtifact
    <3>1. \A doomed : [rc EXCEPT !.doomed = doomed].status = rc.status
      BY <1>0 DEF ReconcileState
    <3> QED BY <1>0, <2>12, <3>1 DEF DeleteOldArtifact
  <2>13. CASE CacheSync
    BY <2>13 DEF CacheSync
  <2> QED BY <1>3, <2>1, <2>2, <2>3, <2>4, <2>5, <2>6, <2>7, <2>8, <2>9, <2>10, <2>11,
             <2>12, <2>13 DEF ControllerNext, Reconcile
<1>4. CASE JobsNext
  BY <1>1, <1>4
     DEF JobsNext, Packager, PackagerBuild, PackagerRefuse, PackagerUpsert,
         PackagerSucceed, PJobStep, PackagerFail, ExpirePackageJob, Publisher,
         PublisherInstall, PublisherRefuse, PublisherUninstall, PublisherSucceed,
         RJobStep, PublisherFail, ExpireRequestJob, Collector, CollectPackageJob,
         CollectRequestJob, CollectArtifact, RemoveDeletedFE, controllerVars
<1>5. CASE ApiNext
  BY <1>1, <1>5
     DEF ApiNext, UserWrites, EditSpec, SetRebuildToken, AnnotatePublish,
         AnnotateUnpublish, DeleteInBackground, DeleteInForeground, Recreate, TamperArtifact,
         TriggerPublish, TriggerUnpublish, DeleteExtension, Accept, ApiCompletes,
         PatchPublishRequest, PatchUnpublishRequest, DeleteByName, controllerVars
<1>6. QED
  BY <1>1, <1>3, <1>4, <1>5 DEF Next, vars

-----------------------------------------------------------------------------
(* The invariant.                                                          *)

\* The attempt a reconcile finds to be the latest is there, and stays.
LEMMA LatestStays ==
    ASSUME OneLife, TypeInv, LimitInv, [Next]_vars
    PROVE  LatestMade'
<1>0. rc \in ReconcileState /\ rc.att \in 0 .. MaxAttempts /\ Attempts = 1 .. MaxAttempts
  BY DEF TypeInv, TypeOK, ReconcileState, Attempts
<1>1. CASE UNCHANGED rc
  <2>1. rc.att # 0 => rc.att \in Attempts
    BY <1>0, MaxAttemptsAssumption
  <2> QED BY <1>1, <2>1, MadeStays DEF LimitInv, LatestMade
<1>2. CASE rc'.pc \notin LookingSteps
  BY <1>2 DEF LatestMade, LookingSteps
<1>3. CASE ReconcileStart
  <2> DEFINE n == LatestAttempt(cache)
             listed == [NoReconcile EXCEPT
                          !.pc = "artifact", !.fe = cache, !.att = n,
                          !.phase = IF n = 0 THEN "Absent"
                                    ELSE pjobs[<<ArtifactKey(cache), n>>].phase]
  <2>1. /\ UNCHANGED <<fe, pjobs>> /\ cache.uid = 1 /\ ArtifactKey(cache) \in Keys
    BY <1>3 DEF ReconcileStart, objectVars, LimitInv, TypeInv, Keyed, ArtifactKey, Keys
  <2>2. rc' = CASE cache.deleting -> NoReconcile
                [] cache.src \notin ValidSources -> Write(listed, FailedStatus(cache), FALSE)
                [] OTHER -> listed
    BY <1>3, Zenon DEF ReconcileStart
  <2>3. listed.fe = cache /\ listed.att = n
    <3> HIDE DEF n
    <3> QED BY ObjectTypes DEF ReconcileState
  <2>4. n # 0 => pjobs[<<ArtifactKey(cache), n>>].uid = cache.uid
    BY LatestAttemptIsLatest
  <2> HIDE DEF listed, n
  <2>5. CASE rc' = listed
    BY <2>1, <2>3, <2>4, <2>5 DEF LatestMade, AttemptMade, LimitInv
  <2>6. rc' = listed \/ rc'.pc \notin LookingSteps
    BY <2>2, DecidedSteps DEF LookingSteps
  <2> QED BY <1>2, <2>5, <2>6
<1>4. CASE ReadArtifactAgain
  <2>1. rc'.fe = rc.fe /\ rc'.att = rc.att /\ rc.pc = "artifact" /\ UNCHANGED <<fe, pjobs>>
    BY <1>0, <1>4 DEF ReadArtifactAgain, NoArtifact, Continue, ReconcileState, objectVars
  <2> QED BY <2>1 DEF LimitInv, LatestMade, AttemptMade
<1>5. CASE NextAttempt
  <2>1. rc'.pc = "create"
    BY <1>0, <1>5 DEF NextAttempt, Continue, ReconcileState
  <2> QED BY <2>1 DEF LatestMade
<1>6. CASE CreatePackageJob
  BY <1>2, <1>6, DecidedSteps DEF CreatePackageJob, LookingSteps
<1>7. ASSUME NEW name \in JobNames, PackageJobAct(name) PROVE LatestMade'
  BY <1>1, <1>7, ActsOnlyEnd
<1>8. QED
  BY <1>1, <1>2, <1>3, <1>4, <1>5, <1>6, <1>7, LookingAtJobs

\* What is said to be used up stays so.
LEMMA UsedUpStays ==
    ASSUME OneLife, TypeInv, LimitInv, [Next]_vars, NEW status, UsedUp(pjobs, fe.uid, status)
    PROVE  UsedUp(pjobs', fe'.uid, status)
<1>1. MaxAttempts \in Attempts
  BY MaxAttemptsAssumption DEF Attempts
<1>2. QED
  BY <1>1, MadeStays DEF UsedUp

\* The cache gets its FE from the watch.
LEMMA CacheSteps ==
    ASSUME [Next]_vars
    PROVE  cache' = cache \/ cache' = fe'
<1>1. CASE ControllerNext
  BY <1>1 DEF ControllerNext, Reconcile, CacheSync, ReconcileError, Continue, ReconcileStart,
     ArtifactFound, PackageJobInProgress, ReadArtifactAgain, PackageAttemptsExceeded,
     NextAttempt, CreatePackageJob, ObservePublishJob, KeepFinishedPublish, NeedPublishJob,
     CreatePublishJob, ObserveUnpublishJob, KeepFinishedUnpublish, NeedUnpublishJob,
     CreateUnpublishJob, CreateRequestJob, GetLatest, PatchStatus, GetPatched, PatchLabels,
     DeleteFrontendExtension, ListOldArtifacts, DeleteOldArtifact
<1>2. CASE JobsNext
  BY <1>2
     DEF JobsNext, Packager, PackagerBuild, PackagerRefuse, PackagerUpsert,
         PackagerSucceed, PJobStep, PackagerFail, ExpirePackageJob, Publisher,
         PublisherInstall, PublisherRefuse, PublisherUninstall, PublisherSucceed,
         RJobStep, PublisherFail, ExpireRequestJob, Collector, CollectPackageJob,
         CollectRequestJob, CollectArtifact, RemoveDeletedFE, controllerVars
<1>3. CASE ApiNext
  BY <1>3
     DEF ApiNext, UserWrites, EditSpec, SetRebuildToken, AnnotatePublish,
         AnnotateUnpublish, DeleteInBackground, DeleteInForeground, Recreate, TamperArtifact,
         TriggerPublish, TriggerUnpublish, DeleteExtension, Accept, ApiCompletes,
         PatchPublishRequest, PatchUnpublishRequest, DeleteByName, controllerVars
<1>4. QED
  BY <1>1, <1>2, <1>3 DEF Next, vars

\* Every step preserves it.
LEMMA LimitStep ==
    ASSUME OneLife, TypeInv, LimitInv, [Next]_vars
    PROVE  LimitInv'
<1>0. /\ fe.status \in Status /\ rc.status \in Status
      /\ \A x : /\ FailedStatus(x).src = x.src
                /\ ArtifactKey(FailedStatus(x)) = ArtifactKey(x)
  BY ReconcileTypes DEF FailedStatus, StatusFor, ArtifactKey
<1>1. UsedUp(pjobs', fe'.uid, NoStatus)
  BY DEF UsedUp, NoStatus
<1>2. UsedUp(pjobs', fe'.uid, rc'.status)
  <2>1. CASE rc'.status = rc.status
    BY <2>1, UsedUpStays DEF LimitInv
  <2>2. CASE rc'.status.phase # "Failed"
    BY <2>2 DEF UsedUp
  <2>3. CASE cache.src \notin ValidSources /\ rc'.status = FailedStatus(cache)
    BY <1>0, <2>3 DEF UsedUp
  <2>4. CASE PackageAttemptsExceeded /\ rc'.status = FailedStatus(rc.fe)
    <3>1. /\ rc.pc \in {"artifact", "artifactAgain"} /\ rc.att = MaxAttempts
          /\ rc.att # 0 /\ UNCHANGED <<fe, pjobs>>
      BY <2>4, MaxAttemptsAssumption
         DEF PackageAttemptsExceeded, AttemptWasted, NoArtifact, Continue, objectVars,
             TypeInv, TypeOK, ReconcileState
    <3>2. AttemptMade(pjobs', fe'.uid, ArtifactKey(rc.fe), MaxAttempts)
      <4>1. AttemptMade(pjobs, fe.uid, ArtifactKey(rc.fe), MaxAttempts)
        BY <3>1 DEF LimitInv, LatestMade
      <4> QED BY <3>1, <4>1
    <3> QED BY <1>0, <2>4, <3>2 DEF UsedUp, AttemptMade
  <2> QED BY <2>1, <2>2, <2>3, <2>4, FailedSteps
<1>3. UsedUp(pjobs', fe'.uid, fe'.status)
  <2>1. CASE fe'.status = fe.status \/ fe'.status = NoStatus
    BY <1>1, <2>1, UsedUpStays DEF LimitInv
  <2>2. CASE fe'.status = MergedStatus(fe.status, rc.status)
    <3>1. /\ fe'.status.phase = rc.status.phase /\ fe'.status.src = rc.status.src
          /\ fe'.status.token = rc.status.token
      BY <1>0, <2>2 DEF MergedStatus, Status
    <3>2. UsedUp(pjobs', fe'.uid, rc.status)
      BY UsedUpStays DEF LimitInv
    <3> QED BY <3>1, <3>2 DEF UsedUp, ArtifactKey
  <2> QED BY <2>1, <2>2, UidSteps
<1>4. cache'.uid \in {0, 1}
  <2>1. cache' = cache \/ cache' = fe'
    BY CacheSteps
  <2> QED BY <2>1, UidSteps DEF LimitInv
<1>5. QED
  BY <1>2, <1>3, <1>4, UidSteps, LatestStays DEF LimitInv

\* Failed is said only of an FE whose last attempt was made.
LEMMA LimitInvariance ==
    ASSUME OneLife
    PROVE  Spec => []LimitInv
<1>1. Init => LimitInv
  <2> SUFFICES ASSUME Init PROVE LimitInv
    OBVIOUS
  <2>1. PICK source, token, target : fe = NewFE(1, source, token, target)
    BY DEF Init
  <2> QED BY <2>1 DEF Init, LimitInv, LatestMade, UsedUp, NewFE, AbsentFE, NoReconcile,
             NoStatus
<1>2. TypeInv /\ LimitInv /\ [Next]_vars => LimitInv'
  BY LimitStep
<1>3. QED
  BY TypeInvariance, <1>1, <1>2, PTL DEF Spec

\* As long as its Jobs do not expire and it is not made anew, an FE whose
\* status says that the attempts at its artifact are used up gets no other:
\* not from a reconcile that began before it was said, nor from one whose
\* copy of the FE is older or newer than the status.
THEOREM NoAttemptAfterTheLast ==
    ASSUME OneLife
    PROVE  Spec => AttemptsLimited
<1>1. ASSUME TypeInv, OrderInv, LimitInv, [Next]_vars,
             NEW name \in JobNames,
             pjobs[name].uid = 0, pjobs'[name].uid = fe.uid,
             name[1] = ArtifactKey(fe), fe.src \in ValidSources,
             fe.status.phase = "Failed", Observes(fe.status, fe)
      PROVE  FALSE
  <2>1. fe.uid # 0
    BY <1>1 DEF LimitInv, NoStatus
  <2>2. pjobs[<<name[1], MaxAttempts>>].uid = fe.uid /\ name[1] \in Keys
    BY <1>1, <2>1 DEF LimitInv, UsedUp, AttemptMade, Observes, ArtifactKey
  <2>3. CreatePackageJob
    <3>1. ASSUME NEW other \in JobNames, PackageJobAct(other) PROVE FALSE
      <4>1. pjobs'[name] = NoPJob \/ pjobs'[name].uid = pjobs[name].uid
        BY <1>1, <3>1, ActsOnlyEnd DEF JobsOnlyEnd
      <4> QED BY <1>1, <2>1, <4>1 DEF NoPJob
    <3> QED BY <1>1, <2>1, <3>1, PackageJobSteps
  <2>4. name = <<ArtifactKey(rc.fe), rc.att + 1>> /\ rc.fe.uid = fe.uid
    <3> DEFINE next == <<ArtifactKey(rc.fe), rc.att + 1>>
               job == [NoPJob EXCEPT !.uid = rc.fe.uid, !.phase = "Running", !.pod = "new"]
    <3>1. pjobs' = pjobs \/ pjobs' = [pjobs EXCEPT ![next] = job]
      BY <2>3 DEF CreatePackageJob
    <3>2. pjobs \in [JobNames -> PackageJob] /\ job.uid = rc.fe.uid
      BY <1>1 DEF TypeInv, TypeOK, NoPJob
    <3> HIDE DEF next, job
    <3>3. name = next /\ job.uid = fe.uid
      BY <1>1, <2>1, <3>1, <3>2
    <3> QED BY <3>2, <3>3 DEF next
  <2>5. MaxAttempts <= rc.att
    <3>1. MaxAttempts \in Attempts
      BY MaxAttemptsAssumption DEF Attempts
    <3> QED BY <1>1, <2>2, <2>3, <2>4, <3>1 DEF OrderInv, LatestKnown, Attempt, CreatePackageJob
  <2>6. rc.att + 1 \in Attempts /\ rc.att \in 0 .. MaxAttempts
    BY <1>1, <2>4 DEF JobNames, TypeInv, TypeOK, ReconcileState
  <2> QED BY <2>5, <2>6, MaxAttemptsAssumption DEF Attempts
<1>2. TypeInv /\ OrderInv /\ LimitInv /\ [Next]_vars =>
        [\A name \in JobNames :
            /\ pjobs[name].uid = 0 /\ pjobs'[name].uid = fe.uid
            /\ name[1] = ArtifactKey(fe) /\ fe.src \in ValidSources
            => ~(fe.status.phase = "Failed" /\ Observes(fe.status, fe))]_vars
  BY <1>1
<1>3. QED
  BY TypeInvariance, OrderInvariance, LimitInvariance, <1>2, PTL DEF Spec, AttemptsLimited
=============================================================================
