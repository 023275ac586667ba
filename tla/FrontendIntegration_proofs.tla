--------------------- MODULE FrontendIntegration_proofs ---------------------
(***************************************************************************)
(* Proofs about FrontendIntegration, for every value of its constants: its *)
(* types, and what the status and the bundle of an FI are worth when the   *)
(* controller has come to rest.                                            *)
(***************************************************************************)
EXTENDS FrontendIntegration, TLAPS

-----------------------------------------------------------------------------
(* Types of what the operators return.                                     *)

\* The objects that do not exist, and those an earlier version left, have
\* their types, and so has an FI that is new.
LEMMA ObjectTypes ==
    /\ NoStatus \in Status /\ LegacyStatus \in Status
    /\ NoJob \in Job /\ ExpiredJob \in Job
    /\ NoBundle \in Bundle /\ LegacyBundle \in Bundle
    /\ \A uid \in Nat, spec \in Maybe(Specs), enabled \in BOOLEAN, status \in Status :
          NewFI(uid, spec, enabled, status) \in FI
    /\ AbsentFI \in FI /\ NoReconcile \in ReconcileState
<1>1. NoStatus \in Status /\ LegacyStatus \in Status
  BY DEF NoStatus, LegacyStatus, Status, Hashes, Maybe
<1>2. NoJob \in Job
  BY DEF NoJob, Job, Phases
<1>3. ExpiredJob \in Job
  BY <1>2 DEF ExpiredJob, Job, Phases
<1>4. NoBundle \in Bundle
  BY DEF NoBundle, Bundle, Maybe
<1>5. LegacyBundle \in Bundle
  BY <1>4 DEF LegacyBundle, Bundle, Maybe
<1>6. \A uid \in Nat, spec \in Maybe(Specs), enabled \in BOOLEAN, status \in Status :
          NewFI(uid, spec, enabled, status) \in FI
  BY DEF NewFI, FI, Maybe
<1>7. AbsentFI \in FI
  <2>1. NewFI(0, None, FALSE, NoStatus) \in FI
    BY <1>1, <1>6 DEF Maybe
  <2> QED BY <2>1 DEF AbsentFI, FI
<1>8. NoReconcile \in ReconcileState
  BY <1>1, <1>4, <1>7 DEF NoReconcile, ReconcileState, ReconcileSteps, Maybe
<1>9. QED
  BY <1>1, <1>2, <1>3, <1>4, <1>5, <1>6, <1>7, <1>8

\* A write leaves an FI.
LEMMA StoredType ==
    ASSUME fi \in FI, NEW new \in FI
    PROVE  Stored(new) \in FI
BY DEF Stored, FI

\* The statuses the controller wants, and the one its patch leaves.
LEMMA StatusTypes ==
    ASSUME NEW copy \in FI, NEW hash \in Maybe(Specs), NEW old \in Status, NEW new \in Status
    PROVE  /\ DisabledStatus(copy) \in Status /\ BuildingStatus(copy, hash) \in Status
           /\ SucceededStatus(hash) \in Status /\ FailedStatus(copy, hash) \in Status
           /\ MergedStatus(old, new) \in Status
<1>1. copy.status.hash \in Hashes /\ hash \in Hashes
      /\ CurrentLastError(copy, hash) \in Maybe({"job", "runner"})
  BY DEF FI, Status, Hashes, Maybe, CurrentLastError
<1>2. MergedStatus(old, new) \in Status
  BY DEF MergedStatus, Status
<1>3. QED
  BY <1>1, <1>2 DEF DisabledStatus, BuildingStatus, SucceededStatus, FailedStatus, Status,
                    Maybe

-----------------------------------------------------------------------------
(* The reconcile.                                                          *)

\* A reconcile goes on as one of its type, to patch a status in particular.
LEMMA ReconcileTypes ==
    ASSUME NEW r \in ReconcileState
    PROVE  /\ Left(r) \in ReconcileState
           /\ \A pc \in ReconcileSteps : [r EXCEPT !.pc = pc] \in ReconcileState
           /\ \A status \in Status, requeue \in BOOLEAN :
                 Patch(r, status, requeue) \in ReconcileState
           /\ BuildInProgress(r) \in ReconcileState
           /\ \A b \in Bundle, status \in Status : SyncBundle(r, b, status) \in ReconcileState
           /\ SyncLabel(r) \in ReconcileSteps /\ SyncState(r) \in ReconcileSteps
<1>0. r.fi \in FI /\ r.status \in Status /\ r.requeue \in BOOLEAN /\ r.hash \in Maybe(Specs)
  BY DEF ReconcileState
<1>1. Left(r) \in ReconcileState
  BY <1>0, ObjectTypes DEF Left, ReconcileState, ReconcileSteps
<1>2. \A pc \in ReconcileSteps : [r EXCEPT !.pc = pc] \in ReconcileState
  BY DEF ReconcileState
<1>3. ASSUME NEW status \in Status, NEW requeue \in BOOLEAN
      PROVE  Patch(r, status, requeue) \in ReconcileState
  BY DEF Patch, ReconcileState, ReconcileSteps
<1>4. BuildInProgress(r) \in ReconcileState
  BY <1>0, <1>3, StatusTypes, ObjectTypes DEF BuildInProgress
<1>5. \A q : /\ SyncLabel(q) \in ReconcileSteps /\ SyncState(q) \in ReconcileSteps
             /\ SyncOwner(q) \in ReconcileSteps
  BY DEF SyncOwner, SyncLabel, SyncState, ReconcileSteps
<1>6. ASSUME NEW b \in Bundle, NEW status \in Status
      PROVE  SyncBundle(r, b, status) \in ReconcileState
  <2> DEFINE read == [Patch(r, status, FALSE) EXCEPT !.bundle = b]
  <2>1. read \in ReconcileState
    BY <1>3 DEF ReconcileState
  <2>2. SyncBundle(r, b, status) = [read EXCEPT !.pc = SyncOwner(read)]
    BY Zenon DEF SyncBundle
  <2> HIDE DEF read
  <2> QED BY <1>5, <2>1, <2>2 DEF ReconcileState
<1>7. QED
  BY <1>1, <1>2, <1>3, <1>4, <1>5, <1>6

Queues == {"empty", "timer", "event"}

\* What a reconcile step has to establish when it goes on with r.
LEMMA ProceedTypes ==
    ASSUME TypeOK, NEW r \in ReconcileState, Proceed(r)
    PROVE  rc' \in ReconcileState /\ queue' \in Queues
BY ReconcileTypes DEF Proceed, TypeOK, SetTimer, Queues

\* ... and when it changes nothing else.
LEMMA ContinueTypes ==
    ASSUME TypeOK, NEW r \in ReconcileState, Continue(r)
    PROVE  TypeOK'
BY ProceedTypes DEF Continue, TypeOK, objectVars, Queues

\* A reconcile that fails.
LEMMA AbortTypes ==
    ASSUME Abort
    PROVE  rc' \in ReconcileState /\ queue' \in Queues
BY ObjectTypes DEF Abort, Notify, Queues

\* Every step of the controller preserves the types.
LEMMA ControllerStep ==
    ASSUME TypeOK, ControllerNext
    PROVE  TypeOK'
<1>0. /\ fi \in FI /\ cache \in FI /\ rc \in ReconcileState /\ bundle \in Bundle
      /\ rc.fi \in FI /\ rc.hash \in Maybe(Specs) /\ rc.bundle \in Bundle
      /\ rc.status \in Status /\ fi.status \in Status /\ rc.fi.enabled \in BOOLEAN
      /\ jobs \in [Specs -> Job] /\ queue \in Queues
  BY DEF TypeOK, ReconcileState, FI, Queues
<1>1. CASE CacheSync
  BY <1>0, <1>1 DEF CacheSync, TypeOK, objectVars, FI, Queues
<1>2. CASE ReconcileStart
  <2>1. [NoReconcile EXCEPT !.pc = IF cache.label = cache.enabled THEN "bundle" ELSE "fiLabel",
                            !.fi = cache, !.hash = cache.spec] \in ReconcileState
    BY <1>0, ObjectTypes DEF ReconcileState, ReconcileSteps, FI
  <2>2. rc' \in ReconcileState
    BY <1>2, <2>1, ObjectTypes DEF ReconcileStart
  <2> QED BY <1>2, <2>2 DEF ReconcileStart, TypeOK, objectVars
<1>3. CASE PatchEnabledLabel
  <2>1. [fi EXCEPT !.label = rc.fi.enabled] \in FI
    BY <1>0 DEF FI, Maybe
  <2>2. fi' \in FI /\ rc' \in ReconcileState /\ queue' \in Queues
    BY <1>0, <1>3, <2>1, StoredType, AbortTypes, ReconcileTypes
       DEF PatchEnabledLabel, ReconcileSteps
  <2> QED BY <1>3, <2>2 DEF PatchEnabledLabel, TypeOK, objectVars, Queues
<1>4. CASE ReadBundle
  <2>1. /\ SyncBundle(rc, bundle, DisabledStatus(rc.fi)) \in ReconcileState
        /\ Patch(rc, DisabledStatus(rc.fi), FALSE) \in ReconcileState
        /\ [rc EXCEPT !.pc = "findJob", !.bundle = bundle] \in ReconcileState
        /\ [rc EXCEPT !.pc = "children"] \in ReconcileState
    <3>1. DisabledStatus(rc.fi) \in Status
      BY <1>0, StatusTypes, ObjectTypes
    <3>2. [rc EXCEPT !.pc = "findJob", !.bundle = bundle] \in ReconcileState
      BY <1>0 DEF ReconcileState, ReconcileSteps
    <3>3. [rc EXCEPT !.pc = "children"] \in ReconcileState
      BY <1>0, ReconcileTypes DEF ReconcileSteps
    <3> QED BY <1>0, <3>1, <3>2, <3>3, ReconcileTypes
  <2> DEFINE r == CASE ~rc.fi.enabled /\ bundle.there ->
                         SyncBundle(rc, bundle, DisabledStatus(rc.fi))
                    [] ~rc.fi.enabled /\ ~bundle.there -> Patch(rc, DisabledStatus(rc.fi), FALSE)
                    [] rc.fi.enabled /\ NeedsNewBuild(rc.fi, bundle) ->
                         [rc EXCEPT !.pc = "findJob", !.bundle = bundle]
                    [] OTHER -> [rc EXCEPT !.pc = "children"]
  <2>2. r \in ReconcileState
    BY <2>1
  <2>3. Continue(r)
    BY <1>4, Zenon DEF ReadBundle
  <2> HIDE DEF r
  <2> QED BY <2>2, <2>3, ContinueTypes
<1>5. CASE PatchBundleOwner \/ PatchBundleLabel \/ PatchBundleState
  <2>1. ASSUME NEW pc, NEW new \in Bundle, NEW next \in ReconcileSteps,
               PatchBundle(pc, new, next)
        PROVE  TypeOK'
    <3>1. bundle' \in Bundle
      BY <1>0, <2>1 DEF PatchBundle
    <3>2. rc' \in ReconcileState /\ queue' \in Queues
      BY <1>0, <2>1, ReconcileTypes, ProceedTypes DEF PatchBundle
    <3> QED BY <2>1, <3>1, <3>2 DEF PatchBundle, TypeOK, Queues
  <2>2. /\ [bundle EXCEPT !.owner = rc.fi.uid] \in Bundle
        /\ [bundle EXCEPT !.label = rc.fi.enabled] \in Bundle
        /\ [bundle EXCEPT !.state = DesiredState(rc)] \in Bundle
    BY <1>0 DEF Bundle, FI, Maybe, DesiredState
  <2>3. CASE PatchBundleOwner
    BY <1>0, <2>1, <2>2, <2>3, ReconcileTypes DEF PatchBundleOwner
  <2>4. CASE PatchBundleLabel
    BY <1>0, <2>1, <2>2, <2>4, ReconcileTypes DEF PatchBundleLabel
  <2>5. CASE PatchBundleState
    BY <1>0, <2>1, <2>2, <2>5 DEF PatchBundleState, ReconcileSteps
  <2> QED BY <1>5, <2>3, <2>4, <2>5
<1>6. CASE FindJob
  <2>1. /\ BuildInProgress(rc) \in ReconcileState
        /\ [rc EXCEPT !.pc = "createJob"] \in ReconcileState
    BY <1>0, ReconcileTypes DEF ReconcileSteps
  <2> QED BY <1>6, <2>1, ContinueTypes DEF FindJob
<1>7. CASE CreateJob
  <2>1. BuildInProgress(rc) \in ReconcileState
    BY <1>0, ReconcileTypes
  <2>2. rc' \in ReconcileState /\ queue' \in Queues
    BY <1>7, <2>1, ReconcileTypes, ProceedTypes DEF CreateJob, Notify, Queues
  <2>3. [NoJob EXCEPT !.uid = rc.fi.uid, !.phase = "Running", !.pod = "new"] \in Job
    BY <1>0, ObjectTypes DEF Job, FI, Phases
  <2>4. jobs' \in [Specs -> Job]
    BY <1>0, <1>7, <2>3 DEF CreateJob
  <2> QED BY <1>7, <2>2, <2>4 DEF CreateJob, TypeOK, Queues
<1>8. CASE ReadChildren
  <2>1. \A pc \in {"liveRunning", "liveFailed", "builtBundle", "leftBundle"} :
            [rc EXCEPT !.pc = pc] \in ReconcileState
    BY <1>0, ReconcileTypes DEF ReconcileSteps
  <2> QED BY <1>8, <2>1, ContinueTypes DEF ReadChildren
<1>9. CASE GetLiveFI
  <2>1. [rc EXCEPT !.fi = fi] \in ReconcileState
    BY <1>0 DEF ReconcileState
  <2>2. /\ BuildInProgress([rc EXCEPT !.fi = fi]) \in ReconcileState
        /\ Patch([rc EXCEPT !.fi = fi], FailedStatus(fi, rc.hash), FALSE) \in ReconcileState
    BY <1>0, <2>1, ReconcileTypes, StatusTypes
  <2>3. rc' \in ReconcileState /\ queue' \in Queues
    BY <1>9, <2>2, AbortTypes, ProceedTypes DEF GetLiveFI
  <2> QED BY <1>9, <2>3 DEF GetLiveFI, TypeOK, objectVars, Queues
<1>10. CASE ReadBuiltBundle \/ ReadLeftBundle
  <2>1. /\ SyncBundle(rc, bundle, SucceededStatus(rc.hash)) \in ReconcileState
        /\ BuildInProgress(rc) \in ReconcileState /\ NoReconcile \in ReconcileState
    BY <1>0, ReconcileTypes, StatusTypes, ObjectTypes
  <2> QED BY <1>10, <2>1, ContinueTypes DEF ReadBuiltBundle, ReadLeftBundle
<1>11. CASE PatchStatus
  <2>1. [fi EXCEPT !.status = MergedStatus(fi.status, rc.status)] \in FI
    BY <1>0, StatusTypes DEF FI, Maybe
  <2>2. fi' \in FI
    BY <1>0, <1>11, <2>1, StoredType DEF PatchStatus
  <2>3. rc' \in ReconcileState /\ queue' \in Queues
    BY <1>0, <1>11, AbortTypes, ObjectTypes DEF PatchStatus, SetTimer, Queues
  <2> QED BY <1>11, <2>2, <2>3 DEF PatchStatus, TypeOK, objectVars, Queues
<1>12. CASE ReconcileError
  BY <1>12, AbortTypes, EventsAssumption DEF ReconcileError, Disturb, TypeOK, objectVars, Queues
<1>13. QED
  BY <1>1, <1>2, <1>3, <1>4, <1>5, <1>6, <1>7, <1>8, <1>9, <1>10, <1>11, <1>12
     DEF ControllerNext, Reconcile

-----------------------------------------------------------------------------
(* The runners, Kubernetes and the users.                                  *)

\* What a step has to establish when it leaves the controller's copies alone.
LEMMA ObjectsChange ==
    ASSUME TypeOK, UNCHANGED <<cache, rc>>, fi' \in FI, queue' \in Queues,
           jobs' \in [Specs -> Job], bundle' \in Bundle,
           cm' \in [owner : Nat, spec : Maybe(Specs)],
           UNCHANGED events \/ (events < MaxEvents /\ events' = events + 1)
    PROVE  TypeOK'
BY EventsAssumption DEF TypeOK, Queues

\* Every step of a runner preserves the types.
LEMMA RunnerStep ==
    ASSUME TypeOK, NEW name \in Specs,
           Runner(name) \/ RunnerFails(name) \/ EvictRunner(name) \/ ExpireJob(name)
    PROVE  TypeOK'
<1>0. /\ fi \in FI /\ bundle \in Bundle /\ jobs \in [Specs -> Job] /\ jobs[name] \in Job
      /\ queue \in Queues /\ cm \in [owner : Nat, spec : Maybe(Specs)]
      /\ fi.uid \in Nat /\ fi.enabled \in BOOLEAN
      /\ jobs[name].owner \in Nat /\ jobs[name].on \in BOOLEAN
  BY DEF TypeOK, FI, Job, Queues
<1>1. ASSUME NEW job \in Job, PodStep(name, job), fi' \in FI, queue' \in Queues,
             bundle' \in Bundle, cm' \in [owner : Nat, spec : Maybe(Specs)]
      PROVE  TypeOK'
  <2>1. jobs' \in [Specs -> Job]
    BY <1>0, <1>1 DEF PodStep
  <2> QED BY <1>1, <2>1, ObjectsChange DEF PodStep
<1>2. \A pod \in {"gone", "new", "built", "checked", "stored", "applied", "done",
                  "failing", "failed"} : [jobs[name] EXCEPT !.pod = pod] \in Job
  BY <1>0 DEF Job
<1>3. CASE BuildSpec(name) \/ StaleCheck(name)
  <2>1. [jobs[name] EXCEPT !.pod = "checked", !.owner = fi.uid, !.on = fi.enabled] \in Job
    BY <1>0 DEF Job
  <2> QED BY <1>0, <1>1, <1>2, <1>3, <2>1 DEF BuildSpec, StaleCheck
<1>4. CASE UpsertConfigMap(name)
  <2>1. cm' \in [owner : Nat, spec : Maybe(Specs)]
    BY <1>0, <1>4 DEF UpsertConfigMap, Maybe
  <2> QED BY <1>0, <1>1, <1>2, <1>4, <2>1 DEF UpsertConfigMap
<1>5. CASE UpsertBundle(name) \/ MakeBundleAvailable(name)
  <2>1. /\ [bundle EXCEPT !.there = TRUE, !.owner = jobs[name].owner,
                          !.hash = name, !.label = jobs[name].on] \in Bundle
        /\ [bundle EXCEPT !.state = "Available"] \in Bundle
    BY <1>0 DEF Bundle, Maybe
  <2>2. bundle' \in Bundle
    BY <1>5, <2>1 DEF UpsertBundle, MakeBundleAvailable
  <2> QED BY <1>0, <1>1, <1>2, <1>5, <2>2 DEF UpsertBundle, MakeBundleAvailable
<1>6. CASE PatchFailure(name)
  <2>1. [phase |-> "Failed", hash |-> name, err |-> "runner"] \in Status
    BY DEF Status, Hashes, Maybe
  <2>2. [fi EXCEPT !.status = [phase |-> "Failed", hash |-> name, err |-> "runner"]] \in FI
    BY <1>0, <2>1 DEF FI
  <2>3. fi' \in FI
    BY <1>0, <1>6, <2>2, StoredType DEF PatchFailure
  <2> QED BY <1>0, <1>1, <1>2, <1>6, <2>3 DEF PatchFailure
<1>7. CASE RunnerExits(name)
  <2>1. \A phase \in Phases : [jobs[name] EXCEPT !.pod = "gone", !.phase = phase] \in Job
    BY <1>0 DEF Job
  <2>2. PICK phase \in {"Succeeded", "Failed"} :
          PodStep(name, [jobs[name] EXCEPT !.pod = "gone", !.phase = phase])
    BY <1>7 DEF RunnerExits
  <2> QED BY <1>0, <1>1, <1>7, <2>1, <2>2 DEF RunnerExits, Notify, Queues, Phases
<1>8. CASE RunnerFails(name)
  <2>1. PICK pod \in {"failing", "failed"} :
          jobs' = [jobs EXCEPT ![name] = [jobs[name] EXCEPT !.pod = pod]]
    BY <1>0, <1>8 DEF RunnerFails
  <2>2. jobs' \in [Specs -> Job]
    <3>1. [jobs[name] EXCEPT !.pod = pod] \in Job
      BY <1>0 DEF Job
    <3>2. QED
      BY <1>0, <2>1, <3>1
  <2> QED BY <1>0, <1>8, <2>2, ObjectsChange
          DEF RunnerFails, Disturb, controllerVars
<1>9. CASE EvictRunner(name) \/ ExpireJob(name)
  <2>1. /\ [jobs[name] EXCEPT !.phase = "Failed", !.pod = "gone"] \in Job
        /\ ExpiredJob \in Job
    BY <1>0, ObjectTypes DEF Job, Phases
  <2>2. jobs' \in [Specs -> Job]
    BY <1>0, <1>9, <2>1 DEF EvictRunner, ExpireJob, JobStep
  <2> QED BY <1>0, <1>9, <2>2, ObjectsChange
          DEF EvictRunner, ExpireJob, JobStep, Disturb, Notify, Queues
<1>10. QED
  BY <1>3, <1>4, <1>5, <1>6, <1>7, <1>8, <1>9 DEF Runner

\* Every step of Kubernetes preserves the types.
LEMMA CollectorStep ==
    ASSUME TypeOK, Collector
    PROVE  TypeOK'
<1>0. /\ fi \in FI /\ bundle \in Bundle /\ jobs \in [Specs -> Job]
      /\ queue \in Queues /\ cm \in [owner : Nat, spec : Maybe(Specs)]
  BY DEF TypeOK, Queues
<1>1. CASE \E name \in Specs : CollectJob(name)
  <2>1. jobs' \in [Specs -> Job]
    BY <1>0, <1>1, ObjectTypes DEF CollectJob, JobStep
  <2> QED BY <1>0, <1>1, <2>1, ObjectsChange DEF CollectJob, JobStep, Notify, Queues
<1>2. CASE CollectBundle
  BY <1>0, <1>2, ObjectTypes, ObjectsChange DEF CollectBundle, controllerVars
<1>3. CASE CollectConfigMap
  <2>1. NoContent \in [owner : Nat, spec : Maybe(Specs)]
    BY DEF NoContent, Maybe
  <2> QED BY <1>0, <1>3, <2>1, ObjectsChange DEF CollectConfigMap, controllerVars
<1>4. CASE RemoveDeletedFI
  BY <1>0, <1>4, ObjectTypes, StoredType, ObjectsChange
     DEF RemoveDeletedFI, controllerVars, objectVars
<1>5. QED
  BY <1>1, <1>2, <1>3, <1>4 DEF Collector

\* Whatever people do preserves the types.
LEMMA PeopleStep ==
    ASSUME TypeOK, PeopleNext
    PROVE  TypeOK'
<1>0. /\ fi \in FI /\ bundle \in Bundle /\ jobs \in [Specs -> Job]
      /\ queue \in Queues /\ cm \in [owner : Nat, spec : Maybe(Specs)]
  BY DEF TypeOK, Queues
<1>1. ASSUME NEW kind, NEW new \in FI, UserWrites(kind, new)
      PROVE  TypeOK'
  BY <1>0, <1>1, StoredType, ObjectsChange DEF UserWrites, Disturb, controllerVars, objectVars
<1>2. ASSUME NEW spec \in Specs, EditSpec(spec)
      PROVE  TypeOK'
  <2>1. [fi EXCEPT !.spec = spec] \in FI
    BY <1>0 DEF FI, Maybe
  <2> QED BY <1>1, <1>2, <2>1 DEF EditSpec
<1>3. CASE Toggle
  <2>1. [fi EXCEPT !.enabled = ~fi.enabled] \in FI
    BY <1>0 DEF FI
  <2> QED BY <1>1, <1>3, <2>1 DEF Toggle
<1>4. CASE DeleteInBackground
  BY <1>1, <1>4, ObjectTypes DEF DeleteInBackground
<1>5. CASE DeleteInForeground
  <2>1. [fi EXCEPT !.deleting = TRUE] \in FI
    BY <1>0 DEF FI
  <2> QED BY <1>1, <1>5, <2>1 DEF DeleteInForeground
<1>6. CASE RemoveBundle
  BY <1>0, <1>6, ObjectTypes, ObjectsChange DEF RemoveBundle, Disturb, controllerVars
<1>7. QED
  BY <1>2, <1>3, <1>4, <1>5, <1>6 DEF PeopleNext

-----------------------------------------------------------------------------

\* Every state is well typed: whichever reconcile, runner or user comes
\* between the steps of another, a status or bundle names the hash of a spec
\* of the FI, or the one an earlier version left, and nothing else.
THEOREM TypeCorrectness == Spec => []TypeOK
<1>1. Init => TypeOK
  <2> SUFFICES ASSUME Init PROVE TypeOK
    OBVIOUS
  <2>1. \A spec \in FirstSpecs, status \in Status : NewFI(1, spec, TRUE, status) \in FI
    BY ObjectTypes, FirstSpecsAssumption DEF Maybe
  <2>2. fi \in FI /\ bundle \in Bundle
    BY <2>1, ObjectTypes DEF Init
  <2>3. cm \in [owner : Nat, spec : Maybe(Specs)] /\ jobs \in [Specs -> Job]
    BY ObjectTypes DEF Init, NoContent, Maybe
  <2> QED BY <2>2, <2>3, ObjectTypes, EventsAssumption DEF Init, TypeOK
<1>2. TypeOK /\ [Next]_vars => TypeOK'
  <2> SUFFICES ASSUME TypeOK, [Next]_vars
               PROVE  TypeOK'
    OBVIOUS
  <2>1. CASE UNCHANGED vars
    BY <2>1 DEF TypeOK, vars
  <2>2. CASE Next
    BY <2>2, ControllerStep, RunnerStep, CollectorStep, PeopleStep DEF Next, RunnersNext
  <2> QED BY <2>1, <2>2
<1>3. QED
  BY <1>1, <1>2, PTL DEF Spec

-----------------------------------------------------------------------------
(* At rest: the inductive invariant.                                       *)

\* Nothing is on its way to the controller: it works on what there is, or is
\* at rest.
Calm ==
    /\ fi.uid # 0 /\ ~fi.deleting /\ ~fi.unseen /\ queue # "event"
    /\ \A name \in Specs : jobs[name].phase # "Running"

\* The cache is behind only while there is something to deliver.
CacheCurrent == ~fi.unseen => cache = fi

\* There is one FI and it never comes back, so that nothing has another owner.
OneOwner ==
    /\ fi.uid \in {0, 1} /\ cache.uid \in {0, 1} /\ rc.fi.uid \in {0, 1}
    /\ \A name \in Specs : jobs[name].uid \in {0, 1} /\ jobs[name].owner \in {0, 1}
    /\ bundle.owner \in {0, 1}

HashSteps ==
    {"fiLabel", "bundle", "findJob", "createJob", "children", "liveRunning", "liveFailed",
     "builtBundle", "leftBundle"}

\* An FI has a spec, and a reconcile the hash of one.
Hashed ==
    /\ fi.uid # 0 => fi.spec \in Specs
    /\ cache.uid # 0 => cache.spec \in Specs
    /\ rc.pc \in HashSteps => rc.hash \in Specs

\* A failure names a spec whose Job was made, and an error.
FailedOf(status) ==
    status.phase = "Failed" =>
        status.hash \in Specs /\ status.err # None /\ jobs[status.hash].phase # "Absent"

FailuresHaveJobs ==
    fi.uid # 0 /\ ~fi.deleting =>
        /\ FailedOf(fi.status) /\ FailedOf(rc.status)
        /\ rc.pc = "liveFailed" => jobs[rc.hash].phase # "Absent"

\* The status is true of the FI, its Jobs and its bundle.
Truthful(status) ==
    /\ ~fi.enabled => status.phase = "Pending" /\ BundleOff
    /\ fi.enabled /\ status.phase = "Succeeded" =>
          status.hash = fi.spec /\ BundleOn(fi.spec)
    /\ fi.enabled /\ status.phase = "Failed" =>
          /\ status.hash = fi.spec /\ status.err # None
          /\ jobs[fi.spec].phase \in {"Failed", "Expired"}

\* A reconcile r works on the FI as it is.
UpToDate(r) == r.fi = fi /\ r.hash = fi.spec

\* It switches the bundle, and has a status that will be true when it is done.
Switching(r) ==
    /\ ~fi.enabled => r.status.phase = "Pending"
    /\ fi.enabled => r.status = SucceededStatus(fi.spec) /\ BundleMatches(bundle, fi.spec)
    /\ bundle.there =>
          /\ bundle.label = IF r.pc = "state" THEN fi.enabled ELSE r.bundle.label
          /\ bundle.state = r.bundle.state

\* The status of the FI is for its spec and may stand, if only there is its
\* bundle.
NoBuildNeeded == fi.enabled /\ ~NeedsNewBuild(fi, bundle)

\* What reconcile r has established so far.
OnTheWay(r) ==
    CASE r.pc = "idle" -> fi.label = fi.enabled /\ Truthful(fi.status)
      [] r.pc = "status" -> fi.label = fi.enabled /\ Truthful(r.status)
      [] r.pc = "fiLabel" -> UpToDate(r) /\ fi.label # fi.enabled
      [] r.pc = "bundle" -> UpToDate(r) /\ fi.label = fi.enabled
      [] r.pc \in {"owner", "label", "state"} ->
            UpToDate(r) /\ fi.label = fi.enabled /\ Switching(r)
      [] r.pc \in {"findJob", "createJob"} -> UpToDate(r) /\ fi.label = fi.enabled /\ fi.enabled
      [] OTHER ->
            /\ UpToDate(r) /\ fi.label = fi.enabled /\ NoBuildNeeded
            /\ r.pc # "liveRunning"
            /\ r.pc = "liveFailed" => jobs[fi.spec].phase = "Failed"
            /\ r.pc = "leftBundle" => jobs[fi.spec].phase \in {"Absent", "Expired"}

RestInv ==
    CacheCurrent /\ OneOwner /\ Hashed /\ FailuresHaveJobs /\ (Calm => OnTheWay(rc))

-----------------------------------------------------------------------------
(* What a step may change of the FI and of the Jobs.                       *)

\* The types of what the objects are made of.
LEMMA Parts ==
    ASSUME TypeOK
    PROVE  /\ fi \in FI /\ fi.status \in Status /\ fi.spec \in Maybe(Specs) /\ fi.uid \in Nat
           /\ fi.enabled \in BOOLEAN /\ fi.deleting \in BOOLEAN /\ fi.unseen \in BOOLEAN
           /\ cache \in FI /\ rc \in ReconcileState /\ rc.fi \in FI
           /\ rc.hash \in Maybe(Specs) /\ rc.status \in Status /\ rc.bundle \in Bundle
           /\ jobs \in [Specs -> Job] /\ bundle \in Bundle /\ NoReconcile \in ReconcileState
           /\ AbsentFI \in FI /\ AbsentFI.uid = 0
BY ObjectTypes DEF TypeOK, FI, ReconcileState, AbsentFI, NewFI

\* A write changes nothing or is seen later.
LEMMA StoredSeenLater ==
    ASSUME NEW new \in FI, fi' = Stored(new)
    PROVE  \/ fi' = fi /\ new = fi
           \/ /\ fi'.unseen /\ fi'.uid = new.uid /\ fi'.deleting = new.deleting
              /\ fi'.spec = new.spec /\ fi'.status = new.status
BY DEF Stored, FI

\* The status a runner leaves when it fails.
RunnerFailure(name) == [phase |-> "Failed", hash |-> name, err |-> "runner"]

FiWritten ==
    /\ cache' = cache /\ fi'.unseen
    /\ \/ fi'.uid = 0
       \/ /\ fi'.uid = fi.uid /\ (fi.deleting => fi'.deleting)
          /\ fi'.spec \in Specs \cup {fi.spec}
          /\ \/ fi'.status = fi.status
             \/ rc.pc = "status" /\ fi'.status = MergedStatus(fi.status, rc.status)
             \/ \E name \in Specs :
                   jobs[name].phase = "Running" /\ fi'.status = RunnerFailure(name)

\* Every write of the FI is one of these, and the cache takes the FI as it is.
LEMMA FiChanges ==
    ASSUME TypeOK, Next
    PROVE  CacheSync \/ UNCHANGED <<fi, cache>> \/ FiWritten
<1> USE Parts
<1>1. ASSUME NEW new \in FI, fi' = Stored(new), cache' = cache,
             \/ new.uid = 0
             \/ /\ new.uid = fi.uid /\ (fi.deleting => new.deleting)
                /\ new.spec \in Specs \cup {fi.spec}
                /\ \/ new.status = fi.status
                   \/ rc.pc = "status" /\ new.status = MergedStatus(fi.status, rc.status)
                   \/ \E name \in Specs :
                         jobs[name].phase = "Running" /\ new.status = RunnerFailure(name)
      PROVE  UNCHANGED <<fi, cache>> \/ FiWritten
  BY <1>1, StoredSeenLater DEF FiWritten
<1>2. CASE ControllerNext
  <2>1. CASE CacheSync
    BY <2>1
  <2>2. CASE PatchEnabledLabel
    <3>1. LET new == [fi EXCEPT !.label = rc.fi.enabled]
          IN  /\ new \in FI /\ new.uid = fi.uid /\ new.deleting = fi.deleting
              /\ new.spec = fi.spec /\ new.status = fi.status
      BY DEF FI, Maybe
    <3> QED BY <1>1, <2>2, <3>1 DEF PatchEnabledLabel
  <2>3. CASE PatchStatus
    <3>1. MergedStatus(fi.status, rc.status) \in Status
      BY DEF MergedStatus, Status
    <3>2. \A status \in Status :
            LET new == [fi EXCEPT !.status = status]
            IN  /\ new \in FI /\ new.uid = fi.uid /\ new.deleting = fi.deleting
                /\ new.spec = fi.spec /\ new.status = status
      BY DEF FI
    <3> QED BY <1>1, <2>3, <3>1, <3>2 DEF PatchStatus
  <2>4. CASE ReconcileStart \/ ReadBundle \/ FindJob \/ CreateJob \/ ReadChildren \/ GetLiveFI
               \/ ReadBuiltBundle \/ ReadLeftBundle \/ ReconcileError
    BY <2>4 DEF ReconcileStart, ReadBundle, FindJob, CreateJob, ReadChildren, GetLiveFI,
                ReadBuiltBundle, ReadLeftBundle, ReconcileError, Continue
  <2>5. CASE PatchBundleOwner \/ PatchBundleLabel \/ PatchBundleState
    BY <2>5 DEF PatchBundleOwner, PatchBundleLabel, PatchBundleState, PatchBundle
  <2> QED BY <1>2, <2>1, <2>2, <2>3, <2>4, <2>5 DEF ControllerNext, Reconcile
<1>3. CASE RunnersNext
  <2>1. ASSUME NEW name \in Specs, PatchFailure(name)
        PROVE  UNCHANGED <<fi, cache>> \/ FiWritten
    <3>1. RunnerFailure(name) \in Status
      BY DEF RunnerFailure, Status, Hashes, Maybe
    <3>2. LET new == [fi EXCEPT !.status = RunnerFailure(name)]
          IN  /\ new \in FI /\ new.uid = fi.uid /\ new.deleting = fi.deleting
              /\ new.spec = fi.spec /\ new.status = RunnerFailure(name)
      BY <3>1 DEF FI
    <3> QED BY <1>1, <2>1, <3>2 DEF PatchFailure, PodStep, RunnerFailure
  <2>2. CASE RemoveDeletedFI
    BY <1>1, <2>2 DEF RemoveDeletedFI, controllerVars
  <2>3. ASSUME NEW name \in Specs,
               \/ BuildSpec(name) \/ StaleCheck(name) \/ UpsertConfigMap(name)
               \/ UpsertBundle(name) \/ MakeBundleAvailable(name) \/ RunnerExits(name)
               \/ RunnerFails(name) \/ EvictRunner(name) \/ ExpireJob(name)
               \/ CollectJob(name)
        PROVE  UNCHANGED <<fi, cache>>
    BY <2>3 DEF BuildSpec, StaleCheck, UpsertConfigMap, UpsertBundle, MakeBundleAvailable,
                RunnerExits, RunnerFails, EvictRunner, ExpireJob, CollectJob, PodStep,
                JobStep, controllerVars
  <2>4. CASE CollectBundle \/ CollectConfigMap
    BY <2>4 DEF CollectBundle, CollectConfigMap, controllerVars
  <2> QED BY <1>3, <2>1, <2>2, <2>3, <2>4 DEF RunnersNext, Runner, Collector
<1>4. CASE PeopleNext
  <2>1. ASSUME NEW spec \in Specs, EditSpec(spec)
        PROVE  UNCHANGED <<fi, cache>> \/ FiWritten
    <3>1. LET new == [fi EXCEPT !.spec = spec]
          IN  /\ new \in FI /\ new.uid = fi.uid /\ new.deleting = fi.deleting
              /\ new.spec = spec /\ new.status = fi.status
      BY DEF FI, Maybe
    <3> QED BY <1>1, <2>1, <3>1 DEF EditSpec, UserWrites, controllerVars
  <2>2. CASE Toggle
    <3>1. LET new == [fi EXCEPT !.enabled = ~fi.enabled]
          IN  /\ new \in FI /\ new.uid = fi.uid /\ new.deleting = fi.deleting
              /\ new.spec = fi.spec /\ new.status = fi.status
      BY DEF FI
    <3> QED BY <1>1, <2>2, <3>1 DEF Toggle, UserWrites, controllerVars
  <2>3. CASE DeleteInBackground
    BY <1>1, <2>3 DEF DeleteInBackground, UserWrites, controllerVars
  <2>4. CASE DeleteInForeground
    <3>1. LET new == [fi EXCEPT !.deleting = TRUE]
          IN  /\ new \in FI /\ new.uid = fi.uid /\ new.deleting = TRUE
              /\ new.spec = fi.spec /\ new.status = fi.status
      BY DEF FI
    <3> QED BY <1>1, <2>4, <3>1 DEF DeleteInForeground, UserWrites, controllerVars
  <2>5. CASE RemoveBundle
    BY <2>5 DEF RemoveBundle, controllerVars
  <2> QED BY <1>4, <2>1, <2>2, <2>3, <2>4, <2>5 DEF PeopleNext
<1>5. QED
  BY <1>2, <1>3, <1>4 DEF Next

-----------------------------------------------------------------------------
(* What a step may change of the other objects.                            *)

\* The uids and owners there are only go from hand to hand; a Job that has
\* been made is absent again only when its owner is.
JobsChange ==
    \A name \in Specs :
        /\ jobs'[name].uid \in {jobs[name].uid, 0, rc.fi.uid}
        /\ jobs'[name].owner \in {jobs[name].owner, 0, fi.uid}
        /\ jobs'[name].phase = "Absent" =>
              jobs[name].phase = "Absent" \/ Orphaned(jobs[name].uid)

OwnersChange ==
    /\ JobsChange
    /\ \/ bundle'.owner \in {bundle.owner, 0, rc.fi.uid}
       \/ \E name \in Specs : bundle'.owner = jobs[name].owner

\* A step that changes one Job.
LEMMA OneJobChanges ==
    ASSUME TypeOK, NEW name \in Specs, NEW job \in Job, jobs' = [jobs EXCEPT ![name] = job],
           job.uid \in {jobs[name].uid, 0, rc.fi.uid},
           job.owner \in {jobs[name].owner, 0, fi.uid},
           job.phase = "Absent" => jobs[name].phase = "Absent" \/ Orphaned(jobs[name].uid)
    PROVE  JobsChange
BY Parts DEF JobsChange

\* Every step hands uids and owners on like this.
LEMMA OwnerChanges ==
    ASSUME TypeOK, Next
    PROVE  OwnersChange
<1> USE Parts
<1>1. ASSUME UNCHANGED jobs PROVE JobsChange
  BY <1>1 DEF JobsChange
<1>2. ASSUME JobsChange,
             \/ bundle'.owner \in {bundle.owner, 0, rc.fi.uid}
             \/ \E name \in Specs : bundle'.owner = jobs[name].owner
      PROVE  OwnersChange
  BY <1>2 DEF JobsChange, OwnersChange
<1>3. CASE ControllerNext
  <2>1. CASE CacheSync \/ ReconcileStart \/ PatchEnabledLabel \/ ReadBundle \/ FindJob
             \/ ReadChildren \/ GetLiveFI \/ ReadBuiltBundle \/ ReadLeftBundle
             \/ PatchStatus \/ ReconcileError
    BY <1>1, <1>2, <2>1 DEF CacheSync, ReconcileStart, PatchEnabledLabel, ReadBundle, FindJob,
       ReadChildren, GetLiveFI, ReadBuiltBundle, ReadLeftBundle, PatchStatus, ReconcileError,
       Continue, objectVars
  <2>2. CASE PatchBundleOwner \/ PatchBundleLabel \/ PatchBundleState
    <3>1. bundle'.owner \in {bundle.owner, rc.fi.uid} /\ jobs' = jobs
      <4>1. CASE PatchBundleOwner
        BY <4>1 DEF PatchBundleOwner, PatchBundle, Bundle
      <4>2. CASE PatchBundleLabel
        BY <4>2 DEF PatchBundleLabel, PatchBundle, Bundle
      <4>3. CASE PatchBundleState
        BY <4>3 DEF PatchBundleState, PatchBundle, Bundle
      <4> QED BY <2>2, <4>1, <4>2, <4>3
    <3> QED BY <1>1, <1>2, <3>1
  <2>3. CASE CreateJob
    <3>1. LET job == [NoJob EXCEPT !.uid = rc.fi.uid, !.phase = "Running", !.pod = "new"]
          IN  job \in Job /\ job.uid = rc.fi.uid /\ job.owner = 0 /\ job.phase = "Running"
      BY DEF NoJob, Job, FI, Phases
    <3>2. rc.hash \in Specs \/ jobs' = jobs
      BY <2>3 DEF CreateJob, Job
    <3> QED BY <1>1, <1>2, <2>3, <3>1, <3>2, OneJobChanges DEF CreateJob
  <2> QED BY <1>3, <2>1, <2>2, <2>3 DEF ControllerNext, Reconcile
<1>4. CASE RunnersNext
  <2>1. CASE CollectConfigMap \/ CollectBundle \/ RemoveDeletedFI
    BY <1>1, <1>2, <2>1 DEF CollectConfigMap, CollectBundle, RemoveDeletedFI, NoBundle,
                            objectVars
  <2>2. ASSUME NEW name \in Specs, CollectJob(name)
        PROVE  OwnersChange
    <3>1. NoJob.uid = 0 /\ NoJob.owner = 0
      BY DEF NoJob
    <3>2. bundle' = bundle /\ jobs' = [jobs EXCEPT ![name] = NoJob]
          /\ Orphaned(jobs[name].uid)
      BY <2>2 DEF CollectJob, JobStep
    <3> QED BY <1>2, <3>1, <3>2, OneJobChanges, ObjectTypes
  <2>3. ASSUME NEW name \in Specs,
               \/ Runner(name) \/ RunnerFails(name) \/ EvictRunner(name) \/ ExpireJob(name)
        PROVE  OwnersChange
    <3>0. jobs[name] \in Job
      OBVIOUS
    <3>1. ASSUME NEW job \in Job, jobs' = [jobs EXCEPT ![name] = job], job.phase # "Absent",
                 job.uid \in {jobs[name].uid, 0},
                 job.owner \in {jobs[name].owner, 0, fi.uid},
                 bundle'.owner \in {bundle.owner, jobs[name].owner}
          PROVE  OwnersChange
      BY <1>2, <3>1, OneJobChanges
    <3>2. \A pod \in {"gone", "new", "built", "checked", "stored", "applied", "done",
                      "failing", "failed"} :
            LET job == [jobs[name] EXCEPT !.pod = pod]
            IN  /\ job \in Job /\ job.phase = jobs[name].phase
                /\ job.uid = jobs[name].uid /\ job.owner = jobs[name].owner
      BY <3>0 DEF Job
    <3>3. CASE BuildSpec(name) \/ UpsertConfigMap(name) \/ PatchFailure(name)
      BY <3>1, <3>2, <3>3 DEF BuildSpec, UpsertConfigMap, PatchFailure, PodStep
    <3>4. CASE StaleCheck(name)
      <4>1. LET job == [jobs[name] EXCEPT !.pod = "checked", !.owner = fi.uid,
                                          !.on = fi.enabled]
            IN  /\ job \in Job /\ job.phase = jobs[name].phase
                /\ job.uid = jobs[name].uid /\ job.owner = fi.uid
        BY <3>0 DEF Job
      <4> QED BY <3>1, <3>2, <3>4, <4>1 DEF StaleCheck, PodStep
    <3>5. CASE UpsertBundle(name) \/ MakeBundleAvailable(name)
      <4>1. bundle'.owner \in {bundle.owner, jobs[name].owner}
        BY <3>5 DEF UpsertBundle, MakeBundleAvailable, Bundle
      <4>2. jobs[name].phase # "Absent"
        BY <3>5 DEF UpsertBundle, MakeBundleAvailable, PodStep
      <4>3. PICK pod \in {"applied", "done"} :
              jobs' = [jobs EXCEPT ![name] = [jobs[name] EXCEPT !.pod = pod]]
        BY <3>5 DEF UpsertBundle, MakeBundleAvailable, PodStep
      <4> QED BY <3>1, <3>2, <4>1, <4>2, <4>3
    <3>6. CASE RunnerExits(name) \/ EvictRunner(name) \/ ExpireJob(name)
      <4>1. \A phase \in {"Succeeded", "Failed"} :
              LET job == [jobs[name] EXCEPT !.pod = "gone", !.phase = phase]
              IN  /\ job \in Job /\ job.phase # "Absent"
                  /\ job.uid = jobs[name].uid /\ job.owner = jobs[name].owner
        BY <3>0 DEF Job, Phases
      <4>2. [jobs[name] EXCEPT !.phase = "Failed", !.pod = "gone"]
               = [jobs[name] EXCEPT !.pod = "gone", !.phase = "Failed"]
        BY <3>0 DEF Job
      <4>3. ExpiredJob \in Job /\ ExpiredJob.uid = 0 /\ ExpiredJob.owner = 0
            /\ ExpiredJob.phase # "Absent"
        BY ObjectTypes DEF ExpiredJob, NoJob
      <4>4. CASE RunnerExits(name)
        <5>1. PICK phase \in {"Succeeded", "Failed"} :
                jobs' = [jobs EXCEPT ![name] = [jobs[name] EXCEPT !.pod = "gone",
                                                                  !.phase = phase]]
          BY <4>4 DEF RunnerExits, PodStep
        <5>2. bundle' = bundle
          BY <4>4 DEF RunnerExits
        <5> QED BY <3>1, <4>1, <5>1, <5>2
      <4> QED BY <3>1, <3>6, <4>1, <4>2, <4>3, <4>4 DEF EvictRunner, ExpireJob, JobStep
    <3>7. CASE RunnerFails(name)
      <4>1. PICK pod \in {"failing", "failed"} :
              jobs' = [jobs EXCEPT ![name] = [jobs[name] EXCEPT !.pod = pod]]
        BY <3>0, <3>7 DEF RunnerFails
      <4>2. bundle' = bundle /\ jobs[name].phase = "Running"
        BY <3>7 DEF RunnerFails
      <4> QED BY <3>1, <3>2, <4>1, <4>2
    <3> QED BY <2>3, <3>3, <3>4, <3>5, <3>6, <3>7 DEF Runner
  <2> QED BY <1>4, <2>1, <2>2, <2>3 DEF RunnersNext, Collector
<1>5. CASE PeopleNext
  <2>1. jobs' = jobs /\ bundle' \in {bundle, NoBundle}
    BY <1>5 DEF PeopleNext, EditSpec, Toggle, DeleteInBackground, DeleteInForeground,
                RemoveBundle, UserWrites, objectVars
  <2> QED BY <1>1, <1>2, <2>1 DEF NoBundle
<1>6. QED
  BY <1>3, <1>4, <1>5 DEF Next

-----------------------------------------------------------------------------
(* What a reconcile may become.                                            *)

\* A reconcile that goes on with r still works on an FI there was and on the
\* hash of its spec, and knows of a failure only from the Job of that hash.
GoesOn(r) ==
    /\ r.fi.uid \in {0, rc.fi.uid, cache.uid, fi.uid}
    /\ r.pc \in HashSteps => \/ rc.pc \in HashSteps /\ r.hash = rc.hash
                             \/ cache.uid # 0 /\ r.hash = cache.spec
    /\ r.status.phase = "Failed" =>
          \/ r.status = rc.status
          \/ rc.pc = "liveFailed" /\ r.status = FailedStatus(fi, rc.hash)
    /\ r.pc = "liveFailed" =>
          r.hash = rc.hash /\ (rc.pc = "liveFailed" \/ jobs[rc.hash].phase = "Failed")

\* What is left of a reconcile when it proceeds.
LEMMA LeftIs ==
    ASSUME TypeOK, NEW r \in ReconcileState
    PROVE  \/ Over(r) /\ Left(r) = NoReconcile
           \/ /\ ~Over(r) /\ r.pc = "status" /\ Left(r).pc = "status"
              /\ Left(r).status = r.status /\ Left(r).fi = AbsentFI
           \/ ~Over(r) /\ r.pc \notin {"idle", "status"} /\ Left(r) = r
<1>1. CASE Over(r)
  BY <1>1, Zenon DEF Left
<1>2. CASE ~Over(r) /\ r.pc = "status"
  <2> DEFINE s == [NoReconcile EXCEPT !.pc = "status", !.status = r.status,
                                      !.requeue = r.requeue]
  <2>1. Left(r) = s
    BY <1>2, Zenon DEF Left
  <2>2. s.pc = "status" /\ s.status = r.status /\ s.fi = AbsentFI
    BY DEF NoReconcile
  <2> QED BY <1>2, <2>1, <2>2
<1>3. CASE ~Over(r) /\ r.pc # "status"
  <2>1. Left(r) = r
    BY <1>3, Zenon DEF Left
  <2> QED BY <1>3, <2>1 DEF Over
<1>4. QED
  BY <1>1, <1>2, <1>3

\* What proceeds keeps to the same.
LEMMA ProceedGoesOn ==
    ASSUME TypeOK, NEW r \in ReconcileState, GoesOn(r), rc' = Left(r)
    PROVE  GoesOn(rc')
<1>1. /\ NoReconcile.fi.uid = 0 /\ NoReconcile.pc = "idle" /\ NoReconcile.status.phase # "Failed"
      /\ AbsentFI.uid = 0
  BY Parts DEF NoReconcile, NoStatus
<1>2. "idle" \notin HashSteps /\ "status" \notin HashSteps
  BY DEF HashSteps
<1> QED BY <1>1, <1>2, LeftIs DEF GoesOn

\* A reconcile that takes another step.
LEMMA GotoIs ==
    ASSUME NEW r \in ReconcileState, NEW pc \in ReconcileSteps,
           NEW q \in {[r EXCEPT !.pc = pc]}
    PROVE  /\ q \in ReconcileState /\ q.pc = pc /\ q.fi = r.fi /\ q.hash = r.hash
           /\ q.status = r.status /\ q.bundle = r.bundle
BY DEF ReconcileState

\* ... that is to patch a status,
LEMMA PatchIs ==
    ASSUME NEW r \in ReconcileState, NEW status \in Status, NEW requeue \in BOOLEAN,
           NEW q \in {Patch(r, status, requeue)}
    PROVE  /\ q \in ReconcileState /\ q.pc = "status" /\ q.fi = r.fi
           /\ q.hash = r.hash /\ q.status = status /\ q.bundle = r.bundle
BY DEF Patch, ReconcileState, ReconcileSteps

\* ... that is to switch a bundle first,
LEMMA SyncBundleIs ==
    ASSUME NEW r \in ReconcileState, NEW b \in Bundle, NEW status \in Status,
           NEW s \in {SyncBundle(r, b, status)}
    PROVE  /\ s \in ReconcileState /\ s.pc = SyncOwner(s)
           /\ s.pc \in {"owner", "label", "state", "status"}
           /\ s.fi = r.fi /\ s.hash = r.hash
           /\ s.status = status /\ s.bundle = b
<1> DEFINE read == [Patch(r, status, FALSE) EXCEPT !.bundle = b]
           q == [read EXCEPT !.pc = SyncOwner(read)]
<1>1. /\ read \in ReconcileState /\ read.fi = r.fi /\ read.hash = r.hash
      /\ read.status = status /\ read.bundle = b
  <2> DEFINE p == Patch(r, status, FALSE)
  <2>1. p \in ReconcileState /\ p.fi = r.fi /\ p.hash = r.hash /\ p.status = status
    BY PatchIs
  <2> HIDE DEF p
  <2>2. LET q2 == [p EXCEPT !.bundle = b]
        IN  /\ q2 \in ReconcileState /\ q2.fi = p.fi /\ q2.hash = p.hash
            /\ q2.status = p.status /\ q2.bundle = b
    BY <2>1 DEF ReconcileState
  <2> QED BY <2>1, <2>2 DEF p
<1>2. SyncBundle(r, b, status) = q
  BY Zenon DEF SyncBundle
<1>3. SyncOwner(read) \in {"owner", "label", "state", "status"}
  BY DEF SyncOwner, SyncLabel, SyncState
<1>4. SyncBundle(r, b, status) \in ReconcileState
  BY ReconcileTypes
<1> HIDE DEF read
<1>5. q.pc = SyncOwner(read) /\ q.fi = read.fi /\ q.bundle = read.bundle
      /\ q.hash = read.hash /\ q.status = read.status
  BY <1>1 DEF ReconcileState
<1> HIDE DEF q
<1>6. SyncOwner(q) = SyncOwner(read)
  BY <1>5 DEF SyncOwner, SyncLabel, SyncState, DesiredState
<1> QED BY <1>1, <1>2, <1>3, <1>4, <1>5, <1>6

\* ... that waits for a build.
LEMMA BuildInProgressIs ==
    ASSUME NEW r \in ReconcileState, NEW q \in {BuildInProgress(r)}
    PROVE  /\ q \in ReconcileState /\ q.pc = "status" /\ q.fi = r.fi
           /\ q.hash = r.hash /\ q.status = BuildingStatus(r.fi, r.hash)
           /\ q.status.phase = "Building"
<1>1. r.fi \in FI /\ r.hash \in Maybe(Specs)
  BY DEF ReconcileState
<1>2. BuildingStatus(r.fi, r.hash) \in Status /\ BuildingStatus(r.fi, r.hash).phase = "Building"
  BY <1>1, StatusTypes, ObjectTypes DEF BuildingStatus
<1> QED BY <1>2, PatchIs DEF BuildInProgress

\* Whatever a step makes of the reconcile.
LEMMA RcChanges ==
    ASSUME TypeOK, Next
    PROVE  GoesOn(rc')
<1> USE Parts
<1>0. /\ NoReconcile.fi.uid = 0 /\ NoReconcile.pc = "idle" /\ NoReconcile.status = NoStatus
      /\ NoReconcile.bundle = NoBundle
  BY DEF NoReconcile
<1>1. CASE rc' = rc
  BY <1>1 DEF GoesOn
<1>2. ASSUME NEW r \in ReconcileState, GoesOn(r), rc' = Left(r)
      PROVE  GoesOn(rc')
  BY <1>2, ProceedGoesOn
<1>3. CASE rc' = NoReconcile
  BY <1>0, <1>3 DEF GoesOn, HashSteps, NoStatus
<1>4. ASSUME NEW s \in Status, s.phase # "Failed", NEW requeue \in BOOLEAN
      PROVE  Patch(rc, s, requeue) \in ReconcileState /\ GoesOn(Patch(rc, s, requeue))
  <2> DEFINE q == Patch(rc, s, requeue)
  <2>1. q \in ReconcileState /\ q.pc = "status" /\ q.fi = rc.fi /\ q.status = s
    BY PatchIs
  <2> HIDE DEF q
  <2>2. q \in ReconcileState /\ GoesOn(q)
    BY <1>4, <2>1 DEF GoesOn, HashSteps
  <2> QED BY <2>2 DEF q
<1>5. BuildInProgress(rc) \in ReconcileState /\ GoesOn(BuildInProgress(rc))
  <2> DEFINE q == BuildInProgress(rc)
  <2>1. q \in ReconcileState /\ q.pc = "status" /\ q.fi = rc.fi /\ q.status.phase = "Building"
    BY BuildInProgressIs
  <2> HIDE DEF q
  <2>2. q \in ReconcileState /\ GoesOn(q)
    BY <2>1 DEF GoesOn, HashSteps
  <2> QED BY <2>2 DEF q
<1>6. ASSUME NEW b \in Bundle, NEW s \in Status, s.phase # "Failed"
      PROVE  SyncBundle(rc, b, s) \in ReconcileState /\ GoesOn(SyncBundle(rc, b, s))
  <2> DEFINE q == SyncBundle(rc, b, s)
  <2>1. /\ q \in ReconcileState /\ q.pc \in {"owner", "label", "state", "status"}
        /\ q.fi = rc.fi /\ q.status = s
    BY SyncBundleIs
  <2> HIDE DEF q
  <2>2. q \in ReconcileState /\ GoesOn(q)
    BY <1>6, <2>1 DEF GoesOn, HashSteps
  <2> QED BY <2>2 DEF q
<1>7. ASSUME NEW pc \in ReconcileSteps, pc # "liveFailed",
             pc \in HashSteps => rc.pc \in HashSteps
      PROVE  [rc EXCEPT !.pc = pc] \in ReconcileState /\ GoesOn([rc EXCEPT !.pc = pc])
  <2> DEFINE q == [rc EXCEPT !.pc = pc]
  <2>1. /\ q \in ReconcileState /\ q.pc = pc /\ q.fi = rc.fi /\ q.hash = rc.hash
        /\ q.status = rc.status
    BY GotoIs
  <2> HIDE DEF q
  <2>2. q \in ReconcileState /\ GoesOn(q)
    BY <1>7, <2>1 DEF GoesOn
  <2> QED BY <2>2 DEF q
<1>8. DisabledStatus(rc.fi) \in Status /\ SucceededStatus(rc.hash) \in Status
      /\ DisabledStatus(rc.fi).phase # "Failed" /\ SucceededStatus(rc.hash).phase # "Failed"
  BY StatusTypes, ObjectTypes DEF DisabledStatus, SucceededStatus
<1>9. CASE ControllerNext
  <2>1. CASE CacheSync \/ ReconcileError
    BY <1>1, <1>3, <2>1 DEF CacheSync, ReconcileError, Abort
  <2>2. CASE CreateJob
    BY <1>2, <1>5, <2>2 DEF CreateJob, Proceed
  <2>3. CASE ReconcileStart
    <3> DEFINE q == [NoReconcile EXCEPT
                        !.pc = IF cache.label = cache.enabled THEN "bundle" ELSE "fiLabel",
                        !.fi = cache, !.hash = cache.spec]
    <3>1. q.fi = cache /\ q.hash = cache.spec /\ q.status = NoStatus
          /\ q.pc \in {"bundle", "fiLabel"}
      BY DEF NoReconcile
    <3> HIDE DEF q
    <3>2. cache.uid # 0 /\ rc' \in {NoReconcile, q}
      BY <2>3 DEF ReconcileStart, q
    <3>3. CASE rc' = q
      BY <3>1, <3>2, <3>3 DEF GoesOn, NoStatus
    <3> QED BY <1>3, <3>2, <3>3
  <2>4. CASE PatchEnabledLabel
    BY <1>3, <1>7, <2>4 DEF PatchEnabledLabel, Abort, HashSteps, ReconcileSteps
  <2>5. CASE ReadBundle
    <3> DEFINE r == CASE ~rc.fi.enabled /\ bundle.there ->
                           SyncBundle(rc, bundle, DisabledStatus(rc.fi))
                      [] ~rc.fi.enabled /\ ~bundle.there -> Patch(rc, DisabledStatus(rc.fi), FALSE)
                      [] rc.fi.enabled /\ NeedsNewBuild(rc.fi, bundle) ->
                           [rc EXCEPT !.pc = "findJob", !.bundle = bundle]
                      [] OTHER -> [rc EXCEPT !.pc = "children"]
               found == [rc EXCEPT !.pc = "findJob", !.bundle = bundle]
    <3>1. found \in ReconcileState /\ GoesOn(found)
      <4>1. /\ found \in ReconcileState /\ found.pc = "findJob" /\ found.fi = rc.fi
            /\ found.hash = rc.hash /\ found.status = rc.status
        BY DEF ReconcileState, ReconcileSteps
      <4> HIDE DEF found
      <4> QED BY <2>5, <4>1 DEF GoesOn, ReadBundle, HashSteps
    <3>2. r \in {SyncBundle(rc, bundle, DisabledStatus(rc.fi)), found,
                 Patch(rc, DisabledStatus(rc.fi), FALSE), [rc EXCEPT !.pc = "children"]}
      <4>1. rc.fi.enabled \in BOOLEAN
        BY DEF FI
      <4> QED BY <4>1
    <3>3. rc' = Left(r)
      BY <2>5, Zenon DEF ReadBundle, Continue, Proceed
    <3> HIDE DEF r, found
    <3>4. GoesOn([rc EXCEPT !.pc = "children"]) /\ [rc EXCEPT !.pc = "children"] \in ReconcileState
      BY <1>7, <2>5 DEF ReadBundle, HashSteps, ReconcileSteps
    <3>5. r \in ReconcileState /\ GoesOn(r)
      BY <1>4, <1>6, <1>8, <3>1, <3>2, <3>4
    <3> QED BY <1>2, <3>3, <3>5
  <2>6. CASE PatchBundleOwner \/ PatchBundleLabel \/ PatchBundleState
    <3>1. PICK pc \in {"status", "label", "state"} : rc' = Left([rc EXCEPT !.pc = pc])
      BY <2>6 DEF PatchBundleOwner, PatchBundleLabel, PatchBundleState, PatchBundle, Proceed,
                  SyncLabel, SyncState
    <3> QED BY <1>2, <1>7, <3>1 DEF HashSteps, ReconcileSteps
  <2>7. CASE FindJob
    <3>1. [rc EXCEPT !.pc = "createJob"] \in ReconcileState
          /\ GoesOn([rc EXCEPT !.pc = "createJob"])
      BY <1>7, <2>7 DEF FindJob, HashSteps, ReconcileSteps
    <3> QED BY <1>2, <1>5, <2>7, <3>1 DEF FindJob, Continue, Proceed
  <2>8. CASE ReadChildren
    <3> DEFINE to(pc) == [rc EXCEPT !.pc = pc]
    <3>1. \A pc \in {"liveRunning", "liveFailed", "builtBundle", "leftBundle"} :
            to(pc) \in ReconcileState
            /\ (pc = "liveFailed" => jobs[rc.hash].phase = "Failed") => GoesOn(to(pc))
      <4> SUFFICES ASSUME NEW pc \in {"liveRunning", "liveFailed", "builtBundle", "leftBundle"},
                          pc = "liveFailed" => jobs[rc.hash].phase = "Failed"
                   PROVE  GoesOn(to(pc))
        OBVIOUS
      <4>1. to(pc).pc = pc /\ to(pc).fi = rc.fi /\ to(pc).hash = rc.hash
            /\ to(pc).status = rc.status
        BY GotoIs DEF ReconcileSteps
      <4> HIDE DEF to
      <4> QED BY <2>8, <4>1 DEF GoesOn, HashSteps, ReadChildren
    <3>2. \E pc \in {"liveRunning", "liveFailed", "builtBundle", "leftBundle"} :
            (pc = "liveFailed" => jobs[rc.hash].phase = "Failed") /\ rc' = Left(to(pc))
      BY <2>8 DEF ReadChildren, Continue, Proceed
    <3> HIDE DEF to
    <3>3. PICK pc \in {"liveRunning", "liveFailed", "builtBundle", "leftBundle"} :
            (pc = "liveFailed" => jobs[rc.hash].phase = "Failed") /\ rc' = Left(to(pc))
      BY <3>2
    <3>4. to(pc) \in ReconcileState
      BY <2>8, ReconcileTypes DEF to, ReconcileSteps
    <3> QED BY <1>2, <3>1, <3>3, <3>4
  <2>9. CASE GetLiveFI
    <3> DEFINE live == [rc EXCEPT !.fi = fi]
               failed == Patch(live, FailedStatus(fi, rc.hash), FALSE)
    <3>1. live \in ReconcileState /\ live.fi = fi /\ live.hash = rc.hash
      BY DEF ReconcileState
    <3>2. /\ rc' \in {NoReconcile, Left(BuildInProgress(live)), Left(failed)}
          /\ rc' = Left(failed) =>
                rc.pc = "liveFailed" \/ rc' \in {NoReconcile, Left(BuildInProgress(live))}
      BY <2>9 DEF GetLiveFI, Proceed, Abort
    <3> HIDE DEF live
    <3>3. /\ failed \in ReconcileState /\ failed.pc = "status" /\ failed.fi = fi
          /\ failed.status = FailedStatus(fi, rc.hash)
      BY <3>1, PatchIs, StatusTypes
    <3>4. /\ BuildInProgress(live) \in ReconcileState /\ BuildInProgress(live).pc = "status"
          /\ BuildInProgress(live).fi = fi
          /\ BuildInProgress(live).status.phase # "Failed"
      BY <3>1, BuildInProgressIs
    <3> HIDE DEF failed
    <3>5. GoesOn(BuildInProgress(live))
      BY <3>4 DEF GoesOn, HashSteps
    <3>6. rc.pc = "liveFailed" => GoesOn(failed)
      BY <3>3 DEF GoesOn, HashSteps
    <3> QED BY <1>2, <1>3, <3>2, <3>3, <3>4, <3>5, <3>6
  <2>10. CASE ReadBuiltBundle \/ ReadLeftBundle
    <3>1. rc' \in {Left(SyncBundle(rc, bundle, SucceededStatus(rc.hash))),
                   Left(BuildInProgress(rc)), Left(NoReconcile)}
      BY <2>10 DEF ReadBuiltBundle, ReadLeftBundle, Continue, Proceed
    <3>2. GoesOn(NoReconcile)
      BY <1>0 DEF GoesOn, HashSteps, NoStatus
    <3> QED BY <1>2, <1>5, <1>6, <1>8, <3>1, <3>2
  <2>11. CASE PatchStatus
    BY <1>3, <2>11 DEF PatchStatus, Abort
  <2> QED BY <1>9, <2>1, <2>2, <2>3, <2>4, <2>5, <2>6, <2>7, <2>8, <2>9, <2>10, <2>11
          DEF ControllerNext, Reconcile
<1>10. CASE RunnersNext
  BY <1>1, <1>10 DEF RunnersNext, Runner, Collector, BuildSpec, StaleCheck, UpsertConfigMap,
     UpsertBundle, MakeBundleAvailable, PatchFailure, RunnerExits, RunnerFails, EvictRunner,
     ExpireJob, CollectJob, CollectBundle, CollectConfigMap, RemoveDeletedFI, PodStep, JobStep,
     controllerVars
<1>11. CASE PeopleNext
  BY <1>1, <1>11 DEF PeopleNext, EditSpec, Toggle, DeleteInBackground, DeleteInForeground,
     RemoveBundle, UserWrites, controllerVars
<1>12. QED
  BY <1>9, <1>10, <1>11 DEF Next

-----------------------------------------------------------------------------
(* The parts of the invariant that hold at work as well as at rest.        *)

\* The status a patch leaves is a failure only if the one it writes is.
LEMMA MergedIs ==
    ASSUME NEW old \in Status, NEW new \in Status
    PROVE  /\ MergedStatus(old, new).phase = new.phase
           /\ MergedStatus(old, new).err = new.err
           /\ new.hash # None => MergedStatus(old, new) = new
BY DEF MergedStatus, Status

\* A failure the controller writes is one of the hash it works on.
LEMMA FailedIs ==
    ASSUME NEW copy \in FI, NEW hash \in Maybe(Specs)
    PROVE  LET failed == FailedStatus(copy, hash)
           IN  failed.phase = "Failed" /\ failed.hash = hash /\ failed.err # None
BY ErrorAssumption DEF FailedStatus

\* Every step leaves the cache current, or the FI unseen.
LEMMA CacheStep ==
    ASSUME TypeOK, CacheCurrent, [Next]_vars
    PROVE  CacheCurrent'
<1>1. CASE UNCHANGED vars
  BY <1>1 DEF CacheCurrent, vars
<1>2. CASE Next
  BY <1>2, FiChanges DEF CacheCurrent, CacheSync, FiWritten
<1> QED BY <1>1, <1>2

\* An FI that is there, and that nobody is deleting, was so before.
LEMMA StaysThere ==
    ASSUME TypeOK, Next
    PROVE  /\ fi'.uid \in {0, fi.uid}
           /\ fi'.spec \in Specs \cup {fi.spec} \/ fi'.uid = 0
           /\ fi.deleting => fi'.deleting \/ fi'.uid = 0
           /\ cache' = cache \/ (cache'.uid = fi.uid /\ cache'.spec = fi.spec)
BY Parts, FiChanges DEF CacheSync, FiWritten, FI

\* No step makes another owner.
LEMMA OneOwnerStep ==
    ASSUME TypeOK, OneOwner, [Next]_vars
    PROVE  OneOwner'
<1>1. CASE UNCHANGED vars
  BY <1>1 DEF OneOwner, vars
<1>2. CASE Next
  <2>1. fi'.uid \in {0, 1} /\ cache'.uid \in {0, 1}
    BY <1>2, StaysThere DEF OneOwner
  <2>2. rc'.fi.uid \in {0, 1}
    BY <1>2, RcChanges DEF OneOwner, GoesOn
  <2>3. \A name \in Specs : jobs'[name].uid \in {0, 1} /\ jobs'[name].owner \in {0, 1}
    BY <1>2, OwnerChanges DEF OneOwner, OwnersChange, JobsChange
  <2>4. bundle'.owner \in {0, 1}
    BY <1>2, OwnerChanges DEF OneOwner, OwnersChange, JobsChange
  <2> QED BY <2>1, <2>2, <2>3, <2>4 DEF OneOwner
<1> QED BY <1>1, <1>2

\* Every hash that a reconcile goes on with is one of a spec.
LEMMA HashedStep ==
    ASSUME TypeOK, Hashed, [Next]_vars
    PROVE  Hashed'
<1>1. CASE UNCHANGED vars
  BY <1>1 DEF Hashed, vars
<1>2. CASE Next
  <2>1. fi'.uid # 0 => fi'.spec \in Specs
    BY <1>2, StaysThere DEF Hashed
  <2>2. cache'.uid # 0 => cache'.spec \in Specs
    BY <1>2, StaysThere DEF Hashed
  <2>3. rc'.pc \in HashSteps => rc'.hash \in Specs
    BY <1>2, RcChanges DEF Hashed, GoesOn
  <2> QED BY <2>1, <2>2, <2>3 DEF Hashed
<1> QED BY <1>1, <1>2

\* The Job a failure names stays there for as long as its FI does.
LEMMA FailuresStep ==
    ASSUME TypeOK, OneOwner, Hashed, FailuresHaveJobs, [Next]_vars
    PROVE  FailuresHaveJobs'
<1>1. CASE UNCHANGED vars
  BY <1>1 DEF FailuresHaveJobs, FailedOf, vars
<1>2. CASE Next
  <2> SUFFICES ASSUME fi'.uid # 0, ~fi'.deleting
               PROVE  /\ FailedOf(fi.status)' /\ FailedOf(rc.status)'
                      /\ rc'.pc = "liveFailed" => jobs'[rc'.hash].phase # "Absent"
    BY DEF FailuresHaveJobs
  <2>1. fi.uid # 0 /\ ~fi.deleting
    BY <1>2, StaysThere
  <2>2. \A name \in Specs : jobs[name].phase # "Absent" => jobs'[name].phase # "Absent"
    BY <1>2, <2>1, OwnerChanges DEF OneOwner, OwnersChange, JobsChange, Orphaned
  <2>3. FailedOf(fi.status) /\ FailedOf(rc.status)
        /\ (rc.pc = "liveFailed" => jobs[rc.hash].phase # "Absent")
    BY <2>1 DEF FailuresHaveJobs
  <2>4. FailedOf(fi.status)'
    <3>1. CASE fi'.status = fi.status
      BY <2>2, <2>3, <3>1 DEF FailedOf
    <3>2. CASE fi'.status = MergedStatus(fi.status, rc.status)
      <4>1. fi'.status.phase = "Failed" => fi'.status = rc.status
        BY <2>3, <3>2, Parts, MergedIs, HashAssumption DEF FailedOf
      <4> QED BY <2>2, <2>3, <4>1 DEF FailedOf
    <3>3. ASSUME NEW name \in Specs, jobs[name].phase = "Running",
                 fi'.status = RunnerFailure(name)
          PROVE  FailedOf(fi.status)'
      <4>1. jobs'[name].phase # "Absent"
        BY <2>2, <3>3
      <4> QED BY <3>3, <4>1, ErrorAssumption DEF FailedOf, RunnerFailure
    <3>4. CASE CacheSync
      BY <3>1, <3>4, Parts DEF CacheSync, FI
    <3> QED BY <1>2, <3>1, <3>2, <3>3, <3>4, FiChanges DEF FiWritten
  <2>5. FailedOf(rc.status)'
    <3>1. CASE rc'.status = rc.status
      BY <2>2, <2>3, <3>1 DEF FailedOf
    <3>2. CASE rc.pc = "liveFailed" /\ rc'.status = FailedStatus(fi, rc.hash)
      <4>1. rc.hash \in Specs
        BY <3>2 DEF Hashed, HashSteps
      <4>2. jobs'[rc.hash].phase # "Absent"
        BY <2>2, <2>3, <3>2, <4>1
      <4>3. rc'.status.hash = rc.hash /\ rc'.status.err # None
        BY <3>2, Parts, FailedIs
      <4> QED BY <4>1, <4>2, <4>3 DEF FailedOf
    <3> QED BY <1>2, <3>1, <3>2, RcChanges DEF GoesOn, FailedOf
  <2>6. ASSUME rc'.pc = "liveFailed"
        PROVE  jobs'[rc'.hash].phase # "Absent"
    <3>1. rc'.hash = rc.hash /\ jobs[rc.hash].phase # "Absent"
      BY <1>2, <2>3, <2>6, RcChanges DEF GoesOn
    <3>2. rc'.hash \in Specs
      BY <1>2, <2>6, HashedStep DEF Hashed, HashSteps
    <3> QED BY <2>2, <3>1, <3>2
  <2> QED BY <2>4, <2>5, <2>6
<1> QED BY <1>1, <1>2

-----------------------------------------------------------------------------
(* At rest.                                                                *)

\* Nobody but a reconcile does anything the controller would not hear of; and
\* only one that starts finds things at rest that were not.
LEMMA CalmSteps ==
    ASSUME TypeOK, OneOwner, Next, Calm'
    PROVE  \/ Reconcile
           \/ /\ Calm /\ UNCHANGED <<fi, rc, jobs>>
              /\ bundle' = bundle \/ (~fi.enabled /\ bundle' = NoBundle)
<1> USE Parts
<1>1. fi'.uid # 0 /\ ~fi'.deleting /\ ~fi'.unseen /\ queue' # "event"
      /\ \A name \in Specs : jobs'[name].phase # "Running"
  BY DEF Calm
<1>2. ASSUME NEW name \in Specs, NEW job \in Job, job.phase = "Running",
             jobs' = [jobs EXCEPT ![name] = job]
      PROVE  FALSE
  BY <1>1, <1>2
<1>3. CASE CacheSync \/ ReconcileError
  BY <1>1, <1>3 DEF CacheSync, ReconcileError, Abort, Notify, FI
<1>4. CASE RunnersNext
  <2>1. ASSUME NEW name \in Specs,
               \/ Runner(name) \/ RunnerFails(name) \/ EvictRunner(name) \/ ExpireJob(name)
               \/ CollectJob(name)
        PROVE  FALSE
    <3>0. jobs[name] \in Job
      OBVIOUS
    <3>1. ~(RunnerExits(name) \/ EvictRunner(name) \/ ExpireJob(name) \/ CollectJob(name))
      BY <1>1 DEF RunnerExits, EvictRunner, ExpireJob, CollectJob, JobStep, Notify
    <3>2. \A pod \in {"gone", "new", "built", "checked", "stored", "applied", "done",
                      "failing", "failed"} :
            LET job == [jobs[name] EXCEPT !.pod = pod]
            IN  job \in Job /\ job.phase = jobs[name].phase
      BY <3>0 DEF Job
    <3>3. LET job == [jobs[name] EXCEPT !.pod = "checked", !.owner = fi.uid, !.on = fi.enabled]
          IN  job \in Job /\ job.phase = jobs[name].phase
      BY <3>0 DEF Job
    <3>4. ~BuildSpec(name) /\ ~UpsertConfigMap(name)
      BY <1>2, <3>2 DEF BuildSpec, UpsertConfigMap, PodStep
    <3>5. ~UpsertBundle(name) /\ ~MakeBundleAvailable(name) /\ ~PatchFailure(name)
      BY <1>2, <3>2 DEF UpsertBundle, MakeBundleAvailable, PatchFailure, PodStep
    <3>6. ~StaleCheck(name)
      BY <1>2, <3>2, <3>3 DEF StaleCheck, PodStep
    <3>7. ~RunnerFails(name)
      <4> SUFFICES ASSUME RunnerFails(name) PROVE FALSE
        OBVIOUS
      <4>1. PICK pod \in {"failing", "failed"} :
              jobs' = [jobs EXCEPT ![name] = [jobs[name] EXCEPT !.pod = pod]]
        BY <3>0 DEF RunnerFails
      <4>2. jobs[name].phase = "Running"
        BY DEF RunnerFails
      <4> QED BY <1>2, <3>2, <4>1, <4>2
    <3> QED BY <2>1, <3>1, <3>4, <3>5, <3>6, <3>7 DEF Runner
  <2>2. CASE CollectBundle
    <3>1. fi' = fi /\ Orphaned(bundle.owner)
      BY <2>2 DEF CollectBundle
    <3> QED BY <1>1, <3>1 DEF Orphaned, OneOwner
  <2>3. CASE CollectConfigMap
    BY <1>1, <2>3 DEF CollectConfigMap, controllerVars, Calm
  <2>4. CASE RemoveDeletedFI
    BY <1>1, <2>4, StoredSeenLater DEF RemoveDeletedFI
  <2> QED BY <1>4, <2>1, <2>2, <2>3, <2>4 DEF RunnersNext, Collector
<1>5. CASE PeopleNext
  <2>1. ASSUME NEW new \in FI, fi' = Stored(new)
        PROVE  fi' = fi /\ new = fi
    BY <1>1, <2>1, StoredSeenLater
  <2>2. ASSUME NEW spec \in Specs, EditSpec(spec) PROVE FALSE
    <3>1. LET new == [fi EXCEPT !.spec = spec] IN new \in FI /\ new.spec = spec
      BY DEF FI, Maybe
    <3> QED BY <2>1, <2>2, <3>1 DEF EditSpec, UserWrites
  <2>3. ~Toggle
    <3>1. LET new == [fi EXCEPT !.enabled = ~fi.enabled]
          IN  new \in FI /\ new.enabled # fi.enabled
      BY DEF FI
    <3> QED BY <2>1, <3>1 DEF Toggle, UserWrites
  <2>4. ~DeleteInBackground
    BY <2>1 DEF DeleteInBackground, UserWrites
  <2>5. ~DeleteInForeground
    <3>1. LET new == [fi EXCEPT !.deleting = TRUE] IN new \in FI /\ new.deleting
      BY DEF FI
    <3> QED BY <2>1, <3>1 DEF DeleteInForeground, UserWrites
  <2>6. CASE RemoveBundle
    BY <1>1, <2>6 DEF RemoveBundle, controllerVars, Calm
  <2> QED BY <1>5, <2>2, <2>3, <2>4, <2>5, <2>6 DEF PeopleNext
<1> QED BY <1>3, <1>4, <1>5 DEF Next, ControllerNext

\* A reconcile that is started finds the FI as it is; one that goes on changes
\* nothing but the bundle.
LEMMA CalmReconcile ==
    ASSUME TypeOK, Reconcile, Calm'
    PROVE  /\ UNCHANGED <<fi, cache, jobs>>
           /\ ReconcileStart \/ Calm
           /\ rc.pc \notin {"owner", "label", "state"} => bundle' = bundle
<1> USE Parts
<1>1. fi'.uid # 0 /\ ~fi'.deleting /\ ~fi'.unseen /\ queue' # "event"
      /\ \A name \in Specs : jobs'[name].phase # "Running"
  BY DEF Calm
<1>2. \A r : Proceed(r) => queue # "event"
  BY <1>1 DEF Proceed, SetTimer
<1>3. ~Abort /\ ~Notify
  BY <1>1 DEF Abort, Notify
<1>4. ASSUME UNCHANGED <<fi, cache, jobs>>, queue # "event" PROVE Calm
  BY <1>1, <1>4 DEF Calm
<1>5. CASE ReconcileStart
  BY <1>5 DEF ReconcileStart, objectVars
<1>6. CASE ReadBundle \/ FindJob \/ ReadChildren \/ ReadBuiltBundle \/ ReadLeftBundle
  BY <1>2, <1>4, <1>6 DEF ReadBundle, FindJob, ReadChildren, ReadBuiltBundle, ReadLeftBundle,
                          Continue, objectVars
<1>7. CASE GetLiveFI
  BY <1>2, <1>3, <1>4, <1>7 DEF GetLiveFI, objectVars
<1>8. CASE CreateJob
  BY <1>2, <1>3, <1>4, <1>8 DEF CreateJob
<1>9. CASE PatchBundleOwner \/ PatchBundleLabel \/ PatchBundleState
  BY <1>2, <1>4, <1>9 DEF PatchBundleOwner, PatchBundleLabel, PatchBundleState, PatchBundle
<1>10. ASSUME NEW new \in FI, fi' = Stored(new)
       PROVE  fi' = fi
  BY <1>1, <1>10, StoredSeenLater
<1>11. CASE PatchEnabledLabel
  <2>1. [fi EXCEPT !.label = rc.fi.enabled] \in FI
    BY DEF FI, Maybe
  <2> QED BY <1>1, <1>3, <1>4, <1>10, <1>11, <2>1 DEF PatchEnabledLabel, objectVars
<1>12. CASE PatchStatus
  <2>1. [fi EXCEPT !.status = MergedStatus(fi.status, rc.status)] \in FI
    BY StatusTypes DEF FI, Maybe
  <2> QED BY <1>1, <1>3, <1>4, <1>10, <1>12, <2>1 DEF PatchStatus, SetTimer, objectVars
<1> QED BY <1>5, <1>6, <1>7, <1>8, <1>9, <1>11, <1>12 DEF Reconcile

\* The status will be true after a step that changes nothing but the bundle.
WillBeTrue(status) ==
    /\ ~fi.enabled => status.phase = "Pending" /\ BundleOff'
    /\ fi.enabled /\ status.phase = "Succeeded" =>
          status.hash = fi.spec /\ BundleOn(fi.spec)'
    /\ fi.enabled /\ status.phase = "Failed" =>
          /\ status.hash = fi.spec /\ status.err # None
          /\ jobs[fi.spec].phase \in {"Failed", "Expired"}

\* A reconcile that has found a true status patches it, or is done if it is
\* the one there is.
LEMMA StatusFound ==
    ASSUME TypeOK, UNCHANGED <<fi, jobs>>, fi.label = fi.enabled,
           NEW r \in ReconcileState, rc' = Left(r),
           r.pc = "status", r.fi = fi, WillBeTrue(r.status)
    PROVE  OnTheWay(rc)'
<1>1. CASE rc' = NoReconcile /\ r.status = fi.status
  <2>1. Truthful(fi.status)'
    BY <1>1 DEF Truthful, WillBeTrue
  <2>2. rc'.pc = "idle"
    BY <1>1 DEF NoReconcile
  <2> QED BY <2>1, <2>2 DEF OnTheWay
<1>2. CASE rc'.pc = "status" /\ rc'.status = r.status
  <2>1. Truthful(rc.status)'
    BY <1>2 DEF Truthful, WillBeTrue
  <2> QED BY <1>2, <2>1 DEF OnTheWay
<1>3. QED
  BY <1>1, <1>2, LeftIs DEF Over

\* A reconcile that goes on with another step.
LEMMA StepTaken ==
    ASSUME TypeOK, NEW r \in ReconcileState, rc' = Left(r), r.pc \notin {"idle", "status"}
    PROVE  rc' = r
BY LeftIs DEF Over

\* A reconcile that switches the bundle as the FI says.
LEMMA SwitchBegins ==
    ASSUME TypeOK, UNCHANGED <<fi, jobs, bundle>>, UpToDate(rc), fi.label = fi.enabled,
           NEW status \in Status, rc' = Left(SyncBundle(rc, bundle, status)),
           ~fi.enabled => status.phase = "Pending",
           fi.enabled => status = SucceededStatus(fi.spec) /\ BundleMatches(bundle, fi.spec)
    PROVE  OnTheWay(rc)'
<1> USE Parts
<1> DEFINE go == SyncBundle(rc, bundle, status)
<1>1. /\ go \in ReconcileState /\ go.pc = SyncOwner(go)
      /\ go.pc \in {"owner", "label", "state", "status"}
      /\ go.fi = fi /\ go.hash = fi.spec /\ go.status = status /\ go.bundle = bundle
  <2>1. /\ go \in ReconcileState /\ go.pc = SyncOwner(go)
        /\ go.pc \in {"owner", "label", "state", "status"}
        /\ go.fi = rc.fi /\ go.hash = rc.hash /\ go.status = status /\ go.bundle = bundle
    <3>1. go \in {SyncBundle(rc, bundle, status)} /\ rc \in ReconcileState /\ bundle \in Bundle
      OBVIOUS
    <3> HIDE DEF go
    <3> QED BY ONLY <3>1, SyncBundleIs, SMT
  <2> QED BY <2>1 DEF UpToDate
<1>2. rc' = Left(go)
  OBVIOUS
<1> HIDE DEF go
<1>3. CASE go.pc = "status"
  <2>1. bundle.label = fi.enabled /\ bundle.state = (IF fi.enabled THEN "Available" ELSE "Disabled")
    BY <1>1, <1>3 DEF SyncOwner, SyncLabel, SyncState, DesiredState
  <2>2. WillBeTrue(go.status)
    BY <1>1, <2>1 DEF WillBeTrue, BundleOff, BundleOn, BundleMatches, SucceededStatus
  <2> QED BY <1>1, <1>2, <1>3, <2>2, StatusFound
<1>4. CASE go.pc # "status"
  <2>1. rc' = go
    BY <1>1, <1>2, <1>4, StepTaken
  <2>2. go.pc = "state" => bundle.label = fi.enabled
    BY <1>1 DEF SyncOwner, SyncLabel, SyncState
  <2>3. Switching(rc)' /\ UpToDate(rc)'
    BY <1>1, <2>1, <2>2 DEF Switching, UpToDate
  <2> QED BY <1>1, <1>4, <2>1, <2>3 DEF OnTheWay
<1> QED BY <1>3, <1>4

\* ... and does the next patch of it.
LEMMA SwitchGoesOn ==
    ASSUME TypeOK, PatchBundleOwner \/ PatchBundleLabel \/ PatchBundleState,
           UNCHANGED <<fi, jobs>>, OnTheWay(rc)
    PROVE  OnTheWay(rc)'
<1> USE Parts
<1>1. rc.pc \in {"owner", "label", "state"}
  BY DEF PatchBundleOwner, PatchBundleLabel, PatchBundleState, PatchBundle
<1>2. UpToDate(rc) /\ fi.label = fi.enabled /\ Switching(rc)
  BY <1>1 DEF OnTheWay
<1> DEFINE Patched(pc) ==
        /\ rc' = Left([rc EXCEPT !.pc = pc])
        /\ pc = "label" => rc.pc = "owner"
        /\ rc.pc = "state" => pc = "status"
        /\ bundle'.there = bundle.there
        /\ bundle.there =>
              /\ bundle'.hash = bundle.hash
              /\ bundle'.label = (IF pc \in {"state", "status"} THEN fi.enabled ELSE bundle.label)
              /\ bundle'.state = (IF rc.pc = "state" THEN DesiredState(rc) ELSE bundle.state)
              /\ pc = "status" => bundle'.state = DesiredState(rc)
<1>3. \E pc \in {"label", "state", "status"} : Patched(pc)
  <2>1. CASE PatchBundleOwner
    <3>1. bundle.there => bundle' = [bundle EXCEPT !.owner = rc.fi.uid]
      BY <2>1 DEF PatchBundleOwner, PatchBundle
    <3>2. ~bundle.there => bundle' = bundle
      BY <2>1 DEF PatchBundleOwner, PatchBundle
    <3>3. rc.pc = "owner" /\ rc' = Left([rc EXCEPT !.pc = SyncLabel(rc)])
      BY <2>1 DEF PatchBundleOwner, PatchBundle, Proceed
    <3>4. bundle.there => /\ bundle'.there /\ bundle'.hash = bundle.hash
                          /\ bundle'.label = bundle.label /\ bundle'.state = bundle.state
      BY <3>1 DEF Bundle
    <3>5. bundle.there => bundle.label = rc.bundle.label /\ bundle.state = rc.bundle.state
      BY <1>2, <3>3 DEF Switching
    <3> QED BY <1>2, <3>2, <3>3, <3>4, <3>5 DEF SyncLabel, SyncState, UpToDate
  <2>2. CASE PatchBundleLabel
    <3>1. bundle.there => bundle' = [bundle EXCEPT !.label = rc.fi.enabled]
      BY <2>2 DEF PatchBundleLabel, PatchBundle
    <3>2. ~bundle.there => bundle' = bundle
      BY <2>2 DEF PatchBundleLabel, PatchBundle
    <3>3. rc.pc = "label" /\ rc' = Left([rc EXCEPT !.pc = SyncState(rc)])
      BY <2>2 DEF PatchBundleLabel, PatchBundle, Proceed
    <3>4. bundle.there => /\ bundle'.there /\ bundle'.hash = bundle.hash
                          /\ bundle'.label = rc.fi.enabled /\ bundle'.state = bundle.state
      BY <3>1 DEF Bundle
    <3>5. bundle.there => bundle.state = rc.bundle.state
      BY <1>2, <3>3 DEF Switching
    <3> QED BY <1>2, <3>2, <3>3, <3>4, <3>5 DEF SyncState, UpToDate
  <2>3. CASE PatchBundleState
    <3>1. bundle.there => bundle' = [bundle EXCEPT !.state = DesiredState(rc)]
      BY <2>3 DEF PatchBundleState, PatchBundle
    <3>2. ~bundle.there => bundle' = bundle
      BY <2>3 DEF PatchBundleState, PatchBundle
    <3>3. rc.pc = "state" /\ rc' = Left([rc EXCEPT !.pc = "status"])
      BY <2>3 DEF PatchBundleState, PatchBundle, Proceed
    <3>4. bundle.there => /\ bundle'.there /\ bundle'.hash = bundle.hash
                          /\ bundle'.label = bundle.label /\ bundle'.state = DesiredState(rc)
      BY <3>1 DEF Bundle
    <3>5. bundle.there => bundle.label = fi.enabled
      BY <1>2, <3>3 DEF Switching
    <3> QED BY <1>2, <3>2, <3>3, <3>4, <3>5 DEF UpToDate
  <2> QED BY <2>1, <2>2, <2>3
<1>4. PICK pc \in {"label", "state", "status"} : Patched(pc)
  BY <1>3
<1> DEFINE go == [rc EXCEPT !.pc = pc]
<1>5. /\ go \in ReconcileState /\ go.pc = pc /\ go.fi = fi /\ go.hash = fi.spec
      /\ go.status = rc.status /\ go.bundle = rc.bundle
  <2>1. /\ go \in ReconcileState /\ go.pc = pc /\ go.fi = rc.fi /\ go.hash = rc.hash
        /\ go.status = rc.status /\ go.bundle = rc.bundle
    <3>1. go \in {[rc EXCEPT !.pc = pc]} /\ rc \in ReconcileState /\ pc \in ReconcileSteps
      BY DEF ReconcileSteps
    <3> HIDE DEF go
    <3> QED BY ONLY <3>1, GotoIs, Zenon
  <2> QED BY <1>2, <2>1 DEF UpToDate
<1>6. rc' = Left(go)
  BY <1>4
<1> HIDE DEF go
<1>7. CASE pc = "status"
  <2>1. bundle.there => bundle'.label = fi.enabled
          /\ bundle'.state = (IF fi.enabled THEN "Available" ELSE "Disabled")
    BY <1>2, <1>4, <1>7 DEF DesiredState, UpToDate
  <2>2. WillBeTrue(go.status)
    BY <1>2, <1>4, <1>5, <2>1
       DEF WillBeTrue, BundleOff, BundleOn, BundleMatches, SucceededStatus, Switching
  <2> QED BY <1>2, <1>5, <1>6, <1>7, <2>2, StatusFound
<1>8. CASE pc # "status"
  <2>1. rc' = go
    BY <1>4, <1>5, <1>6, <1>8, StepTaken
  <2>2. rc.pc # "state" \/ ~bundle.there
    BY <1>4, <1>8
  <2>3. Switching(rc)'
    BY <1>1, <1>2, <1>4, <1>5, <1>8, <2>1, <2>2 DEF Switching, BundleMatches
  <2> QED BY <1>2, <1>4, <1>5, <1>8, <2>1, <2>3 DEF OnTheWay, UpToDate
<1> QED BY <1>7, <1>8

\* A reconcile that waits for a build.
LEMMA WaitBegins ==
    ASSUME TypeOK, UNCHANGED <<fi, jobs>>, UpToDate(rc), fi.label = fi.enabled, fi.enabled,
           rc' = Left(BuildInProgress(rc))
    PROVE  OnTheWay(rc)'
<1> DEFINE r == BuildInProgress(rc)
<1>1. r \in ReconcileState /\ r.pc = "status" /\ r.fi = rc.fi /\ r.status.phase = "Building"
  BY Parts, BuildInProgressIs
<1>2. rc' = Left(r)
  OBVIOUS
<1> HIDE DEF r
<1>3. WillBeTrue(r.status)
  BY <1>1 DEF WillBeTrue
<1> QED BY <1>1, <1>2, <1>3, StatusFound DEF UpToDate

\* A reconcile that goes on with the same copy of the FI.
LEMMA StepIs ==
    ASSUME TypeOK, NEW pc \in ReconcileSteps, pc \notin {"idle", "status"},
           rc' = Left([rc EXCEPT !.pc = pc])
    PROVE  rc'.pc = pc /\ rc'.fi = rc.fi /\ rc'.hash = rc.hash
<1> DEFINE r == [rc EXCEPT !.pc = pc]
<1>1. r \in ReconcileState /\ r.pc = pc /\ r.fi = rc.fi /\ r.hash = rc.hash
  BY Parts, GotoIs
<1>2. rc' = Left(r)
  OBVIOUS
<1> HIDE DEF r
<1> QED BY <1>1, <1>2, StepTaken

\* While nothing is on its way to the controller, a reconcile works on the FI
\* there is, and what it has found out stays true until it is written.
LEMMA ReconcileOnTheWay ==
    ASSUME TypeOK, CacheCurrent, Hashed, FailuresHaveJobs, Calm => OnTheWay(rc),
           Reconcile, Calm'
    PROVE  OnTheWay(rc)'
<1> USE Parts
<1>1. UNCHANGED <<fi, cache, jobs>> /\ (ReconcileStart \/ OnTheWay(rc))
      /\ (rc.pc \notin {"owner", "label", "state"} => bundle' = bundle)
  BY CalmReconcile
<1>2. /\ fi.uid # 0 /\ ~fi.deleting /\ ~fi.unseen /\ cache = fi
      /\ \A name \in Specs : jobs[name].phase # "Running"
  BY <1>1 DEF Calm, CacheCurrent
<1>3. fi.spec \in Specs /\ jobs[fi.spec] \in Job /\ fi.enabled \in BOOLEAN
  BY <1>2 DEF Hashed
<1>4. CASE ReconcileStart
  <2> DEFINE q == [NoReconcile EXCEPT
                      !.pc = IF cache.label = cache.enabled THEN "bundle" ELSE "fiLabel",
                      !.fi = cache, !.hash = cache.spec]
  <2>1. q.pc = (IF fi.label = fi.enabled THEN "bundle" ELSE "fiLabel")
        /\ q.fi = fi /\ q.hash = fi.spec
    BY <1>2 DEF NoReconcile
  <2> HIDE DEF q
  <2>2. rc' = q
    BY <1>2, <1>4 DEF ReconcileStart, q
  <2> QED BY <1>1, <2>1, <2>2 DEF OnTheWay, UpToDate
<1> SUFFICES ASSUME ~ReconcileStart PROVE OnTheWay(rc)'
  BY <1>4
<1>5. CASE PatchEnabledLabel
  <2>1. UpToDate(rc) /\ fi.label # fi.enabled
    BY <1>1, <1>5 DEF OnTheWay, PatchEnabledLabel
  <2>2. LET new == [fi EXCEPT !.label = rc.fi.enabled] IN new \in FI /\ new.label = fi.enabled
    BY <2>1 DEF FI, Maybe, UpToDate
  <2>3. fi' = Stored([fi EXCEPT !.label = rc.fi.enabled])
    BY <1>2, <1>5 DEF PatchEnabledLabel
  <2> QED BY <1>1, <1>2, <2>1, <2>2, <2>3, StoredSeenLater
<1>6. CASE ReadBundle
  <2> DEFINE r == CASE ~rc.fi.enabled /\ bundle.there ->
                         SyncBundle(rc, bundle, DisabledStatus(rc.fi))
                    [] ~rc.fi.enabled /\ ~bundle.there -> Patch(rc, DisabledStatus(rc.fi), FALSE)
                    [] rc.fi.enabled /\ NeedsNewBuild(rc.fi, bundle) ->
                         [rc EXCEPT !.pc = "findJob", !.bundle = bundle]
                    [] OTHER -> [rc EXCEPT !.pc = "children"]
  <2>1. UpToDate(rc) /\ fi.label = fi.enabled /\ bundle' = bundle
    BY <1>1, <1>6 DEF OnTheWay, ReadBundle
  <2>2. rc' = Left(r)
    BY <1>6, Zenon DEF ReadBundle, Continue, Proceed
  <2>3. DisabledStatus(fi) \in Status /\ DisabledStatus(fi).phase = "Pending"
    BY StatusTypes, ObjectTypes DEF DisabledStatus
  <2>4. CASE ~fi.enabled /\ bundle.there
    <3>1. r = SyncBundle(rc, bundle, DisabledStatus(fi))
      BY <2>1, <2>4 DEF UpToDate
    <3> HIDE DEF r
    <3> QED BY <1>1, <2>1, <2>2, <2>3, <2>4, <3>1, SwitchBegins
  <2>5. CASE ~fi.enabled /\ ~bundle.there
    <3>1. r = Patch(rc, DisabledStatus(fi), FALSE)
      BY <2>1, <2>5 DEF UpToDate
    <3> HIDE DEF r
    <3>2. r \in ReconcileState /\ r.pc = "status" /\ r.fi = fi /\ r.status = DisabledStatus(fi)
      BY <2>1, <2>3, <3>1, PatchIs DEF UpToDate
    <3>3. WillBeTrue(r.status)
      BY <2>1, <2>3, <2>5, <3>2 DEF WillBeTrue, BundleOff
    <3> QED BY <1>1, <2>1, <2>2, <3>2, <3>3, StatusFound
  <2>6. CASE fi.enabled /\ NeedsNewBuild(fi, bundle)
    <3>1. r = [rc EXCEPT !.pc = "findJob", !.bundle = bundle]
      BY <2>1, <2>6 DEF UpToDate
    <3>2. /\ [rc EXCEPT !.pc = "findJob", !.bundle = bundle] \in ReconcileState
          /\ [rc EXCEPT !.pc = "findJob", !.bundle = bundle].pc = "findJob"
          /\ [rc EXCEPT !.pc = "findJob", !.bundle = bundle].fi = rc.fi
          /\ [rc EXCEPT !.pc = "findJob", !.bundle = bundle].hash = rc.hash
      BY DEF ReconcileState, ReconcileSteps
    <3> HIDE DEF r
    <3>3. r \in ReconcileState /\ r.pc = "findJob" /\ r.fi = rc.fi /\ r.hash = rc.hash
      BY <3>1, <3>2
    <3>4. rc' = r
      BY <2>2, <3>3, StepTaken
    <3> QED BY <1>1, <2>1, <2>6, <3>3, <3>4 DEF OnTheWay, UpToDate
  <2>7. CASE fi.enabled /\ ~NeedsNewBuild(fi, bundle)
    <3>1. r = [rc EXCEPT !.pc = "children"]
      BY <2>1, <2>7 DEF UpToDate
    <3> HIDE DEF r
    <3>2. rc'.pc = "children" /\ rc'.fi = rc.fi /\ rc'.hash = rc.hash
      BY <2>2, <3>1, StepIs DEF ReconcileSteps
    <3>3. NoBuildNeeded'
      BY <1>1, <2>1, <2>7 DEF NoBuildNeeded
    <3> QED BY <1>1, <2>1, <3>2, <3>3 DEF OnTheWay, UpToDate
  <2> QED BY <1>3, <2>4, <2>5, <2>6, <2>7
<1>7. CASE PatchBundleOwner \/ PatchBundleLabel \/ PatchBundleState
  BY <1>1, <1>7, SwitchGoesOn
<1>8. CASE FindJob \/ CreateJob
  <2>1. UpToDate(rc) /\ fi.label = fi.enabled /\ fi.enabled
    BY <1>1, <1>8 DEF OnTheWay, FindJob, CreateJob
  <2>2. \/ rc' = Left(BuildInProgress(rc))
        \/ rc' = Left([rc EXCEPT !.pc = "createJob"])
    BY <1>8 DEF FindJob, CreateJob, Continue, Proceed
  <2>3. CASE rc' = Left([rc EXCEPT !.pc = "createJob"])
    <3>1. rc'.pc = "createJob" /\ rc'.fi = rc.fi /\ rc'.hash = rc.hash
      BY <2>3, StepIs DEF ReconcileSteps
    <3> QED BY <1>1, <2>1, <3>1 DEF OnTheWay, UpToDate
  <2> QED BY <1>1, <2>1, <2>2, <2>3, WaitBegins
<1>9. ASSUME rc.pc \in {"children", "liveRunning", "liveFailed", "builtBundle", "leftBundle"}
      PROVE  /\ UpToDate(rc) /\ fi.label = fi.enabled /\ NoBuildNeeded /\ bundle' = bundle
             /\ rc.pc # "liveRunning"
             /\ rc.pc = "liveFailed" => jobs[fi.spec].phase = "Failed"
             /\ rc.pc = "leftBundle" => jobs[fi.spec].phase \in {"Absent", "Expired"}
  BY <1>1, <1>9 DEF OnTheWay
<1>10. CASE ReadChildren
  <2>1. /\ UpToDate(rc) /\ fi.label = fi.enabled /\ NoBuildNeeded /\ bundle' = bundle
        /\ jobs[fi.spec].phase \in {"Absent", "Succeeded", "Failed", "Expired"}
    BY <1>2, <1>3, <1>9, <1>10 DEF ReadChildren, Job, Phases
  <2>2. \E pc \in {"liveFailed", "builtBundle", "leftBundle"} :
          /\ rc' = Left([rc EXCEPT !.pc = pc])
          /\ pc = "liveFailed" => jobs[fi.spec].phase = "Failed"
          /\ pc = "leftBundle" => jobs[fi.spec].phase \in {"Absent", "Expired"}
    BY <1>10, <2>1 DEF ReadChildren, Continue, Proceed, UpToDate
  <2>3. PICK pc \in {"liveFailed", "builtBundle", "leftBundle"} :
          /\ rc' = Left([rc EXCEPT !.pc = pc])
          /\ pc = "liveFailed" => jobs[fi.spec].phase = "Failed"
          /\ pc = "leftBundle" => jobs[fi.spec].phase \in {"Absent", "Expired"}
    BY <2>2
  <2>4. rc'.pc = pc /\ rc'.fi = rc.fi /\ rc'.hash = rc.hash
    BY <2>3, StepIs DEF ReconcileSteps
  <2>5. NoBuildNeeded' /\ UpToDate(rc)'
    BY <1>1, <2>1, <2>4 DEF NoBuildNeeded, UpToDate
  <2> QED BY <1>1, <2>1, <2>3, <2>4, <2>5 DEF OnTheWay
<1>11. CASE GetLiveFI
  <2>1. rc.pc = "liveFailed"
    BY <1>9, <1>11 DEF GetLiveFI
  <2>2. UpToDate(rc) /\ fi.label = fi.enabled /\ jobs[fi.spec].phase = "Failed"
        /\ fi.enabled
    BY <1>9, <2>1 DEF NoBuildNeeded
  <2> DEFINE live == [rc EXCEPT !.fi = fi]
             r == Patch(live, FailedStatus(fi, rc.hash), FALSE)
  <2>3. live \in ReconcileState /\ live.fi = fi
    BY DEF ReconcileState
  <2>4. rc' = Left(r)
    BY <1>2, <1>11, <2>1 DEF GetLiveFI, Proceed
  <2> HIDE DEF live
  <2>5. r \in ReconcileState /\ r.pc = "status" /\ r.fi = fi
        /\ r.status = FailedStatus(fi, rc.hash)
    BY <2>3, PatchIs, StatusTypes
  <2> HIDE DEF r
  <2>6. r.status.phase = "Failed" /\ r.status.hash = fi.spec /\ r.status.err # None
    BY <2>2, <2>5, FailedIs DEF UpToDate
  <2>7. WillBeTrue(r.status)
    BY <2>2, <2>6 DEF WillBeTrue
  <2> QED BY <1>1, <2>2, <2>4, <2>5, <2>7, StatusFound
<1>12. CASE ReadBuiltBundle \/ ReadLeftBundle
  <2>1. UpToDate(rc) /\ fi.label = fi.enabled /\ NoBuildNeeded /\ bundle' = bundle
        /\ fi.enabled
    BY <1>9, <1>12 DEF ReadBuiltBundle, ReadLeftBundle, NoBuildNeeded
  <2>2. SucceededStatus(fi.spec) \in Status
    BY StatusTypes, ObjectTypes
  <2>3. CASE BundleMatches(bundle, fi.spec)
    <3>1. rc' = Left(SyncBundle(rc, bundle, SucceededStatus(fi.spec)))
      BY <1>12, <2>1, <2>3 DEF ReadBuiltBundle, ReadLeftBundle, Continue, Proceed, UpToDate
    <3> QED BY <1>1, <2>1, <2>2, <2>3, <3>1, SwitchBegins
  <2>4. CASE ReadBuiltBundle /\ ~BundleMatches(bundle, fi.spec)
    BY <1>1, <2>1, <2>4, WaitBegins DEF ReadBuiltBundle, Continue, Proceed, UpToDate
  <2>5. CASE ReadLeftBundle /\ ~BundleMatches(bundle, fi.spec)
    <3>1. rc'.pc = "idle"
      <4>1. NoReconcile.pc = "idle"
        BY DEF NoReconcile
      <4>2. rc' = Left(NoReconcile)
        BY <2>1, <2>5 DEF ReadLeftBundle, Continue, Proceed, UpToDate
      <4> QED BY <4>1, <4>2, LeftIs DEF Over
    <3>2. jobs[fi.spec].phase \in {"Absent", "Expired"}
      BY <1>9, <2>5 DEF ReadLeftBundle
    <3>3. fi.status.phase # "Succeeded"
      BY <2>1, <2>5 DEF NoBuildNeeded, NeedsNewBuild
    <3>4. fi.status.hash = fi.spec
      BY <2>1 DEF NoBuildNeeded, NeedsNewBuild
    <3>5. fi.status.phase = "Failed" => fi.status.err # None /\ jobs[fi.spec].phase = "Expired"
      BY <1>2, <3>2, <3>4 DEF FailuresHaveJobs, FailedOf
    <3>6. Truthful(fi.status)'
      BY <1>1, <2>1, <3>3, <3>4, <3>5 DEF Truthful
    <3> QED BY <1>1, <2>1, <3>1, <3>6 DEF OnTheWay
  <2> QED BY <1>12, <2>3, <2>4, <2>5
<1>13. CASE PatchStatus
  <2>1. fi.label = fi.enabled /\ Truthful(rc.status) /\ bundle' = bundle
    BY <1>1, <1>13 DEF OnTheWay, PatchStatus
  <2>2. LET new == [fi EXCEPT !.status = MergedStatus(fi.status, rc.status)]
        IN  new \in FI /\ new.status = MergedStatus(fi.status, rc.status)
    BY StatusTypes DEF FI
  <2>3. fi' = Stored([fi EXCEPT !.status = MergedStatus(fi.status, rc.status)])
    BY <1>2, <1>13 DEF PatchStatus
  <2>4. fi.status = MergedStatus(fi.status, rc.status)
    BY <1>1, <1>2, <2>2, <2>3, StoredSeenLater
  <2>5. fi.status.phase = rc.status.phase /\ (rc.status.hash # None => fi.status = rc.status)
    BY <2>4, MergedIs
  <2>6. Truthful(fi.status)
    BY <1>3, <2>1, <2>5, HashAssumption DEF Truthful
  <2>7. Truthful(fi.status)'
    BY <1>1, <2>1, <2>6 DEF Truthful, BundleOff, BundleOn, BundleMatches
  <2>8. rc'.pc = "idle"
    BY <1>2, <1>13 DEF PatchStatus, NoReconcile
  <2> QED BY <1>1, <2>1, <2>7, <2>8 DEF OnTheWay
<1> QED BY <1>5, <1>6, <1>7, <1>8, <1>10, <1>11, <1>12, <1>13 DEF Reconcile

-----------------------------------------------------------------------------

\* The invariant holds at first: the FI is unseen,
LEMMA RestInit ==
    ASSUME Init
    PROVE  RestInv
<1>1. PICK spec \in FirstSpecs :
        \/ fi = NewFI(1, spec, TRUE, NoStatus) /\ bundle = NoBundle
        \/ fi = NewFI(1, spec, TRUE, LegacyStatus) /\ bundle = LegacyBundle
  BY DEF Init
<1>2. /\ fi.uid = 1 /\ fi.spec = spec /\ fi.unseen /\ fi.status.phase # "Failed"
      /\ bundle.owner = 0
  <2>1. \A status : /\ NewFI(1, spec, TRUE, status).uid = 1
                     /\ NewFI(1, spec, TRUE, status).spec = spec
                     /\ NewFI(1, spec, TRUE, status).unseen
                     /\ NewFI(1, spec, TRUE, status).status = status
    BY DEF NewFI
  <2>2. NoBundle.owner = 0 /\ LegacyBundle.owner = 0
    BY DEF NoBundle, LegacyBundle
  <2>3. NoStatus.phase # "Failed" /\ LegacyStatus.phase # "Failed"
    BY DEF NoStatus, LegacyStatus
  <2> QED BY <1>1, <2>1, <2>2, <2>3
<1>3. cache.uid = 0 /\ rc.fi.uid = 0 /\ rc.pc = "idle" /\ rc.status.phase # "Failed"
  BY DEF Init, AbsentFI, NewFI, NoReconcile, NoStatus
<1>4. \A name \in Specs : jobs[name].uid = 0 /\ jobs[name].owner = 0
  BY DEF Init, NoJob
<1> QED BY <1>2, <1>3, <1>4, FirstSpecsAssumption
        DEF RestInv, CacheCurrent, OneOwner, Hashed, HashSteps, FailuresHaveJobs, FailedOf, Calm

\* ... and every step preserves it.
LEMMA RestStep ==
    ASSUME TypeOK, RestInv, [Next]_vars
    PROVE  RestInv'
<1>1. CacheCurrent' /\ OneOwner' /\ Hashed' /\ FailuresHaveJobs'
  BY CacheStep, OneOwnerStep, HashedStep, FailuresStep DEF RestInv
<1>2. ASSUME UNCHANGED <<fi, rc, jobs>>, Calm => OnTheWay(rc), Calm,
             bundle' = bundle \/ (~fi.enabled /\ bundle' = NoBundle)
      PROVE  OnTheWay(rc)'
  <2>1. CASE bundle' = bundle
    BY <1>2, <2>1 DEF OnTheWay, Truthful, UpToDate, Switching, NoBuildNeeded, BundleOff,
                      BundleOn, BundleMatches, NeedsNewBuild
  <2>2. CASE ~fi.enabled /\ bundle' = NoBundle
    BY <1>2, <2>2 DEF OnTheWay, Truthful, UpToDate, Switching, NoBuildNeeded, BundleOff,
                      NoBundle
  <2> QED BY <1>2, <2>1, <2>2
<1>3. Calm' => OnTheWay(rc)'
  <2>1. CASE UNCHANGED vars
    BY <1>2, <2>1 DEF vars, Calm, RestInv
  <2>2. CASE Next
    BY <1>2, <2>2, CalmSteps, ReconcileOnTheWay DEF RestInv
  <2> QED BY <2>1, <2>2
<1> QED BY <1>1, <1>3 DEF RestInv

\* So it always holds.
LEMMA RestInvariant == Spec => []RestInv
<1>1. TypeOK /\ RestInv /\ [Next]_vars => RestInv'
  BY RestStep
<1>2. Init => RestInv
  BY RestInit
<1> QED BY <1>1, <1>2, TypeCorrectness, PTL DEF Spec

\* When the controller has caught up and no runner is at work, it has finished
\* a reconcile of the FI as it is.
LEMMA QuietIsTruthful ==
    ASSUME RestInv, Quiet
    PROVE  fi.label = fi.enabled /\ Truthful(fi.status)
BY DEF RestInv, Quiet, CaughtUp, Calm, OnTheWay

\* A disabled FI serves nothing once the controller is at rest, whichever
\* runner made its bundle available meanwhile.
THEOREM DisabledIsOff == Spec => []QuietDisabledIsOff
<1>1. RestInv => QuietDisabledIsOff
  BY QuietIsTruthful DEF QuietDisabledIsOff, Truthful
<1> QED BY <1>1, RestInvariant, PTL

\* An FI that says Succeeded at rest serves the bundle of its current spec.
THEOREM SucceededIsServed == Spec => []QuietSucceededIsServed
<1>1. RestInv => QuietSucceededIsServed
  BY QuietIsTruthful DEF QuietSucceededIsServed, Truthful
<1> QED BY <1>1, RestInvariant, PTL

\* An FI that says Failed at rest does so for its current spec, whose Job was
\* made and failed.
THEOREM FailedHasReason == Spec => []QuietFailedHasReason
<1>1. RestInv => QuietFailedHasReason
  BY QuietIsTruthful DEF QuietFailedHasReason, Truthful, Quiet
<1> QED BY <1>1, RestInvariant, PTL
=============================================================================
