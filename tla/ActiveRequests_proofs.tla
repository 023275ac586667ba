----------------------- MODULE ActiveRequests_proofs -----------------------
(***************************************************************************)
(* What the status says is published is what the registry has installed:   *)
(* a proof for every value of the constants of FrontendExtension, provided *)
(* that requests come one at a time and Jobs stay to be seen.              *)
(***************************************************************************)
EXTENDS FinishedRequests_proofs

\* The requests come through the API, one at a time and with new ids; a Job
\* does not expire and the artifact is what the packager made of the source:
\* there is one FE of the name, and neither its rebuild token nor its artifact
\* is touched.  The FE may be edited and deleted, calls and Jobs may fail and
\* the controller may restart, at any time.
Orderly ==
    {"ttl", "rebuild", "recreate", "tamper", "linger", "annotate", "reuse",
     "overlap"} \cap Disturbances = {}

LEMMA OrderlyIs ==
    ASSUME Orderly
    PROVE  /\ {"rebuild", "recreate", "annotate"} \cap Disturbances = {}
           /\ "ttl" \notin Disturbances /\ "tamper" \notin Disturbances
           /\ "linger" \notin Disturbances /\ "reuse" \notin Disturbances
           /\ "overlap" \notin Disturbances
BY DEF Orderly

-----------------------------------------------------------------------------
(* The inductive invariant: the copies of the FE.                          *)

Lives == fe.uid # 0 /\ ~fe.deleting

Copies == {x \in {fe, cache, rc.fe} : x.uid # 0}

\* A copy is no newer than the FE, and its requests came through the API: a
\* publish request was made for the spec of its generation.
ValidCopy(x) ==
    /\ x.uid = 1 /\ ~x.deleting /\ x.token = fe.token /\ 1 <= x.gen /\ x.gen <= fe.gen
    /\ ArtifactKey(x) \in Keys
    /\ x.pub.id # None =>
          /\ x.target /\ x.pub.src # None /\ 1 <= x.pub.gen /\ x.pub.gen <= x.gen
          /\ x.pub.gen = x.gen => x.pub.src = x.src
    /\ x.unpub # None => x.target

\* Copies of one generation are of one source, and a reconcile works on one
\* that is no newer than the cache.
CopiesInv ==
    /\ \A x \in Copies : ValidCopy(x)
    /\ \A x, y \in Copies : x.gen = y.gen => x.src = y.src
    /\ rc.fe.uid # 0 => cache.uid # 0 /\ rc.fe.gen <= cache.gen
    /\ api.op \in RequestOps => fe.target
    /\ api.op = "publish" =>
          /\ api.req.id = api.id /\ api.req.src # None
          /\ 1 <= api.req.gen /\ api.req.gen <= fe.gen
          /\ api.req.gen = fe.gen => api.req.src = fe.src

\* What a reconcile has when it is where it is.
ShapeInv ==
    /\ rc.pc \in {"idle", "gc"} =>
          rc.fe = AbsentFE /\ rc.status = NoStatus /\ rc.pub = NoPublish
    /\ rc.pc \in WorkSteps \/ rc.pc = "after" => rc.fe.uid # 0
    /\ rc.pc \in {"get", "patch", "reget", "labels"} /\ rc.status.phase = "Ready" =>
          rc.fe.uid # 0
    /\ rc.pc \in LookingSteps => rc.fe.src \in ValidSources

LEMMA WorksOnValidCopy ==
    ASSUME CopiesInv, ShapeInv
    PROVE  WorkValid
<1>1. \A x \in {fe, cache, rc.fe} : x.uid # 0 => ValidCopy(x)
  BY DEF CopiesInv, Copies
<1> QED BY <1>1 DEF ShapeInv, WorkValid, ValidCopy, RequestInvalid

\* How the FE, its copies and the reconcile go on.
LEMMA LifeGoesOn ==
    ASSUME Orderly, TypeInv, Lives => CopiesInv /\ ShapeInv, Lives', [Next]_vars
    PROVE  /\ Lives /\ fe'.uid = fe.uid /\ fe'.token = fe.token /\ (FeMoves \/ FeEdited)
           /\ rc' = rc \/ (ReconcileMoves /\ cache' = cache /\ api' = api)
           /\ rc'.fe \in {rc.fe, cache, AbsentFE}
           /\ cache' = cache \/ (SaysAs(cache', fe) /\ SaysAs(fe', fe) /\ rc' = rc)
<1>1. ~fe.deleting /\ (FeMoves \/ FeEdited)
  BY OrderlyIs, FeTurns DEF Lives
<1>2. Lives /\ fe'.uid = fe.uid /\ fe'.token = fe.token
  BY <1>1 DEF Lives, FeMoves, FeEdited, SameSpec
<1> QED BY <1>1, <1>2, WorksOnValidCopy, CopiesFollow

\* The FE goes on with its spec, and its generation with it, or gets the next.
LEMMA GenerationsGrow ==
    ASSUME TypeInv, FeMoves \/ FeEdited
    PROVE  /\ fe.gen \in Nat /\ fe'.gen \in Nat /\ fe.gen <= fe'.gen
           /\ fe'.gen = fe.gen => FeMoves /\ SameSpec(fe', fe)
           /\ FeEdited => fe'.gen = fe.gen + 1
<1>1. fe.gen \in Nat
  BY Parts
<1> QED BY <1>1 DEF FeMoves, FeEdited, SameSpec

LEMMA CopiesStep ==
    ASSUME Orderly, TypeInv, TypeInv', Lives => CopiesInv /\ ShapeInv, Lives', [Next]_vars
    PROVE  CopiesInv'
<1> USE Parts
<1>1. /\ Lives /\ fe'.uid = fe.uid /\ fe'.token = fe.token /\ (FeMoves \/ FeEdited)
      /\ rc' = rc \/ (ReconcileMoves /\ cache' = cache /\ api' = api)
      /\ rc'.fe \in {rc.fe, cache, AbsentFE}
      /\ cache' = cache \/ (SaysAs(cache', fe) /\ SaysAs(fe', fe) /\ rc' = rc)
  BY LifeGoesOn
<1>2. /\ fe.gen \in Nat /\ fe'.gen \in Nat /\ fe.gen <= fe'.gen
      /\ fe'.gen = fe.gen => FeMoves /\ SameSpec(fe', fe)
      /\ FeEdited => fe'.gen = fe.gen + 1
  BY <1>1, GenerationsGrow
<1>3. /\ \A x \in Copies : ValidCopy(x) /\ x.gen \in Nat /\ x.pub.gen \in Nat
      /\ \A x, y \in Copies : x.gen = y.gen => x.src = y.src
      /\ rc.fe.uid # 0 => cache.uid # 0 /\ rc.fe.gen <= cache.gen
      /\ api.op \in RequestOps => fe.target
      /\ api.op = "publish" =>
          /\ api.req.id = api.id /\ api.req.src # None
          /\ 1 <= api.req.gen /\ api.req.gen <= fe.gen
          /\ api.req.gen = fe.gen => api.req.src = fe.src
      /\ api.req.gen \in Nat /\ fe \in Copies
  <2>1. \A x \in FE : x.gen \in Nat /\ x.pub.gen \in Nat
    BY DEF FE, Request
  <2>2. api.req.gen \in Nat
    BY DEF TypeInv, TypeOK, Call, Request
  <2> QED BY <1>1, <2>1, <2>2 DEF CopiesInv, Copies, Lives
<1>4. \A x \in Copies : ValidCopy(x)'
  BY <1>1, <1>2, <1>3 DEF ValidCopy
<1>5. ValidCopy(fe)' /\ ArtifactKey(fe') \in Keys
  <2>1. ArtifactKey(fe') \in Keys
    BY DEF TypeInv, Keyed, Lives, ArtifactKey, Keys
  <2>2. CASE FeEdited
    <3>1. fe'.pub = fe.pub /\ fe'.unpub = fe.unpub /\ fe'.target = fe.target /\ ~fe'.deleting
      BY <2>2 DEF FeEdited, SameRequests
    <3> QED BY <1>1, <1>2, <1>3, <2>1, <2>2, <3>1 DEF ValidCopy
  <2>3. CASE FeMoves /\ SameRequests(fe', fe)
    BY <1>1, <1>2, <1>3, <2>1, <2>3 DEF ValidCopy, FeMoves, SameRequests, SameSpec
  <2>4. CASE FeMoves /\ ~SameRequests(fe', fe) /\ PatchPublishRequest
    <3>1. api.op = "publish"
      BY <2>4 DEF PatchPublishRequest
    <3>2. fe'.pub = api.req /\ fe'.target /\ fe'.unpub = fe.unpub
      BY <2>4, <3>1 DEF FeMoves, PatchStatus, PatchUnpublishRequest
    <3> QED BY <1>1, <1>2, <1>3, <2>1, <2>4, <3>1, <3>2 DEF ValidCopy, FeMoves, SameSpec
  <2>5. CASE FeMoves /\ ~SameRequests(fe', fe) /\ PatchUnpublishRequest
    <3>1. api.op \in {"unpublish", "unpublishAndDelete"}
      BY <2>5 DEF PatchUnpublishRequest
    <3>2. fe'.target /\ fe'.pub = fe.pub
      BY <2>5, <3>1 DEF FeMoves, PatchStatus, PatchPublishRequest
    <3> QED BY <1>1, <1>2, <1>3, <2>1, <2>5, <3>1, <3>2 DEF ValidCopy, FeMoves, SameSpec
  <2> QED BY <1>1, <2>2, <2>3, <2>4, <2>5 DEF FeMoves
\* The cache has what the FE had, the reconcile what either had.
<1>6. /\ \A x \in Copies' : x = fe' \/ x = cache' \/ x \in Copies
      /\ cache'.uid # 0 => cache' \in Copies \/ (SaysAs(cache', fe) /\ ~FeEdited)
  <2>1. SaysAs(cache', fe) /\ SaysAs(fe', fe) => ~FeEdited
    BY <1>2 DEF SaysAs, SameSpec
  <2>2. \A x \in Copies' : x = fe' \/ x = cache' \/ x \in Copies
    BY <1>1 DEF Copies
  <2>3. cache'.uid # 0 => cache' \in Copies \/ (SaysAs(cache', fe) /\ ~FeEdited)
    BY <1>1, <2>1 DEF Copies
  <2> QED BY <2>2, <2>3
<1>7. \A x \in Copies' : ValidCopy(x)'
  <2>1. SaysAs(cache', fe) => ValidCopy(cache)'
    <3>1. ValidCopy(fe)
      BY <1>3
    <3> QED BY <1>1, <1>2, <1>3, <3>1 DEF SaysAs, SameSpec, SameRequests, ValidCopy, ArtifactKey
  <2> QED BY <1>4, <1>5, <1>6, <2>1 DEF Copies
<1>8. \A x, y \in Copies' : x.gen = y.gen => x.src = y.src
  <2>1. \A x \in Copies' :
           \/ \E z \in Copies : x.gen = z.gen /\ x.src = z.src
           \/ x = fe' /\ x.gen = fe.gen + 1
    <3>1. SaysAs(cache', fe) => cache'.gen = fe.gen /\ cache'.src = fe.src
      BY DEF SaysAs, SameSpec
    <3>2. \/ fe'.gen = fe.gen /\ fe'.src = fe.src
          \/ fe'.gen = fe.gen + 1
      BY <1>1, <1>2 DEF FeMoves, SameSpec
    <3> QED BY <1>3, <1>6, <3>1, <3>2 DEF Copies
  <2>2. \A z \in Copies : z.gen <= fe.gen
    BY <1>3 DEF ValidCopy
  <2> QED BY <1>2, <1>3, <2>1, <2>2
<1>9. rc'.fe.uid # 0 => cache'.uid # 0 /\ rc'.fe.gen <= cache'.gen
  <2>1. CASE cache' = cache
    <3>1. cache.uid # 0 => cache.gen \in Nat
      BY <1>3 DEF Copies
    <3> QED BY <1>1, <1>3, <2>1, <3>1
  <2>2. CASE SaysAs(cache', fe) /\ rc' = rc
    <3>1. rc.fe.uid # 0 => rc.fe.gen <= fe.gen
      BY <1>3 DEF Copies, ValidCopy
    <3> QED BY <1>1, <2>2, <3>1 DEF SaysAs, SameSpec, Lives
  <2> QED BY <1>1, <2>1, <2>2
<1>10. /\ api'.op \in RequestOps => fe'.target
       /\ api'.op = "publish" =>
            /\ api'.req.id = api'.id /\ api'.req.src # None
            /\ 1 <= api'.req.gen /\ api'.req.gen <= fe'.gen
            /\ api'.req.gen = fe'.gen => api'.req.src = fe'.src
  <2>1. CASE UNCHANGED api
    <3>1. fe'.gen = fe.gen => fe'.src = fe.src
      BY <1>2 DEF SameSpec
    <3>2. fe.target => fe'.target
      BY <1>1 DEF FeMoves, FeEdited, SameRequests
    <3> QED BY <1>2, <1>3, <2>1, <3>1, <3>2
  <2>2. CASE \E id \in RequestIds : Accepted(id)
    <3>1. fe.src # None
      BY <1>1, NoneAssumption DEF TypeInv, Keyed, Lives
    <3>2. 1 <= fe.gen
      BY <1>3 DEF ValidCopy
    <3> QED BY <1>3, <2>2, <3>1, <3>2 DEF Accepted
  <2>3. CASE Unasked
    BY <2>3 DEF Unasked, RequestOps
  <2> QED BY <2>1, <2>2, <2>3, ApiSteps, OrderlyIs
<1> QED BY <1>7, <1>8, <1>9, <1>10 DEF CopiesInv

LEMMA ShapeStep ==
    ASSUME Orderly, TypeInv, Lives => CopiesInv /\ ShapeInv, Lives', [Next]_vars
    PROVE  ShapeInv'
<1>1. rc' = rc \/ ReconcileMoves
  BY LifeGoesOn
<1>2. /\ rc.pc \in {"idle", "gc"} =>
            rc.fe = AbsentFE /\ rc.status = NoStatus /\ rc.pub = NoPublish
      /\ rc.pc \in WorkSteps \/ rc.pc = "after" => rc.fe.uid # 0
      /\ rc.pc \in {"get", "patch", "reget", "labels"} /\ rc.status.phase = "Ready" =>
            rc.fe.uid # 0
      /\ rc.pc \in LookingSteps => rc.fe.src \in ValidSources
  BY LifeGoesOn DEF ShapeInv
<1> USE DEF LookingSteps, WorkSteps
<1>3. CASE ReconcileMoves
  <2>1. CASE Begins
    BY <2>1 DEF Begins, ShapeInv
  <2>2. CASE LooksOn \/ NeedsPublish \/ NeedsUnpublish
    BY <1>2, <2>2 DEF LooksOn, NeedsPublish, NeedsUnpublish, Kept, ShapeInv
  <2>3. CASE \E x \in {cache, rc.fe} : GivesUp(x)
    BY <2>3 DEF GivesUp, Decides, PackagingStatus, FailedStatus, StatusFor, ShapeInv
  <2>4. CASE AsksPublish
    BY <1>2, <2>4 DEF AsksPublish, LooksAt, ShapeInv
  <2>5. CASE \E publish \in PublishStatus, digest \in Maybe(Digests) :
                AnswersPublish(publish, digest)
    <3>1. rc.pc \in WorkSteps /\ rc'.fe = rc.fe /\ rc'.pc \in {"get", "unpublish"}
      BY <2>5 DEF AnswersPublish, PublishAnswer, LooksAt, Decides
    <3> QED BY <1>2, <3>1 DEF ShapeInv
  <2>6. CASE \E unpublish \in UnpublishStatus : AnswersUnpublish(unpublish)
    <3>1. rc.pc \in WorkSteps /\ rc'.fe = rc.fe /\ rc'.pc = "get"
      BY <2>6 DEF AnswersUnpublish, UnpublishAnswer, Decides
    <3> QED BY <1>2, <3>1 DEF ShapeInv
  <2>7. CASE Writes
    BY <1>2, <2>7 DEF Writes, Kept, ShapeInv
  <2>8. CASE Collects \/ Ends
    BY <2>8 DEF Collects, Ends, NoReconcile, ShapeInv
  <2> QED BY <1>3, <2>1, <2>2, <2>3, <2>4, <2>5, <2>6, <2>7, <2>8 DEF ReconcileMoves
<1> QED BY <1>1, <1>2, <1>3 DEF ShapeInv

-----------------------------------------------------------------------------
(* The objects of the FE: an artifact is made of a source that is valid,   *)
(* while there is none, and a request Job stays when it is there.          *)

PodTrue(name) ==
    /\ pjobs[name].uid \in {0, 1}
    /\ pjobs[name].uid # 0 => name[1][1] \in ValidSources
    /\ pjobs[name].pod # "gone" => pjobs[name].phase = "Running"
    /\ pjobs[name].pod = "built" =>
          /\ pjobs[name].owner = 1
          /\ pjobs[name].digest \in Digests /\ pjobs[name].digest[1] = name[1][1]
    /\ pjobs[name].pod \in {"new", "built"} => cms[name[1]].uid = 0

ArtifactTrue(key) ==
    /\ cms[key].uid \in {0, 1}
    /\ cms[key].uid # 0 =>
          key[1] \in ValidSources /\ MatchingArtifact(key) /\ cms[key].digest \in Digests

ObjectsInv ==
    /\ \A name \in JobNames : PodTrue(name)
    /\ rc.pc = "create" => cms[ArtifactKey(rc.fe)].uid = 0
    /\ \A key \in Keys : ArtifactTrue(key)
    /\ \A id \in RequestIds :
          rjobs[id].uid \in {0, 1} /\ (rjobs[id].uid = 0 <=> rjobs[id].phase = "Absent")

LEMMA LivesOwns ==
    ASSUME Lives, CopiesInv, ObjectsInv
    PROVE  OwnObjects /\ fe.uid = 1
<1>1. fe.uid = 1 /\ ~fe.deleting
  BY DEF Lives, CopiesInv, Copies, ValidCopy
<1> QED BY <1>1 DEF ObjectsInv, ArtifactTrue, OwnObjects

\* A copy that is worked on.
LEMMA WorkIsOnCopy ==
    ASSUME CopiesInv, ShapeInv
    PROVE  rc.pc \in WorkSteps \/ rc.pc = "after" =>
              rc.fe \in Copies /\ rc.fe.uid = 1 /\ ArtifactKey(rc.fe) \in Keys
BY DEF CopiesInv, ShapeInv, Copies, ValidCopy

\* A Job that writes an artifact is alone at its key.
LEMMA WritesAlone ==
    ASSUME TypeInv, OrderInv, CopiesInv, ShapeInv, ObjectsInv,
           NEW key \in Keys, NEW n \in Attempts, PodWrites(<<key, n>>)
    PROVE  /\ cms[key].uid = 0 /\ rc' = rc /\ (rc.pc = "create" => ArtifactKey(rc.fe) # key)
           /\ cms'[key].uid = 1 /\ cms'[key].intact
           /\ cms'[key].digest \in Digests /\ cms'[key].digest[1] = key[1]
           /\ key[1] \in ValidSources
           /\ pjobs'[<<key, n>>].pod = "wrote" /\ pjobs'[<<key, n>>].phase = "Running"
           /\ \A m \in Attempts \ {n} :
                 /\ pjobs'[<<key, m>>] = pjobs[<<key, m>>]
                 /\ pjobs[<<key, m>>].pod = "gone"
<1> DEFINE name == <<key, n>>
<1>1. /\ name \in JobNames /\ name[1] = key
      /\ \A m \in Attempts : <<key, m>> \in JobNames /\ PodTrue(<<key, m>>)
  BY DEF JobNames, ObjectsInv
<1>2. /\ pjobs[name].pod = "built" /\ pjobs[name].phase = "Running" /\ cms[key].uid = 0
      /\ pjobs[name].digest \in Digests /\ pjobs[name].digest[1] = key[1]
      /\ pjobs[name].owner = 1
  BY <1>1 DEF PodWrites, PodTrue
<1>3. pjobs[name].uid = 1 /\ key[1] \in ValidSources
  BY <1>1, <1>2 DEF OrderInv, RunningExists, PodTrue
<1>4. rc.pc = "create" => ArtifactKey(rc.fe) # key
  BY <1>2, <1>3, WorkIsOnCopy DEF OrderInv, LatestKnown, Attempt, WorkSteps
<1>5. rc' = rc /\ PackageJobAct(name)
  BY DEF PodWrites, PackagerUpsert, PJobStep, PackageJobAct, Packager
<1>6. ASSUME NEW m \in Attempts \ {n}
      PROVE  /\ pjobs'[<<key, m>>] = pjobs[<<key, m>>]
             /\ pjobs[<<key, m>>].pod = "gone"
  <2>1. <<key, m>> \in JobNames \ {name} /\ PodTrue(<<key, m>>)
    BY <1>1
  <2>2. ASSUME pjobs[<<key, m>>].phase = "Running" PROVE FALSE
    <3>1. pjobs[<<key, m>>].uid = pjobs[name].uid
      BY <1>3, <2>1, <2>2 DEF OrderInv, RunningExists, PodTrue
    <3>2. m < n \/ n < m
      BY MaxAttemptsAssumption DEF Attempts
    <3> QED BY <1>2, <2>2, <3>1, <3>2 DEF OrderInv, LaterAttemptEndsEarlier, Attempt
  <2> QED BY <1>1, <1>5, <2>1, <2>2, ActsOnOne DEF PodTrue
<1> QED BY <1>1, <1>2, <1>3, <1>4, <1>5, <1>6 DEF PodWrites

LEMMA ObjectsStep ==
    ASSUME Orderly, TypeInv, TypeInv', OrderInv,
           Lives => CopiesInv /\ ShapeInv /\ ObjectsInv, Lives', [Next]_vars
    PROVE  ObjectsInv'
<1> USE Parts, OrderlyIs
<1>1. /\ Lives /\ CopiesInv /\ ShapeInv /\ ObjectsInv
      /\ rc' = rc \/ (ReconcileMoves /\ cache' = cache /\ api' = api)
  BY LifeGoesOn
<1>2. OwnObjects /\ fe.uid = 1 /\ fe.src \in Sources
  BY <1>1, LivesOwns DEF TypeInv, Keyed, Lives
<1>3. /\ \A name \in JobNames : PodTrue(name) /\ name[1] \in Keys /\ name[2] \in Attempts
                                /\ name = <<name[1], name[2]>>
      /\ rc.pc = "create" => cms[ArtifactKey(rc.fe)].uid = 0
      /\ \A key \in Keys : ArtifactTrue(key)
      /\ rc.pc \in WorkSteps \/ rc.pc = "after" =>
              rc.fe \in Copies /\ rc.fe.uid = 1 /\ ArtifactKey(rc.fe) \in Keys
      /\ rc.pc \in LookingSteps => rc.fe.src \in ValidSources
  BY <1>1, WorkIsOnCopy DEF ObjectsInv, JobNames, ShapeInv
<1>4. ASSUME NEW key \in Keys
      PROVE  \/ cms'[key] = cms[key]
             \/ key \in rc.doomed /\ rc.pc = "gc" /\ cms'[key].uid = 0
             \/ \E n \in Attempts : PodWrites(<<key, n>>)
  BY <1>2, ArtifactMoves
<1>5. ASSUME NEW key \in Keys PROVE ArtifactTrue(key)'
  <2>1. ArtifactTrue(key)
    BY <1>3
  <2>2. CASE \E n \in Attempts : PodWrites(<<key, n>>)
    <3>1. /\ cms'[key].uid = 1 /\ cms'[key].intact
          /\ cms'[key].digest \in Digests /\ cms'[key].digest[1] = key[1]
          /\ key[1] \in ValidSources
      BY <1>1, <2>2, WritesAlone
    <3> QED BY <3>1 DEF ArtifactTrue, MatchingArtifact
  <2> QED BY <1>4, <2>1, <2>2 DEF ArtifactTrue, MatchingArtifact
<1>6. ASSUME NEW name \in JobNames PROVE PodTrue(name)'
  <2> DEFINE key == name[1]
             job == pjobs'[name]
  <2>1. PodTrue(name) /\ key \in Keys /\ name[2] \in Attempts /\ name = <<key, name[2]>>
    BY <1>3
  <2>2. CASE \E n \in Attempts : PodWrites(<<key, n>>)
    <3>1. PICK n \in Attempts : PodWrites(<<key, n>>)
      BY <2>2
    <3>2. CASE n = name[2]
      <4>1. job.pod = "wrote" /\ job.phase = "Running" /\ job.uid = pjobs[name].uid
        BY <1>1, <2>1, <3>1, <3>2, WritesAlone DEF PodWrites
      <4> QED BY <2>1, <4>1 DEF PodTrue
    <3>3. CASE n # name[2]
      <4>1. job = pjobs[name] /\ job.pod = "gone"
        BY <1>1, <2>1, <3>1, <3>3, WritesAlone
      <4> QED BY <2>1, <4>1 DEF PodTrue
    <3> QED BY <3>2, <3>3
  <2>3. CASE ~(\E n \in Attempts : PodWrites(<<key, n>>))
    <3>1. cms'[key] = cms[key] \/ cms'[key].uid = 0
      BY <1>4, <2>1, <2>3
    <3>2. ~PodWrites(name)
      BY <2>1, <2>3
    <3>3. CASE pjobs'[name] = pjobs[name]
      BY <2>1, <3>1, <3>3 DEF PodTrue
    <3>4. CASE PodMade(name)
      <4>1. /\ job.uid = 1 /\ job.phase = "Running" /\ job.pod = "new"
            /\ key = ArtifactKey(rc.fe) /\ key[1] \in ValidSources /\ cms[key].uid = 0
        BY <1>3, <3>4 DEF PodMade, LookingSteps, WorkSteps, ArtifactKey
      <4> QED BY <3>1, <4>1 DEF PodTrue
    <3>5. CASE PodBuilds(name)
      <4>1. PICK v \in Variants : job.digest = <<fe.src, v>>
        BY <3>5 DEF PodBuilds
      <4>2. /\ job.pod = "built" /\ job.phase = "Running" /\ job.uid = pjobs[name].uid
            /\ pjobs[name].pod = "new" /\ job.owner = 1 /\ key[1] = fe.src
        BY <1>2, <3>5 DEF PodBuilds
      <4>3. job.digest \in Digests /\ job.digest[1] = key[1]
        BY <1>2, <4>1, <4>2 DEF Digests
      <4> QED BY <2>1, <3>1, <4>2, <4>3 DEF PodTrue
    <3>6. CASE PodGoes(name)
      BY <2>1, <3>6 DEF PodGoes, PodTrue
    <3> QED BY <3>2, <3>3, <3>4, <3>5, <3>6, PackageJobMoves
  <2> QED BY <2>2, <2>3
<1>7. rc'.pc = "create" => cms'[ArtifactKey(rc'.fe)].uid = 0
  <2> SUFFICES ASSUME rc'.pc = "create" PROVE cms'[ArtifactKey(rc.fe)].uid = 0 /\ rc'.fe = rc.fe
    OBVIOUS
  <2> DEFINE key == ArtifactKey(rc.fe)
  <2>1. /\ rc.pc \in LookingSteps /\ rc'.fe = rc.fe
        /\ rc' = rc \/ (LooksOn /\ ~MatchingArtifact(key))
    BY <1>1 DEF ReconcileMoves, Begins, LooksOn, Kept, GivesUp, Decides, AsksPublish,
       NeedsPublish, AnswersPublish, NeedsUnpublish, AnswersUnpublish, Writes, Collects, Ends,
       NoReconcile, LookingSteps
  <2>2. key \in Keys
    BY <1>3, <2>1 DEF LookingSteps, WorkSteps
  <2>3. cms[key].uid = 0
    BY <1>3, <2>1, <2>2 DEF ArtifactTrue
  <2>4. ~(\E n \in Attempts : PodWrites(<<key, n>>))
    <3> SUFFICES ASSUME NEW n \in Attempts, PodWrites(<<key, n>>) PROVE FALSE
      OBVIOUS
    <3>1. rc' = rc /\ (rc.pc = "create" => ArtifactKey(rc.fe) # key)
      BY <1>1, <2>2, WritesAlone
    <3> QED BY <3>1
  <2> QED BY <1>4, <2>1, <2>2, <2>3, <2>4
<1>8. ASSUME NEW id \in RequestIds
      PROVE  rjobs'[id].uid \in {0, 1} /\ (rjobs'[id].uid = 0 <=> rjobs'[id].phase = "Absent")
  <2>1. /\ \A other \in RequestIds :
              /\ rjobs[other].uid \in {0, 1}
              /\ rjobs[other].uid = 0 <=> rjobs[other].phase = "Absent"
        /\ rc.pc \in {"createPublish", "createUnpublish"} => rc.fe.uid = 1
    BY <1>1, <1>3 DEF ObjectsInv, WorkSteps
  <2>2. CASE UNCHANGED <<rjobs, registry, clock>>
    BY <2>1, <2>2
  <2>3. CASE \E other \in RequestIds : JobMade(other) \/ JobWorks(other) \/ JobEnds(other)
    <3>1. PICK other \in RequestIds : JobMade(other) \/ JobWorks(other) \/ JobEnds(other)
      BY <2>3
    <3>2. PICK job \in RequestJob :
             /\ rjobs' = [rjobs EXCEPT ![other] = job]
             /\ job.uid = 1 /\ job.phase # "Absent"
      BY <2>1, <3>1 DEF JobMade, JobWorks, JobEnds, SetJob
    <3> QED BY <2>1, <3>2
  <2> QED BY <1>2, <2>2, <2>3, RequestJobSteps DEF JobExpires
<1> QED BY <1>5, <1>6, <1>7, <1>8 DEF ObjectsInv

-----------------------------------------------------------------------------
(* A request that the API is about to write is new.                        *)

IdsInv ==
    /\ \A x \in Copies : x.pub.id \in Maybe(api.used) /\ x.unpub \in Maybe(api.used)
    /\ \A id \in RequestIds : rjobs[id].uid # 0 => id \in api.used
    /\ api.op \in RequestOps =>
          /\ api.id \in api.used /\ rjobs[api.id].uid = 0
          /\ \A x \in Copies : x.pub.id # api.id /\ x.unpub # api.id

\* The FE gets the request that the API was about to write, and then the API
\* has done with it.
RequestWritten ==
    /\ api.op \in RequestOps /\ api'.op = "none" /\ api'.used = api.used
    /\ FeMoves /\ UNCHANGED <<cache, rc, objectVars, registry, clock>>
    /\ \/ api.op = "publish" /\ fe'.pub = api.req /\ fe'.unpub = fe.unpub
       \/ /\ api.op \in {"unpublish", "unpublishAndDelete"}
          /\ fe'.unpub = api.id /\ fe'.pub = fe.pub

LEMMA WritingRequests ==
    ASSUME TypeInv, fe.uid # 0, FeMoves \/ FeEdited, [Next]_vars,
           PatchPublishRequest \/ PatchUnpublishRequest
    PROVE  RequestWritten
<1> USE Parts
<1>1. /\ api' = [NoCall EXCEPT !.used = api.used]
      /\ UNCHANGED <<cache, rc, objectVars, registry, clock>>
      /\ api.op \in RequestOps
  BY DEF PatchPublishRequest, PatchUnpublishRequest, controllerVars, RequestOps
<1>2. api'.op = "none" /\ api'.used = api.used
  BY <1>1 DEF NoCall
<1>3. FeMoves
  BY <1>1, <1>2 DEF FeEdited, RequestOps
<1>4. CASE PatchPublishRequest
  <2> DEFINE new == [fe EXCEPT !.pub = api.req, !.target = TRUE]
  <2>1. new \in FE /\ new.pub = api.req /\ new.unpub = fe.unpub
    BY DEF FE, TypeInv, TypeOK, Call
  <2>2. fe' = Stored(new) /\ api.op = "publish"
    BY <1>4 DEF PatchPublishRequest
  <2> HIDE DEF new
  <2> QED BY <1>1, <1>2, <1>3, <2>1, <2>2, StoredIs DEF SameRequests, RequestWritten
<1>5. CASE PatchUnpublishRequest
  <2> DEFINE after == IF api.op = "unpublish" THEN fe.delAfter ELSE api.id
             new == [fe EXCEPT !.unpub = api.id, !.target = TRUE, !.delAfter = after]
  <2>1. after \in Maybe(UnpublishIds) /\ api.id \in Maybe(UnpublishIds)
    BY <1>5 DEF PatchUnpublishRequest, TypeInv, CallPrepared, Maybe, FE
  <2>2. fe' = Stored(new) /\ api.op \in {"unpublish", "unpublishAndDelete"}
    BY <1>5 DEF PatchUnpublishRequest
  <2> HIDE DEF after
  <2>3. new \in FE /\ new.unpub = api.id /\ new.pub = fe.pub
    BY <2>1 DEF FE
  <2> HIDE DEF new
  <2> QED BY <1>1, <1>2, <1>3, <2>2, <2>3, StoredIs DEF SameRequests, RequestWritten
<1> QED BY <1>4, <1>5

\* Nothing else ends a request of the API, or gives the FE another.
LEMMA RequestsKept ==
    ASSUME Orderly, TypeInv, fe.uid # 0, FeMoves \/ FeEdited, [Next]_vars
    PROVE  \/ RequestWritten
           \/ /\ fe'.pub = fe.pub /\ fe'.unpub = fe.unpub
              /\ \/ UNCHANGED api
                 \/ \E id \in RequestIds : Accepted(id)
                 \/ /\ api.op \notin RequestOps /\ api'.op \notin RequestOps
                    /\ api'.used = api.used
<1>1. CASE PatchPublishRequest \/ PatchUnpublishRequest
  BY <1>1, WritingRequests
<1>2. CASE ~(PatchPublishRequest \/ PatchUnpublishRequest)
  <2>1. fe'.pub = fe.pub /\ fe'.unpub = fe.unpub
    BY <1>2 DEF FeMoves, FeEdited, SameRequests
  <2>2. \/ UNCHANGED api \/ (\E id \in RequestIds : Accepted(id)) \/ Unasked
    BY ApiSteps, OrderlyIs
  <2>3. CASE api.op \in RequestOps
    <3>1. UNCHANGED api
      <4>1. CASE ControllerNext
        BY <4>1 DEF ControllerNext, Reconcile, CacheSync, ReconcileError, Continue,
           ReconcileStart, ArtifactFound, PackageJobInProgress, ReadArtifactAgain,
           PackageAttemptsExceeded, NextAttempt, CreatePackageJob, ObservePublishJob,
           KeepFinishedPublish, NeedPublishJob, CreatePublishJob, ObserveUnpublishJob,
           KeepFinishedUnpublish, NeedUnpublishJob, CreateUnpublishJob, CreateRequestJob,
           GetLatest, PatchStatus, GetPatched, PatchLabels, DeleteFrontendExtension,
           ListOldArtifacts, DeleteOldArtifact
      <4>2. CASE JobsNext
        BY <4>2 DEF JobsNext, Packager, PackagerBuild, PackagerRefuse, PackagerUpsert,
           PackagerSucceed, PJobStep, PackagerFail, ExpirePackageJob, Publisher,
           PublisherInstall, PublisherRefuse, PublisherUninstall, PublisherSucceed, RJobStep,
           PublisherFail, ExpireRequestJob, Collector, CollectPackageJob, CollectRequestJob,
           CollectArtifact, RemoveDeletedFE
      <4>3. CASE ApiNext
        BY <1>2, <2>3, <4>3 DEF ApiNext, UserWrites, EditSpec, SetRebuildToken,
           AnnotatePublish, AnnotateUnpublish, DeleteInBackground, DeleteInForeground,
           Recreate, TamperArtifact, TriggerPublish, TriggerUnpublish, DeleteExtension,
           Accept, ApiCompletes, DeleteByName, RequestOps
      <4> QED BY <4>1, <4>2, <4>3 DEF Next, vars
    <3> QED BY <2>1, <3>1
  <2> QED BY <2>1, <2>2, <2>3 DEF Unasked
<1> QED BY <1>1, <1>2

\* Where the requests of a copy come from.
LEMMA CopiesAsk ==
    ASSUME Orderly, TypeInv, Lives => CopiesInv /\ ShapeInv, Lives', [Next]_vars,
           NEW x \in Copies'
    PROVE  \/ \E y \in Copies : x.pub = y.pub /\ x.unpub = y.unpub
           \/ RequestWritten /\ x.pub = fe'.pub /\ x.unpub = fe'.unpub
<1>1. /\ Lives /\ (FeMoves \/ FeEdited)
      /\ rc'.fe \in {rc.fe, cache, AbsentFE}
      /\ cache' = cache \/ (SaysAs(cache', fe) /\ SaysAs(fe', fe) /\ rc' = rc)
  BY LifeGoesOn
<1>2. fe \in Copies /\ AbsentFE.uid = 0
  BY <1>1, Parts DEF Copies, Lives
<1>3. RequestWritten \/ (fe'.pub = fe.pub /\ fe'.unpub = fe.unpub)
  BY <1>1, RequestsKept DEF Lives
<1> QED BY <1>1, <1>2, <1>3 DEF Copies, SaysAs, SameRequests

LEMMA IdsStep ==
    ASSUME Orderly, TypeInv, Lives => CopiesInv /\ ShapeInv /\ ObjectsInv /\ IdsInv,
           Lives', [Next]_vars
    PROVE  IdsInv'
<1> USE Parts
<1>1. Lives /\ CopiesInv /\ ShapeInv /\ ObjectsInv /\ IdsInv /\ (FeMoves \/ FeEdited)
  BY LifeGoesOn
<1>2. \/ RequestWritten
      \/ /\ fe'.pub = fe.pub /\ fe'.unpub = fe.unpub
         /\ \/ UNCHANGED api
            \/ \E id \in RequestIds : Accepted(id)
            \/ /\ api.op \notin RequestOps /\ api'.op \notin RequestOps
               /\ api'.used = api.used
  BY <1>1, RequestsKept DEF Lives
<1>3. api.used \subseteq RequestIds /\ api.used \subseteq api'.used
  BY <1>2 DEF TypeInv, TypeOK, Call, RequestWritten, Accepted
<1>4. api.op = "publish" => api.req.id = api.id
  BY <1>1 DEF CopiesInv
<1>5. /\ \A x \in Copies : x.pub.id \in Maybe(api.used) /\ x.unpub \in Maybe(api.used)
      /\ \A id \in RequestIds : rjobs[id].uid # 0 => id \in api.used
      /\ api.op \in RequestOps =>
            /\ api.id \in api.used /\ rjobs[api.id].uid = 0
            /\ \A x \in Copies : x.pub.id # api.id /\ x.unpub # api.id
      /\ fe \in Copies
  BY <1>1 DEF IdsInv, Copies, Lives
<1>6. ASSUME NEW x \in Copies'
      PROVE  /\ x.pub.id \in Maybe(api.used) /\ x.unpub \in Maybe(api.used)
             /\ RequestWritten \/ \E y \in Copies : x.pub = y.pub /\ x.unpub = y.unpub
  BY <1>1, <1>4, <1>5, CopiesAsk DEF RequestWritten, Maybe, RequestOps
<1>7. ASSUME NEW id \in RequestIds, rjobs[id].uid = 0, rjobs'[id].uid # 0
      PROVE  id \in api.used /\ (api.op \in RequestOps => id # api.id)
  <2>1. PICK other \in RequestIds :
          JobMade(other) \/ JobWorks(other) \/ JobEnds(other) \/ JobExpires(other)
    BY <1>1, <1>7, RequestJobSteps, LivesOwns
  <2>2. other = id
    BY <1>7, <2>1 DEF JobMade, JobWorks, JobEnds, JobExpires, SetJob
  <2>3. ~JobWorks(id) /\ ~JobEnds(id) /\ ~JobExpires(id)
    BY <1>1, <1>7, OrderlyIs DEF JobWorks, JobEnds, JobExpires, ObjectsInv
  <2>4. JobMade(id)
    BY <2>1, <2>2, <2>3
  <2>5. rc.pc \in WorkSteps /\ id \in {rc.fe.pub.id, rc.fe.unpub} /\ id # None
    BY <2>4, IdsAssumption DEF JobMade, WorkSteps, RequestIds
  <2>6. rc.fe \in Copies
    BY <1>1, <2>5, WorkIsOnCopy
  <2> QED BY <1>5, <2>5, <2>6 DEF Maybe
<1>8. \A id \in RequestIds : rjobs'[id].uid # 0 => id \in api.used
  BY <1>5, <1>7
<1>9. ASSUME api'.op \in RequestOps
      PROVE  /\ api'.id \in api'.used /\ rjobs'[api'.id].uid = 0
             /\ \A x \in Copies' : x.pub.id # api'.id /\ x.unpub # api'.id
  <2>1. ~RequestWritten
    BY <1>9 DEF RequestWritten, RequestOps
  <2>2. \A x \in Copies' : \E y \in Copies : x.pub = y.pub /\ x.unpub = y.unpub
    BY <1>6, <2>1
  <2>3. CASE UNCHANGED api
    BY <1>3, <1>5, <1>7, <1>9, <2>2, <2>3
  <2>4. CASE \E id \in RequestIds : Accepted(id)
    <3>1. PICK id \in RequestIds : Accepted(id)
      BY <2>4
    <3>2. /\ id \notin api.used /\ api'.id = id /\ api'.used = api.used \cup {id}
          /\ rjobs' = rjobs
      BY <3>1 DEF Accepted
    <3>3. id # None
      BY IdsAssumption DEF RequestIds
    <3> QED BY <1>5, <2>2, <3>2, <3>3 DEF Maybe
  <2> QED BY <1>2, <1>9, <2>1, <2>3, <2>4
<1> QED BY <1>3, <1>6, <1>8, <1>9 DEF IdsInv, Maybe

-----------------------------------------------------------------------------
(* The publish requests that are still open, as they were made.            *)

View(x, q) ==
    [gen |-> x.gen, key |-> ArtifactKey(x), id |-> q.id, digest |-> q.digest]

\* Those made for the generation of a copy, the one the API is about to write
\* among them.
OpenRequests ==
    {View(x, x.pub) : x \in {y \in Copies : y.pub.id # None /\ y.pub.gen = y.gen}} \cup
    {View(fe, q) : q \in {r \in {api.req} : api.op = "publish" /\ r.gen = fe.gen}}

\* A request is of the oldest generation there is, and the artifact it names,
\* or its Job was made for, is there and stays: no reconcile is about to build
\* another, to collect it or to call it missing.
OpenRequest(v) ==
    /\ \A x \in Copies : v.gen <= x.gen
    /\ v.digest # None => cms[v.key].uid # 0 /\ cms[v.key].digest = v.digest
    /\ rjobs[v.id].uid # 0 => cms[v.key].uid # 0 /\ cms[v.key].digest = rjobs[v.id].digest
    /\ rc.pc = "gc" => v.key \notin rc.doomed
    /\ v.digest # None =>
          /\ rc.pc \notin {"artifactAgain", "create"}
          /\ rc.pc \in {"get", "patch"} => rc.status.phase = "Ready"
          /\ v.gen = fe.gen => fe.status.phase = "Ready"

OpenInv ==
    /\ \A v, w \in OpenRequests : v.id = w.id => v = w
    /\ \A v \in OpenRequests : OpenRequest(v)
    /\ rc.pc \in {"publish", "createPublish"} =>
          /\ rc.fe.pub.id # None /\ rc.fe.pub.gen = rc.fe.gen
          /\ cms[ArtifactKey(rc.fe)].uid # 0
          /\ rc.digest = cms[ArtifactKey(rc.fe)].digest

\* What a request that is open is about.
LEMMA OpenTypes ==
    ASSUME TypeInv, Lives, CopiesInv, IdsInv, NEW v \in OpenRequests
    PROVE  /\ v.key \in Keys /\ v.id \in PublishIds /\ v.id \in api.used /\ v.id # None
           /\ \E x \in Copies : v.gen = x.gen /\ v.key = ArtifactKey(x)
<1> USE Parts
<1>1. fe \in Copies /\ \A x \in Copies : ArtifactKey(x) \in Keys
  BY DEF Copies, Lives, CopiesInv, ValidCopy
<1>2. /\ \A x \in Copies : x.pub.id \in Maybe(PublishIds) /\ x.pub.id \in Maybe(api.used)
      /\ api.req.id \in Maybe(PublishIds)
      /\ api.op = "publish" => api.req.id = api.id /\ api.id \in api.used
      /\ api.used \subseteq RequestIds
  <2>1. \A x \in FE : x.pub.id \in Maybe(PublishIds)
    BY DEF FE, Request
  <2>2. api.req.id \in Maybe(PublishIds) /\ api.used \subseteq RequestIds
    BY DEF TypeInv, TypeOK, Call, Request
  <2> QED BY <2>1, <2>2 DEF Copies, CopiesInv, IdsInv, RequestOps
<1>3. CASE \E x \in Copies : x.pub.id # None /\ v = View(x, x.pub)
  BY <1>1, <1>2, <1>3, IdsAssumption DEF View, Maybe
<1>4. CASE api.op = "publish" /\ v = View(fe, api.req)
  BY <1>1, <1>2, <1>4, IdsAssumption DEF View, Maybe, RequestIds
<1> QED BY <1>3, <1>4 DEF OpenRequests

\* A reconcile works on the generation of all open requests.
LEMMA OpenIsCurrent ==
    ASSUME TypeInv, Lives, CopiesInv, IdsInv, NEW v \in OpenRequests,
           \A x \in Copies : v.gen <= x.gen
    PROVE  /\ rc.fe.uid # 0 => v.gen = rc.fe.gen /\ v.key = ArtifactKey(rc.fe)
           /\ rc.fe.uid = 0 /\ cache.uid # 0 => v.gen = cache.gen /\ v.key = ArtifactKey(cache)
           /\ v.gen = fe.gen => v.key = ArtifactKey(fe)
<1>1. PICK x \in Copies : v.gen = x.gen /\ v.key = ArtifactKey(x)
  BY OpenTypes
<1>2. \A y \in Copies : y.gen \in Nat /\ y.gen <= fe.gen /\ y.token = fe.token
  BY Parts DEF Copies, CopiesInv, ValidCopy, FE
<1>3. \A y \in Copies : v.gen = y.gen => v.key = ArtifactKey(y)
  BY <1>1, <1>2 DEF CopiesInv, ArtifactKey
<1>4. /\ rc.fe.uid # 0 => cache \in Copies /\ rc.fe \in Copies /\ rc.fe.gen <= cache.gen
      /\ cache.uid # 0 => cache \in Copies
      /\ fe \in Copies
  BY DEF CopiesInv, Copies, Lives
<1>5. ASSUME rc.fe.uid # 0 PROVE v.gen = rc.fe.gen
  <2>1. \A y \in Copies : rc.fe.gen <= y.gen
    BY <1>2, <1>4, <1>5 DEF Copies
  <2> QED BY <1>1, <1>2, <1>4, <1>5, <2>1
<1>6. ASSUME rc.fe.uid = 0, cache.uid # 0 PROVE v.gen = cache.gen
  <2>1. \A y \in Copies : cache.gen <= y.gen
    BY <1>2, <1>4, <1>6 DEF Copies
  <2> QED BY <1>1, <1>2, <1>4, <1>6, <2>1
<1> QED BY <1>3, <1>4, <1>5, <1>6

\* Where an open request comes from.
LEMMA OpenMoves ==
    ASSUME Orderly, TypeInv, Lives => CopiesInv /\ ShapeInv, Lives', [Next]_vars,
           NEW v \in OpenRequests'
    PROVE  \/ v \in OpenRequests
           \/ \E id \in PublishIds :
                 Accepted(id) /\ api'.op = "publish" /\ v = View(fe, api'.req) /\ v.id = id
<1> USE Parts
<1>1. /\ Lives /\ CopiesInv /\ (FeMoves \/ FeEdited)
      /\ rc'.fe \in {rc.fe, cache, AbsentFE}
      /\ cache' = cache \/ (SaysAs(cache', fe) /\ SaysAs(fe', fe) /\ rc' = rc)
  BY LifeGoesOn
<1>2. /\ fe.gen \in Nat /\ fe'.gen \in Nat /\ fe.gen <= fe'.gen
      /\ fe'.gen = fe.gen => FeMoves /\ SameSpec(fe', fe)
      /\ FeEdited => fe'.gen = fe.gen + 1
  BY <1>1, GenerationsGrow
<1>3. \/ RequestWritten
      \/ /\ fe'.pub = fe.pub /\ fe'.unpub = fe.unpub
         /\ \/ UNCHANGED api
            \/ \E id \in RequestIds : Accepted(id)
            \/ /\ api.op \notin RequestOps /\ api'.op \notin RequestOps
               /\ api'.used = api.used
  BY <1>1, RequestsKept DEF Lives
<1>4. ASSUME NEW x \in Copies, NEW y, y.pub = x.pub, y.gen = x.gen,
             ArtifactKey(y) = ArtifactKey(x), y.pub.id # None, y.pub.gen = y.gen
      PROVE  View(y, y.pub) \in OpenRequests
  BY <1>4 DEF View, OpenRequests
<1>5. fe \in Copies /\ (fe.pub.id # None => fe.pub.gen <= fe.gen) /\ fe.pub.gen \in Nat
  BY <1>1 DEF Copies, Lives, CopiesInv, ValidCopy, Request
<1>6. ASSUME fe'.pub.id # None, fe'.pub.gen = fe'.gen
      PROVE  View(fe', fe'.pub) \in OpenRequests
  <2>1. CASE fe'.pub = fe.pub
    <3>1. fe'.gen = fe.gen
      BY <1>1, <1>2, <1>5, <1>6, <2>1 DEF FeMoves, SameSpec
    <3> QED BY <1>2, <1>4, <1>5, <1>6, <2>1, <3>1 DEF SameSpec, ArtifactKey
  <2>2. CASE RequestWritten /\ fe'.pub # fe.pub
    <3>1. api.op = "publish" /\ fe'.pub = api.req /\ SameSpec(fe', fe)
      BY <2>2 DEF RequestWritten, FeMoves
    <3>2. View(fe', fe'.pub) = View(fe, api.req) /\ api.req.gen = fe.gen
      BY <1>6, <3>1 DEF View, SameSpec, ArtifactKey
    <3> QED BY <3>1, <3>2 DEF OpenRequests
  <2> QED BY <1>3, <2>1, <2>2
<1>7. CASE \E x \in Copies' : x.pub.id # None /\ x.pub.gen = x.gen /\ v = View(x, x.pub)
  <2>1. PICK x \in Copies' : x.pub.id # None /\ x.pub.gen = x.gen /\ v = View(x, x.pub)
    BY <1>7
  <2>2. x = fe' \/ x \in Copies \/ SaysAs(x, fe)
    BY <1>1, <2>1 DEF Copies
  <2>3. SaysAs(x, fe) => x.pub = fe.pub /\ x.gen = fe.gen /\ ArtifactKey(x) = ArtifactKey(fe)
    BY DEF SaysAs, SameSpec, SameRequests, ArtifactKey
  <2> QED BY <1>4, <1>5, <1>6, <2>1, <2>2, <2>3
<1>8. CASE api'.op = "publish" /\ api'.req.gen = fe'.gen /\ v = View(fe', api'.req)
  <2>1. CASE UNCHANGED api
    <3>1. api.op = "publish" /\ api.req.gen = fe'.gen /\ api.req.gen <= fe.gen
          /\ api.req.gen \in Nat
      BY <1>1, <1>8, <2>1 DEF CopiesInv, TypeInv, TypeOK, Call, Request
    <3>2. fe'.gen = fe.gen
      BY <1>2, <3>1
    <3>3. v = View(fe, api.req)
      BY <1>2, <1>8, <2>1, <3>2 DEF View, SameSpec, ArtifactKey
    <3> QED BY <3>1, <3>2, <3>3 DEF OpenRequests
  <2>2. CASE \E id \in RequestIds : Accepted(id)
    <3>1. PICK id \in RequestIds : Accepted(id)
      BY <2>2
    <3>2. id \in PublishIds /\ api'.req.id = id /\ fe' = fe
      BY <1>8, <3>1 DEF Accepted
    <3>3. v = View(fe, api'.req) /\ v.id = id
      BY <1>8, <3>2 DEF View
    <3> QED BY <1>8, <3>1, <3>2, <3>3
  <2> QED BY <1>3, <1>8, <2>1, <2>2 DEF RequestWritten, RequestOps
<1> QED BY <1>7, <1>8 DEF OpenRequests

\* With nothing at work the FE is as the controller left it.
LEMMA CalmIsCurrent ==
    ASSUME TypeInv, RestInv, Lives, ShapeInv, Calm
    PROVE  /\ Undisturbed /\ InStep /\ cache = fe /\ \A x \in Copies : x = fe
           /\ rc.pc = "idle" /\ rc.fe = AbsentFE /\ rc.status = NoStatus /\ rc.pub = NoPublish
           /\ \A id \in RequestIds : rjobs[id].phase # "Running"
<1>1. rc.pc = "idle" /\ Undisturbed /\ \A id \in RequestIds : rjobs[id].phase # "Running"
  BY DEF Calm, CaughtUp, Undisturbed, Lives
<1>2. rc.fe = AbsentFE /\ rc.status = NoStatus /\ rc.pub = NoPublish
  BY <1>1 DEF ShapeInv
<1>3. InStep /\ cache = fe
  BY <1>1 DEF RestInv, OnTheWay, CacheCurrent, Undisturbed
<1>4. \A x \in Copies : x = fe
  BY <1>2, <1>3, Parts DEF Copies
<1> QED BY <1>1, <1>2, <1>3, <1>4

LEMMA IsOpen ==
    ASSUME NEW x \in Copies, x.pub.id # None, x.pub.gen = x.gen
    PROVE  /\ View(x, x.pub) \in OpenRequests
           /\ View(x, x.pub).key = ArtifactKey(x) /\ View(x, x.pub).id = x.pub.id
BY DEF View, OpenRequests

\* The artifact of an open request stays.
LEMMA OpenArtifactKept ==
    ASSUME Orderly, TypeInv, OrderInv, Lives, CopiesInv, ShapeInv, ObjectsInv, IdsInv, OpenInv,
           [Next]_vars, NEW v \in OpenRequests, cms[v.key].uid # 0
    PROVE  cms'[v.key] = cms[v.key]
<1>1. v.key \in Keys
  BY OpenTypes
<1>2. rc.pc = "gc" => v.key \notin rc.doomed
  BY DEF OpenInv, OpenRequest
<1>3. ASSUME NEW n \in Attempts, PodWrites(<<v.key, n>>) PROVE FALSE
  <2>1. cms[v.key].uid = 0
    BY <1>1, <1>3, WritesAlone
  <2> QED BY <2>1
<1> QED BY <1>1, <1>2, <1>3, ArtifactMoves, LivesOwns, OrderlyIs

\* What is true of an open request stays true.
LEMMA OpenStays ==
    ASSUME Orderly, TypeInv, OrderInv,
           Lives => CopiesInv /\ ShapeInv /\ ObjectsInv /\ IdsInv /\ OpenInv,
           Lives', [Next]_vars, NEW v \in OpenRequests
    PROVE  OpenRequest(v)'
<1> USE Parts
<1>1. /\ Lives /\ CopiesInv /\ ShapeInv /\ ObjectsInv /\ IdsInv /\ OpenInv
      /\ FeMoves \/ FeEdited
      /\ rc' = rc \/ (ReconcileMoves /\ cache' = cache /\ api' = api)
      /\ rc'.fe \in {rc.fe, cache, AbsentFE}
      /\ cache' = cache \/ (SaysAs(cache', fe) /\ SaysAs(fe', fe) /\ rc' = rc)
  BY LifeGoesOn
<1>2. /\ fe.gen \in Nat /\ fe'.gen \in Nat /\ fe.gen <= fe'.gen
      /\ fe'.gen = fe.gen => FeMoves /\ SameSpec(fe', fe)
      /\ FeEdited => fe'.gen = fe.gen + 1
  BY <1>1, GenerationsGrow
<1>3. /\ v.key \in Keys /\ v.id \in PublishIds /\ v.id \in RequestIds /\ v.id # None
      /\ \E x \in Copies : v.gen = x.gen
  BY <1>1, OpenTypes DEF RequestIds
<1>4. OpenRequest(v) /\ v.gen \in Nat /\ ArtifactTrue(v.key)
  <2>1. \A x \in Copies : x.gen \in Nat
    BY DEF Copies, FE
  <2> QED BY <1>1, <1>3, <2>1 DEF OpenInv, ObjectsInv
<1>5. /\ rc.fe.uid # 0 => v.key = ArtifactKey(rc.fe)
      /\ rc.fe.uid = 0 /\ cache.uid # 0 => v.key = ArtifactKey(cache)
  BY <1>1, <1>4, OpenIsCurrent DEF OpenRequest
<1>6. cms[v.key].uid # 0 => cms'[v.key] = cms[v.key] /\ MatchingArtifact(v.key)
                            /\ v.key[1] \in ValidSources
  BY <1>1, <1>4, OpenArtifactKept DEF ArtifactTrue
<1>7. \A x \in Copies' : v.gen <= x.gen
  <2>1. \A x \in Copies' : x = fe' \/ x \in Copies \/ SaysAs(x, fe)
    BY <1>1 DEF Copies
  <2>2. v.gen <= fe.gen /\ \A x \in Copies : v.gen <= x.gen
    BY <1>1, <1>4 DEF OpenRequest, Copies, Lives
  <2> QED BY <1>2, <1>4, <2>1, <2>2 DEF SaysAs, SameSpec
<1>8. ASSUME rjobs'[v.id].uid # 0
      PROVE  cms'[v.key].uid # 0 /\ cms'[v.key].digest = rjobs'[v.id].digest
  <2>1. CASE rjobs[v.id].uid # 0 /\ rjobs'[v.id].digest = rjobs[v.id].digest
    BY <1>4, <1>6, <2>1 DEF OpenRequest
  <2>2. CASE \E id \in RequestIds : JobWorks(id) \/ JobEnds(id)
    <3>1. PICK id \in RequestIds : JobWorks(id) \/ JobEnds(id)
      BY <2>2
    <3>2. rjobs[id].uid # 0
      BY <1>1, <3>1 DEF JobWorks, JobEnds, ObjectsInv
    <3>3. rjobs'[v.id].digest = rjobs[v.id].digest /\ (id = v.id \/ rjobs'[v.id] = rjobs[v.id])
      BY <1>3, <3>1 DEF JobWorks, JobEnds, SetJob
    <3> QED BY <1>8, <2>1, <3>2, <3>3
  <2>3. CASE \E id \in RequestIds : JobMade(id)
    <3>1. PICK id \in RequestIds : JobMade(id)
      BY <2>3
    <3>2. CASE id = v.id
      <4>1. rc.pc = "createPublish" /\ v.id = rc.fe.pub.id
        BY <1>3, <3>1, <3>2, IdsAssumption DEF JobMade, TypeInv, Prepared
      <4>2. /\ rc.fe.pub.id # None /\ rc.fe.pub.gen = rc.fe.gen /\ rc.fe \in Copies
            /\ cms[ArtifactKey(rc.fe)].uid # 0
            /\ rc.digest = cms[ArtifactKey(rc.fe)].digest
        BY <1>1, <4>1, WorkIsOnCopy DEF OpenInv, WorkSteps
      <4>3. v.key = ArtifactKey(rc.fe)
        BY <1>1, <4>1, <4>2, IsOpen DEF OpenInv
      <4>4. rjobs'[v.id].digest = rc.digest
        BY <1>3, <3>1, <3>2, <4>1 DEF JobMade, SetJob
      <4> QED BY <1>6, <4>2, <4>3, <4>4
    <3>3. CASE id # v.id
      BY <1>8, <2>1, <3>1, <3>3 DEF JobMade, SetJob
    <3> QED BY <3>2, <3>3
  <2>4. CASE UNCHANGED rjobs
    BY <1>8, <2>1, <2>4
  <2> QED BY <1>1, <2>2, <2>3, <2>4, RequestJobSteps, LivesOwns, OrderlyIs DEF JobExpires
<1>9. rc'.pc = "gc" => v.key \notin rc'.doomed
  <2>1. CASE rc' = rc
    BY <1>4, <2>1 DEF OpenRequest
  <2>2. CASE ReconcileMoves
    <3>1. rc'.pc = "gc" => Collects
      BY <2>2 DEF ReconcileMoves, Begins, LooksOn, GivesUp, Decides, AsksPublish, NeedsPublish,
         AnswersPublish, NeedsUnpublish, AnswersUnpublish, Writes, Ends, NoReconcile
    <3>2. rc.pc = "after" => rc.fe.uid # 0
      BY <1>1 DEF ShapeInv
    <3> QED BY <1>4, <1>5, <3>1, <3>2 DEF Collects, OpenRequest
  <2> QED BY <1>1, <2>1, <2>2
<1>10. ASSUME v.digest # None
       PROVE  /\ rc'.pc \notin {"artifactAgain", "create"}
              /\ rc'.pc \in {"get", "patch"} => rc'.status.phase = "Ready"
  <2>1. /\ cms[v.key].uid # 0 /\ rc.pc \notin {"artifactAgain", "create"}
        /\ rc.pc \in {"get", "patch"} => rc.status.phase = "Ready"
    BY <1>4, <1>10 DEF OpenRequest
  <2>2. MatchingArtifact(v.key) /\ v.key[1] \in ValidSources
    BY <1>6, <2>1
  <2>3. /\ rc.pc \in {"artifact", "artifactAgain"} => v.key = ArtifactKey(rc.fe)
        /\ rc.pc = "idle" /\ cache.uid # 0 => v.key = ArtifactKey(cache)
    BY <1>1, <1>5 DEF ShapeInv, WorkSteps
  <2>4. ~LooksOn
    BY <2>2, <2>3 DEF LooksOn
  <2>5. ~(\E x \in {cache, rc.fe} : GivesUp(x))
    BY <2>1, <2>2, <2>3 DEF GivesUp, ArtifactKey
  <2>6. CASE ReconcileMoves
    <3>1. CASE Begins \/ AsksPublish \/ NeedsPublish \/ NeedsUnpublish \/ Collects \/ Ends
      BY <3>1 DEF Begins, AsksPublish, NeedsPublish, NeedsUnpublish, Collects, Ends, NoReconcile
    <3>2. CASE Writes
      BY <2>1, <3>2 DEF Writes, Kept
    <3>3. CASE \E publish \in PublishStatus, digest \in Maybe(Digests) :
                  AnswersPublish(publish, digest)
      BY <3>3 DEF AnswersPublish, Decides, ReadyStatus, StatusFor
    <3>4. CASE \E unpublish \in UnpublishStatus : AnswersUnpublish(unpublish)
      BY <3>4 DEF AnswersUnpublish, Decides, ReadyStatus, StatusFor
    <3> QED BY <2>4, <2>5, <2>6, <3>1, <3>2, <3>3, <3>4 DEF ReconcileMoves
  <2> QED BY <1>1, <2>1, <2>6
<1>11. ASSUME v.digest # None, v.gen = fe'.gen
       PROVE  fe'.status.phase = "Ready"
  <2>1. v.gen <= fe.gen
    BY <1>1, <1>4 DEF OpenRequest, Copies, Lives
  <2>2. v.gen = fe.gen /\ FeMoves
    BY <1>2, <1>4, <1>11, <2>1
  <2>3. fe.status.phase = "Ready" /\ (rc.pc = "patch" => rc.status.phase = "Ready")
    BY <1>4, <1>11, <2>2 DEF OpenRequest
  <2>4. MergedStatus(fe.status, rc.status).phase = rc.status.phase
    BY MergedSays
  <2> QED BY <2>2, <2>3, <2>4 DEF FeMoves, PatchStatus
<1>12. v.digest # None => cms'[v.key].uid # 0 /\ cms'[v.key].digest = v.digest
  BY <1>4, <1>6 DEF OpenRequest
<1> QED BY <1>7, <1>8, <1>9, <1>10, <1>11, <1>12 DEF OpenRequest

LEMMA OpenStep ==
    ASSUME Orderly, TypeInv, OrderInv, RestInv,
           Lives => CopiesInv /\ ShapeInv /\ ObjectsInv /\ IdsInv /\ OpenInv,
           Lives', [Next]_vars
    PROVE  OpenInv'
<1> USE Parts
<1>1. /\ Lives /\ CopiesInv /\ ShapeInv /\ ObjectsInv /\ IdsInv /\ OpenInv
      /\ rc' = rc \/ (ReconcileMoves /\ cache' = cache /\ api' = api)
  BY LifeGoesOn
<1>2. ASSUME NEW v \in OpenRequests'
      PROVE  \/ v \in OpenRequests /\ v.id \in api.used
             \/ \E id \in PublishIds :
                   Accepted(id) /\ api'.op = "publish" /\ v = View(fe, api'.req) /\ v.id = id
                   /\ id \notin api.used
  BY <1>1, <1>2, OpenMoves, OpenTypes DEF Accepted
<1>3. \A v, w \in OpenRequests' : v.id = w.id => v = w
  BY <1>1, <1>2 DEF OpenInv
<1>4. ASSUME NEW id \in PublishIds, Accepted(id), api'.op = "publish",
             NEW v \in {View(fe, api'.req)}
      PROVE  OpenRequest(v)'
  <2>1. /\ UNCHANGED <<fe, cache, rc, rjobs, cms>> /\ Calm /\ id \notin api.used
        /\ api'.req.id = id /\ api'.req.digest = ReadyArtifact
    BY <1>4, OrderlyIs, IdsAssumption DEF Accepted
  <2>2. /\ v.gen = fe.gen /\ v.key = CurrentKey /\ v.id = id /\ v.digest = ReadyArtifact
    BY <2>1 DEF View, CurrentKey
  <2>3. InStep /\ rc.pc = "idle" /\ \A x \in Copies : x = fe
    BY <1>1, <2>1, CalmIsCurrent
  <2>4. ReadyArtifact # None =>
          /\ fe.status.phase = "Ready" /\ cms[CurrentKey].uid # 0
          /\ cms[CurrentKey].digest = ReadyArtifact
    BY <2>3 DEF InStep, Justified, ReadyArtifact, MatchingArtifact
  <2>5. rjobs[id].uid = 0
    BY <1>1, <2>1 DEF IdsInv, RequestIds
  <2>6. \A x \in Copies' : x = fe
    BY <2>1, <2>3 DEF Copies
  <2> QED BY <2>1, <2>2, <2>3, <2>4, <2>5, <2>6 DEF OpenRequest
<1>5. \A v \in OpenRequests' : OpenRequest(v)'
  BY <1>1, <1>2, <1>4, OpenStays
<1>6. ASSUME rc'.pc \in {"publish", "createPublish"}
      PROVE  /\ rc'.fe.pub.id # None /\ rc'.fe.pub.gen = rc'.fe.gen
             /\ cms'[ArtifactKey(rc'.fe)].uid # 0
             /\ rc'.digest = cms'[ArtifactKey(rc'.fe)].digest
  <2>1. \/ rc' = rc /\ rc.pc \in {"publish", "createPublish"}
        \/ AsksPublish
        \/ NeedsPublish
    BY <1>1, <1>6 DEF ReconcileMoves, Begins, LooksOn, GivesUp, Decides, AnswersPublish,
       NeedsUnpublish, AnswersUnpublish, Writes, Collects, Ends, NoReconcile
  <2>2. rc'.fe = rc.fe /\ rc.pc \in WorkSteps
    BY <2>1 DEF AsksPublish, LooksAt, NeedsPublish, Kept, WorkSteps
  <2>3. /\ rc.fe.pub.id # None /\ rc.fe.pub.gen = rc.fe.gen
        /\ cms[ArtifactKey(rc.fe)].uid # 0
        /\ rc'.digest = cms[ArtifactKey(rc.fe)].digest
    <3>1. CASE AsksPublish
      <4>1. rc.fe.pub.id # None /\ rc.fe.pub.gen \in {0, rc.fe.gen}
        BY <3>1 DEF AsksPublish, RequestStale
      <4>2. ValidCopy(rc.fe)
        BY <1>1, <2>2, WorkIsOnCopy DEF CopiesInv
      <4> QED BY <3>1, <4>1, <4>2 DEF AsksPublish, LooksAt, MatchingArtifact, ValidCopy
    <3>2. CASE ~AsksPublish
      BY <1>1, <2>1, <3>2 DEF NeedsPublish, Kept, OpenInv
    <3> QED BY <3>1, <3>2
  <2>4. rc.fe \in Copies
    BY <1>1, <2>2, WorkIsOnCopy
  <2>5. cms'[ArtifactKey(rc.fe)] = cms[ArtifactKey(rc.fe)]
    BY <1>1, <2>3, <2>4, IsOpen, OpenArtifactKept
  <2> QED BY <2>2, <2>3, <2>5
<1> QED BY <1>3, <1>5, <1>6 DEF OpenInv

-----------------------------------------------------------------------------
(* A publish request that waits for an artifact is Pending.                *)

PendingAtRest ==
    Undisturbed /\ PendingForCurrentSource(fe) =>
    /\ rc.pc \in {"get", "patch"} /\ rc.status.phase # "Ready" => rc.status.pub.phase = "Pending"
    /\ rc.pc \in {"idle", "reget", "labels", "after", "gc"} /\ fe.status.phase # "Ready" =>
          fe.status.pub.phase = "Pending"

LEMMA PendingStep ==
    ASSUME Orderly, TypeInv, RestInv, Lives => CopiesInv /\ ShapeInv /\ PendingAtRest,
           Lives', [Next]_vars
    PROVE  PendingAtRest'
<1> USE Parts
<1>1. Lives /\ CopiesInv /\ ShapeInv /\ PendingAtRest
  BY LifeGoesOn
<1> SUFFICES ASSUME Undisturbed', PendingForCurrentSource(fe')
             PROVE  /\ rc'.pc \in {"get", "patch"} /\ rc'.status.phase # "Ready" =>
                          rc'.status.pub.phase = "Pending"
                    /\ rc'.pc \in {"idle", "reget", "labels", "after", "gc"}
                          /\ fe'.status.phase # "Ready" => fe'.status.pub.phase = "Pending"
  BY DEF PendingAtRest
<1>2. CASE UNCHANGED vars
  BY <1>1, <1>2 DEF PendingAtRest, Undisturbed, vars
<1>3. CASE Undisturbed /\ SameWorld /\ UNCHANGED rc
  BY <1>1, <1>3 DEF PendingAtRest, SameWorld
<1>4. CASE Reconcile
  <2>1. /\ fe' = fe /\ cache' = cache /\ (ReconcileStart \/ Undisturbed)
        /\ ReconcileMoves
    BY <1>1, <1>4, ReconcileRests, Moves, WorksOnValidCopy
  <2>2. rc.pc # "idle" =>
          /\ OnTheWay(rc)
          /\ rc.pc \in {"get", "patch"} /\ rc.status.phase # "Ready" =>
                rc.status.pub.phase = "Pending"
          /\ rc.pc \in {"reget", "labels", "after", "gc"} /\ fe.status.phase # "Ready" =>
                fe.status.pub.phase = "Pending"
    BY <1>1, <2>1 DEF ReconcileStart, RestInv, PendingAtRest
  <2>3. cache = fe
    BY <2>1 DEF Undisturbed, RestInv, CacheCurrent
  <2>4. rc.pc \in LookingSteps => rc.fe = fe
    BY <2>2 DEF OnTheWay, Listed, LookingSteps
  <2>5. rc.pc = "get" => Observes(rc.status, fe)
    BY <2>2 DEF OnTheWay, Decided, Justified
  <2>6. CASE Begins \/ LooksOn \/ AsksPublish \/ NeedsPublish \/ NeedsUnpublish
    BY <2>6 DEF Begins, LooksOn, AsksPublish, NeedsPublish, NeedsUnpublish
  <2>7. CASE \E x \in {cache, rc.fe} : GivesUp(x)
    <3>1. PICK x \in {cache, rc.fe} : GivesUp(x)
      BY <2>7
    <3>2. x = fe
      BY <2>3, <2>4, <3>1 DEF GivesUp, LookingSteps
    <3>3. rc'.pc = "get" /\ rc'.status \in {PackagingStatus(fe), FailedStatus(fe)}
      BY <3>1, <3>2 DEF GivesUp, Decides
    <3>4. rc'.status.pub = PublishWithoutArtifact(fe)
      BY <3>3 DEF PackagingStatus, FailedStatus, StatusFor
    <3>5. rc'.status.pub.phase = "Pending"
      BY <2>1, <3>4 DEF PublishWithoutArtifact, NoPublish
    <3> QED BY <3>3, <3>5
  <2>8. CASE \E publish \in PublishStatus, digest \in Maybe(Digests) :
                AnswersPublish(publish, digest)
    BY <2>8 DEF AnswersPublish, Decides, ReadyStatus, StatusFor
  <2>9. CASE \E unpublish \in UnpublishStatus : AnswersUnpublish(unpublish)
    BY <2>9 DEF AnswersUnpublish, Decides, ReadyStatus, StatusFor
  <2>10. CASE Writes
    <3>1. rc'.status = rc.status /\ rc.pc # "idle"
      BY <2>10 DEF Writes, Kept
    <3>2. CASE rc'.pc = "patch"
      BY <2>1, <2>2, <2>10, <3>1, <3>2 DEF Writes
    <3>3. CASE rc'.pc # "patch" /\ rc.pc = "get"
      BY <2>1, <2>2, <2>5, <2>10, <3>1, <3>3 DEF Writes
    <3>4. CASE rc.pc = "patch"
      <4> DEFINE merged == MergedStatus(fe.status, rc.status)
                 new == [fe EXCEPT !.status = merged]
      <4>1. fe' = Stored(new) /\ rc'.pc = "reget"
        BY <1>1, <2>10, <3>4 DEF Writes, PatchStatus, Lives
      <4>2. merged \in Status
        BY StatusTypes, AbsentTypes DEF Maybe
      <4> HIDE DEF merged
      <4>3. new \in FE /\ new.status = merged
        BY <4>2 DEF FE
      <4> HIDE DEF new
      <4>4. fe = new
        BY <2>1, <4>1, <4>3, StoredSeenLater DEF Undisturbed
      <4>5. fe.status = MergedStatus(fe.status, rc.status)
        BY <4>3, <4>4 DEF merged
      <4>6. fe.status.phase = rc.status.phase /\ fe.status.pub.phase = rc.status.pub.phase
        BY <4>5, MergedSays
      <4> QED BY <2>1, <2>2, <3>4, <4>1, <4>6
    <3>5. CASE rc'.pc # "patch" /\ rc.pc \in {"reget", "labels"}
      BY <2>1, <2>2, <2>10, <3>5 DEF Writes
    <3> QED BY <2>10, <3>2, <3>3, <3>4, <3>5 DEF Writes
  <2>11. CASE Collects
    BY <2>1, <2>2, <2>11 DEF Collects
  <2>12. CASE Ends
    <3>1. rc'.pc = "idle" /\ queue' # "event" /\ fe'.uid # 0
      BY <2>12 DEF Ends, NoReconcile, Undisturbed
    <3>2. rc.pc \in {"get", "reget", "labels", "after", "gc"}
          /\ (rc.pc = "get" => fe.status = rc.status)
      BY <2>5, <2>12, <3>1 DEF Ends
    <3> QED BY <2>1, <2>2, <3>1, <3>2
  <2> QED BY <2>1, <2>6, <2>7, <2>8, <2>9, <2>10, <2>11, <2>12 DEF ReconcileMoves
<1> QED BY <1>2, <1>3, <1>4, OthersRest

-----------------------------------------------------------------------------
(* What a status says of the request Jobs is what they are.                *)

PubTrue(p) ==
    /\ p.phase = "Absent" => p.id = None
    /\ p.phase \in {"Running", "Succeeded", "Failed"} => p.id # None /\ rjobs[p.id].uid # 0
    /\ p.phase = "Succeeded" =>
          /\ rjobs[p.id].phase = "Succeeded" /\ p.fin = rjobs[p.id].fin /\ p.fin # 0
          /\ p.digest = rjobs[p.id].digest /\ p.digest # None
    /\ p.active => p.phase = "Succeeded"

UnpubTrue(u) ==
    /\ u.phase = "Absent" => u.id = None
    /\ u.phase # "Absent" => u.id # None /\ rjobs[u.id].uid # 0
    /\ u.phase = "Succeeded" =>
          rjobs[u.id].phase = "Succeeded" /\ u.fin = rjobs[u.id].fin /\ u.fin # 0

\* A publish is active until an unpublish succeeds that is no older, and a
\* status with an artifact waits for none.
StatusTrue(s) ==
    /\ PubTrue(s.pub) /\ UnpubTrue(s.unpub)
    /\ s.pub.active /\ s.unpub.phase = "Succeeded" => s.unpub.fin < s.pub.fin
    /\ s.art # None => s.pub.phase # "Pending"

StatusesInv ==
    /\ \A x \in Copies : StatusTrue(x.status)
    /\ StatusTrue(rc.status)
    /\ PubTrue(rc.pub) /\ rc.pub.phase # "Pending"

-----------------------------------------------------------------------------
(* One request at a time is being answered, and it is the last.            *)

Wanted(id) ==
    \/ \E v \in OpenRequests : v.id = id
    \/ \E x \in Copies : x.unpub = id
    \/ api.op \in {"unpublish", "unpublishAndDelete"} /\ api.id = id

\* The Job of the request runs, or may still be made.
Active(id) ==
    \/ rjobs[id].phase = "Running"
    \/ rjobs[id].uid = 0 /\ Wanted(id)

ActiveInv ==
    /\ \A i, j \in RequestIds : Active(i) /\ Active(j) => i = j
    /\ \A i \in RequestIds :
          Active(i) => IF api.op \in RequestOps THEN i = api.id ELSE i \in {fe.pub.id, fe.unpub}

LEMMA ActiveMoves ==
    ASSUME Orderly, TypeInv, Lives => CopiesInv /\ ShapeInv /\ ObjectsInv /\ IdsInv /\ OpenInv,
           Lives', [Next]_vars, NEW id \in RequestIds, Active(id)'
    PROVE  Active(id) \/ Accepted(id)
<1> USE Parts
<1>1. /\ Lives /\ CopiesInv /\ ShapeInv /\ ObjectsInv /\ IdsInv /\ OpenInv
      /\ (FeMoves \/ FeEdited) /\ fe \in Copies
  BY LifeGoesOn DEF Copies, Lives
<1>2. ASSUME JobMade(id) PROVE Active(id)
  <2>1. rc.pc \in WorkSteps /\ id # None
    BY <1>2, IdsAssumption DEF JobMade, WorkSteps, RequestIds
  <2>2. rc.fe \in Copies
    BY <1>1, <2>1, WorkIsOnCopy
  <2>3. CASE rc.pc = "createPublish" /\ id = rc.fe.pub.id
    BY <1>1, <1>2, <2>1, <2>2, <2>3, IsOpen DEF JobMade, OpenInv, Active, Wanted
  <2>4. CASE rc.pc = "createUnpublish" /\ id = rc.fe.unpub
    BY <1>2, <2>2, <2>4 DEF JobMade, Active, Wanted
  <2> QED BY <1>2, <2>3, <2>4 DEF JobMade
<1>3. \/ JobMade(id)
      \/ /\ rjobs'[id].phase = "Running" => rjobs[id].phase = "Running"
         /\ rjobs'[id].uid = rjobs[id].uid
  <2>1. \/ UNCHANGED rjobs
        \/ \E other \in RequestIds : JobMade(other) \/ JobWorks(other) \/ JobEnds(other)
    BY <1>1, RequestJobSteps, LivesOwns, OrderlyIs DEF JobExpires
  <2>2. CASE \E other \in RequestIds : JobMade(other) \/ JobWorks(other) \/ JobEnds(other)
    <3>1. PICK other \in RequestIds : JobMade(other) \/ JobWorks(other) \/ JobEnds(other)
      BY <2>2
    <3>2. CASE other = id
      BY <3>1, <3>2 DEF JobWorks, JobEnds, SetJob
    <3>3. CASE other # id
      BY <3>1, <3>3 DEF JobMade, JobWorks, JobEnds, SetJob
    <3> QED BY <3>2, <3>3
  <2> QED BY <2>1, <2>2
<1>4. CASE rjobs'[id].phase = "Running"
  BY <1>2, <1>3, <1>4 DEF Active
<1>5. ASSUME Wanted(id)' PROVE Wanted(id) \/ Accepted(id)
  <2>1. \/ RequestWritten
        \/ /\ fe'.pub = fe.pub /\ fe'.unpub = fe.unpub
           /\ \/ UNCHANGED api
              \/ \E other \in RequestIds : Accepted(other)
              \/ /\ api.op \notin RequestOps /\ api'.op \notin RequestOps
                 /\ api'.used = api.used
    BY <1>1, RequestsKept DEF Lives
  <2>2. CASE \E v \in OpenRequests' : v.id = id
    BY <1>1, <2>2, OpenMoves DEF Wanted
  <2>3. CASE \E x \in Copies' : x.unpub = id
    BY <1>1, <2>3, CopiesAsk DEF Wanted, RequestWritten
  <2>4. CASE api'.op \in {"unpublish", "unpublishAndDelete"} /\ api'.id = id
    BY <2>1, <2>4 DEF Wanted, RequestWritten, RequestOps, Accepted
  <2> QED BY <1>5, <2>2, <2>3, <2>4 DEF Wanted
<1>6. CASE rjobs'[id].uid = 0 /\ Wanted(id)'
  BY <1>2, <1>3, <1>5, <1>6 DEF Active
<1> QED BY <1>4, <1>6 DEF Active

\* A request is accepted when there is no other at work.
LEMMA CalmNobody ==
    ASSUME TypeInv, RestInv, Lives, CopiesInv, ShapeInv, ObjectsInv, OpenInv, PendingAtRest,
           StatusesInv, Calm, api.op = "none", NEW id \in RequestIds
    PROVE  ~Active(id)
<1> USE Parts
<1>1. /\ Undisturbed /\ InStep /\ \A x \in Copies : x = fe
      /\ rc.pc = "idle" /\ rjobs[id].phase # "Running" /\ id # None /\ fe \in Copies
  BY CalmIsCurrent, IdsAssumption DEF RequestIds, Copies, Lives
<1>2. StatusTrue(fe.status) /\ Justified(fe.status)
  BY <1>1 DEF StatusesInv, InStep
<1>3. ASSUME fe.unpub = id PROVE rjobs[id].uid # 0
  <2>1. fe.status.unpub.id = id
    BY <1>1, <1>2, <1>3 DEF Justified, UnpublishAnswers, Calm
  <2> QED BY <1>1, <1>2, <2>1 DEF StatusTrue, UnpubTrue
<1>4. ASSUME NEW v \in OpenRequests, v.id = id PROVE rjobs[id].uid # 0
  <2>1. v = View(fe, fe.pub) /\ fe.pub.id = id /\ fe.pub.gen = fe.gen
    BY <1>1, <1>4 DEF OpenRequests, View
  <2>2. fe.pub.src = fe.src
    BY <1>1, <2>1 DEF CopiesInv, ValidCopy
  <2>3. v.key = CurrentKey /\ v.digest = fe.pub.digest /\ v.gen = fe.gen /\ OpenRequest(v)
    BY <2>1 DEF View, CurrentKey, OpenInv
  <2>4. CASE fe.status.phase = "Ready"
    <3>1. fe.status.art = cms[CurrentKey].digest /\ MatchingArtifact(CurrentKey)
          /\ PublishAnswers(fe.status.pub, fe.status.art)
      BY <1>2, <2>4 DEF Justified
    <3>2. fe.status.pub.id = id
      BY <1>1, <2>1, <2>2, <2>3, <3>1 DEF PublishAnswers, RequestStale, OpenRequest
    <3>3. CurrentKey \in Keys
      BY <1>1 DEF CopiesInv, ValidCopy, CurrentKey
    <3>4. fe.status.art # None
      BY <3>1, <3>3, NoneAssumption DEF ObjectsInv, ArtifactTrue, MatchingArtifact
    <3>5. fe.status.pub.phase \in {"Absent", "Running", "Succeeded", "Failed", "Pending"}
      BY DEF Status, PublishStatus, JobPhases
    <3> QED BY <1>1, <1>2, <3>2, <3>4, <3>5 DEF StatusTrue, PubTrue
  <2>5. CASE fe.status.phase # "Ready"
    <3>1. fe.pub.digest = None
      BY <2>3, <2>5 DEF OpenRequest
    <3>2. PendingForCurrentSource(fe)
      BY <1>1, <2>1, <2>2, <3>1 DEF PendingForCurrentSource
    <3> QED BY <1>1, <2>5, <3>2 DEF PendingAtRest, Calm
  <2> QED BY <2>4, <2>5
<1> QED BY <1>1, <1>3, <1>4 DEF Active, Wanted

LEMMA ActiveStep ==
    ASSUME Orderly, TypeInv, RestInv,
           Lives => /\ CopiesInv /\ ShapeInv /\ ObjectsInv /\ IdsInv /\ OpenInv
                    /\ PendingAtRest /\ StatusesInv /\ ActiveInv,
           Lives', [Next]_vars
    PROVE  ActiveInv'
<1>1. /\ Lives /\ CopiesInv /\ ShapeInv /\ ObjectsInv /\ OpenInv
      /\ PendingAtRest /\ StatusesInv /\ ActiveInv /\ (FeMoves \/ FeEdited)
  BY LifeGoesOn
<1>2. \A i \in RequestIds : Active(i)' => Active(i) \/ Accepted(i)
  BY <1>1, ActiveMoves
<1>3. ASSUME NEW id \in RequestIds, Accepted(id)
      PROVE  \A i \in RequestIds : Active(i)' => i = id
  <2>1. Calm /\ api.op = "none"
    BY <1>3, OrderlyIs DEF Accepted
  <2> QED BY <1>1, <1>2, <1>3, <2>1, CalmNobody DEF Accepted
<1>4. ASSUME NEW i \in RequestIds, Active(i)'
      PROVE  IF api'.op \in RequestOps THEN i = api'.id ELSE i \in {fe'.pub.id, fe'.unpub}
  <2>1. CASE \E id \in RequestIds : Accepted(id)
    BY <1>3, <1>4, <2>1 DEF Accepted, RequestOps
  <2>2. CASE ~(\E id \in RequestIds : Accepted(id))
    <3>1. Active(i)
      BY <1>2, <1>4, <2>2
    <3>2. \/ RequestWritten
          \/ /\ fe'.pub = fe.pub /\ fe'.unpub = fe.unpub
             /\ UNCHANGED api \/ (api.op \notin RequestOps /\ api'.op \notin RequestOps)
      BY <1>1, <2>2, RequestsKept DEF Lives
    <3>3. api.op = "publish" => api.req.id = api.id
      BY <1>1 DEF CopiesInv
    <3> QED BY <1>1, <3>1, <3>2, <3>3 DEF ActiveInv, RequestWritten, RequestOps
  <2> QED BY <2>1, <2>2
<1>5. \A i, j \in RequestIds : Active(i)' /\ Active(j)' => i = j
  BY <1>1, <1>2, <1>3 DEF ActiveInv
<1> QED BY <1>4, <1>5 DEF ActiveInv

-----------------------------------------------------------------------------
(* A request Job that has succeeded stays as it is, and so does what is    *)
(* said of it.                                                             *)

LEMMA RequestJobsStay ==
    ASSUME Orderly, TypeInv, Lives, CopiesInv, ShapeInv, ObjectsInv, [Next]_vars,
           NEW id \in RequestIds
    PROVE  /\ rjobs[id].uid # 0 => rjobs'[id].uid # 0 /\ rjobs'[id].digest = rjobs[id].digest
           /\ rjobs[id].phase = "Succeeded" => rjobs'[id] = rjobs[id]
<1> USE Parts
<1>1. \/ UNCHANGED rjobs
      \/ \E other \in RequestIds : JobMade(other) \/ JobWorks(other) \/ JobEnds(other)
  BY RequestJobSteps, LivesOwns, OrderlyIs DEF JobExpires
<1>2. rjobs[id].uid = 0 <=> rjobs[id].phase = "Absent"
  BY DEF ObjectsInv
<1>3. ASSUME NEW other \in RequestIds, JobMade(other) \/ JobWorks(other) \/ JobEnds(other)
      PROVE  /\ rjobs[id].uid # 0 =>
                    rjobs'[id].uid # 0 /\ rjobs'[id].digest = rjobs[id].digest
             /\ rjobs[id].phase = "Succeeded" => rjobs'[id] = rjobs[id]
  <2>1. CASE other = id
    BY <1>2, <1>3, <2>1 DEF JobMade, JobWorks, JobEnds, SetJob
  <2>2. CASE other # id
    BY <1>3, <2>2 DEF JobMade, JobWorks, JobEnds, SetJob
  <2> QED BY <2>1, <2>2
<1> QED BY <1>1, <1>3

TimesInv ==
    \A id \in RequestIds :
        rjobs[id].phase = "Succeeded" => 1 <= rjobs[id].fin /\ rjobs[id].fin <= clock

LEMMA ClockGoesOn ==
    ASSUME Orderly, TypeInv, Lives, CopiesInv, ObjectsInv, [Next]_vars
    PROVE  clock \in Nat /\ clock' \in Nat /\ clock <= clock'
<1>1. clock \in Nat
  BY DEF TypeInv, TypeOK
<1>2. \/ clock' = clock \/ clock' = IF clock < MaxTime THEN clock + 1 ELSE clock
  BY RequestJobSteps, LivesOwns, OrderlyIs DEF JobMade, JobWorks, JobEnds, JobExpires
<1> QED BY <1>1, <1>2

LEMMA TimesStep ==
    ASSUME Orderly, TypeInv, Lives => CopiesInv /\ ShapeInv /\ ObjectsInv /\ TimesInv,
           Lives', [Next]_vars
    PROVE  TimesInv'
<1> USE Parts
<1>1. Lives /\ CopiesInv /\ ShapeInv /\ ObjectsInv /\ TimesInv
  BY LifeGoesOn
<1>2. clock \in Nat /\ clock' \in Nat /\ clock <= clock'
  BY <1>1, ClockGoesOn
<1> SUFFICES ASSUME NEW id \in RequestIds, rjobs'[id].phase = "Succeeded"
             PROVE  1 <= rjobs'[id].fin /\ rjobs'[id].fin <= clock'
  BY DEF TimesInv
<1>3. rjobs[id].fin \in Nat
  BY DEF RequestJob
<1>4. CASE rjobs[id].phase = "Succeeded"
  BY <1>1, <1>2, <1>3, <1>4, RequestJobsStay DEF TimesInv
<1>5. CASE rjobs[id].phase # "Succeeded"
  <2>1. PICK other \in RequestIds : JobMade(other) \/ JobWorks(other) \/ JobEnds(other)
    BY <1>1, <1>5, RequestJobSteps, LivesOwns, OrderlyIs DEF JobExpires
  <2>2. other = id
    BY <1>5, <2>1 DEF JobMade, JobWorks, JobEnds, SetJob
  <2>3. /\ JobEnds(id) /\ rjobs'[id].fin = clock'
        /\ clock' = IF clock < MaxTime THEN clock + 1 ELSE clock
    BY <2>1, <2>2 DEF JobMade, JobWorks, JobEnds, SetJob
  <2> QED BY <1>2, <2>3, BoundsAssumption
<1> QED BY <1>4, <1>5

LEMMA SectionsStay ==
    ASSUME Orderly, TypeInv, Lives, CopiesInv, ShapeInv, ObjectsInv, [Next]_vars,
           NEW p \in PublishStatus, NEW u \in UnpublishStatus
    PROVE  (PubTrue(p) => PubTrue(p)') /\ (UnpubTrue(u) => UnpubTrue(u)')
<1>1. /\ p.id # None => p.id \in RequestIds
      /\ u.id # None => u.id \in RequestIds
  BY DEF PublishStatus, UnpublishStatus, Maybe, RequestIds
<1>2. \A id \in RequestIds :
        /\ rjobs[id].uid # 0 => rjobs'[id].uid # 0 /\ rjobs'[id].digest = rjobs[id].digest
        /\ rjobs[id].phase = "Succeeded" => rjobs'[id] = rjobs[id]
  BY RequestJobsStay
<1>3. PubTrue(p) => PubTrue(p)'
  BY <1>1, <1>2 DEF PubTrue
<1>4. UnpubTrue(u) => UnpubTrue(u)'
  BY <1>1, <1>2 DEF UnpubTrue
<1> QED BY <1>3, <1>4

\* The merge patch takes nothing from an old status that the new one says.
LEMMA MergedTrue ==
    ASSUME NEW old \in Status, NEW new \in Status, StatusTrue(new)
    PROVE  StatusTrue(MergedStatus(old, new))
<1> DEFINE p == MergedPublish(old.pub, new.pub)
           u == MergedUnpublish(old.unpub, new.unpub)
<1>1. new.pub \in PublishStatus /\ new.unpub \in UnpublishStatus
  BY DEF Status
<1>2. /\ p.phase = new.pub.phase /\ p.active = new.pub.active
      /\ new.pub.phase = "Absent" \/ new.pub.id # None => p.id = new.pub.id
      /\ new.pub.digest # None => p.digest = new.pub.digest
      /\ new.pub.fin # 0 => p.fin = new.pub.fin
  BY <1>1 DEF MergedPublish, Or, PublishStatus
<1>3. /\ u.phase = new.unpub.phase
      /\ new.unpub.phase = "Absent" \/ new.unpub.id # None => u.id = new.unpub.id
      /\ new.unpub.fin # 0 => u.fin = new.unpub.fin
  BY <1>1 DEF MergedUnpublish, Or, UnpublishStatus
<1> HIDE DEF p, u
<1>4. MergedStatus(old, new) = [new EXCEPT !.pub = p, !.unpub = u]
  BY DEF MergedStatus, p, u, Status
<1>5. [new EXCEPT !.pub = p, !.unpub = u].pub = p
      /\ [new EXCEPT !.pub = p, !.unpub = u].unpub = u
      /\ [new EXCEPT !.pub = p, !.unpub = u].art = new.art
  BY DEF Status
<1>6. PubTrue(p)
  BY <1>1, <1>2 DEF StatusTrue, PubTrue, PublishStatus
<1>7. UnpubTrue(u)
  BY <1>1, <1>3 DEF StatusTrue, UnpubTrue, UnpublishStatus
<1>8. p.active /\ u.phase = "Succeeded" => u.fin < p.fin
  BY <1>2, <1>3 DEF StatusTrue, PubTrue, UnpubTrue
<1> QED BY <1>2, <1>4, <1>5, <1>6, <1>7, <1>8 DEF StatusTrue

LEMMA ReadySays ==
    ASSUME NEW x \in FE, NEW digest, NEW publish \in PublishStatus,
           NEW unpublish \in UnpublishStatus,
           NEW s \in {ReadyStatus(x, digest, publish, unpublish)}
    PROVE  /\ s.pub.phase = publish.phase /\ s.pub.id = publish.id
           /\ s.pub.digest = publish.digest /\ s.pub.fin = publish.fin
           /\ s.pub.active => publish.active
           /\ s.unpub = unpublish /\ s.art = digest
           /\ s.pub.active /\ unpublish.phase = "Succeeded" /\ publish.fin # 0
                 /\ unpublish.fin # 0 => unpublish.fin < publish.fin
<1> DEFINE p == ApplyUnpublish(publish, unpublish)
           q == [publish EXCEPT !.active = FALSE]
<1>1. /\ q.phase = publish.phase /\ q.id = publish.id /\ q.fin = publish.fin
      /\ q.digest = publish.digest /\ ~q.active
  BY DEF PublishStatus
<1>2. publish.fin \in Nat /\ unpublish.fin \in Nat
  BY DEF PublishStatus, UnpublishStatus
<1>3. s.pub = p /\ s.unpub = unpublish /\ s.art = digest
  BY DEF ReadyStatus, StatusFor
<1>4. \/ p = q
      \/ /\ p = publish
         /\ unpublish.phase = "Succeeded" /\ publish.fin # 0 /\ unpublish.fin # 0 =>
               ~(unpublish.fin >= publish.fin)
  BY DEF ApplyUnpublish
<1> HIDE DEF p, q
<1> QED BY <1>1, <1>2, <1>3, <1>4

LEMMA NothingTrue ==
    /\ PubTrue(NoPublish) /\ UnpubTrue(NoUnpublish) /\ StatusTrue(NoStatus)
    /\ NoPublish.phase = "Absent" /\ NoPublish.id = None /\ ~NoPublish.active
BY DEF PubTrue, UnpubTrue, StatusTrue, NoPublish, NoUnpublish, NoStatus

\* What a reconcile keeps of a status that is true.
LEMMA RetainedTrue ==
    ASSUME NEW x \in FE, StatusTrue(x.status)
    PROVE  /\ PubTrue(RetainedPublish(x)) /\ RetainedPublish(x).phase # "Pending"
           /\ StatusTrue(PackagingStatus(x)) /\ StatusTrue(FailedStatus(x))
<1>1. /\ RetainedPublish(x) \in {x.status.pub, NoPublish}
      /\ RetainedPublish(x) = x.status.pub =>
            x.status.pub.phase # "Pending" \/ RetainedPublish(x) = NoPublish
  BY DEF RetainedPublish, StatusArtifactKeys, StatusTrue
<1>2. PubTrue(RetainedPublish(x)) /\ RetainedPublish(x).phase # "Pending"
  BY <1>1, NothingTrue DEF StatusTrue
<1>3. LET p == PublishWithoutArtifact(x)
      IN  PubTrue(p) /\ (p.active => p = x.status.pub)
  <2>1. LET p == [NoPublish EXCEPT !.phase = "Pending", !.id = x.pub.id]
        IN  p.phase = "Pending" /\ ~p.active
    BY DEF NoPublish
  <2> QED BY <1>1, <1>2, <2>1, NothingTrue DEF PublishWithoutArtifact, PubTrue
<1>4. \A phase \in {"Packaging", "Failed"} :
        StatusTrue(StatusFor(x, phase, None, PublishWithoutArtifact(x), x.status.unpub))
  BY <1>3 DEF StatusFor, StatusTrue
<1> QED BY <1>2, <1>4 DEF PackagingStatus, FailedStatus

LEMMA StatusStays ==
    ASSUME Orderly, TypeInv, Lives, CopiesInv, ShapeInv, ObjectsInv, [Next]_vars,
           NEW s \in Status, StatusTrue(s)
    PROVE  StatusTrue(s)'
<1>1. s.pub \in PublishStatus /\ s.unpub \in UnpublishStatus
  BY DEF Status
<1> QED BY <1>1, SectionsStay DEF StatusTrue

\* What a reconcile answers a publish request is so.
LEMMA PublishAnswerTrue ==
    ASSUME Orderly, TypeInv, TypeInv', OrderInv, Lives, CopiesInv, ShapeInv, ObjectsInv,
           IdsInv, OpenInv,
           StatusesInv, ObjectsInv', OpenInv', TimesInv', [Next]_vars,
           NEW publish \in PublishStatus, NEW digest \in Maybe(Digests),
           AnswersPublish(publish, digest)
    PROVE  PubTrue(publish)' /\ publish.phase # "Pending"
<1> USE Parts
<1>1. /\ rc.pc \in WorkSteps /\ rc'.fe = rc.fe
      /\ rc.pc \in {"publish", "createPublish"} =>
            rc.fe.pub.id \in RequestIds /\ rc.fe.pub.id # None
  BY IdsAssumption DEF AnswersPublish, PublishAnswer, LooksAt, WorkSteps, TypeInv, Prepared,
     RequestIds
<1>2. rc.fe \in Copies /\ rc.fe \in Copies' /\ ArtifactKey(rc.fe) \in Keys
  BY <1>1, WorkIsOnCopy DEF Copies
<1>3. StatusTrue(rc.fe.status)
  BY <1>2 DEF StatusesInv
<1>4. CASE PubTrue(publish) /\ publish.phase # "Pending"
  <2>1. NoUnpublish \in UnpublishStatus
    BY AbsentTypes
  <2> QED BY <1>4, <2>1, SectionsStay
<1>5. CASE /\ rc.pc \in {"publish", "createPublish"} /\ digest = rc.digest
           /\ rjobs'[rc.fe.pub.id].uid # 0
           /\ publish = PublishFromJob(rc.fe.pub.id, digest, rjobs'[rc.fe.pub.id])
  <2> DEFINE id == rc.fe.pub.id
             job == rjobs'[id]
             key == ArtifactKey(rc.fe)
  <2>1. /\ publish.phase = job.phase /\ publish.active = (job.phase = "Succeeded")
        /\ publish.id = id /\ publish.digest = digest /\ publish.fin = job.fin
    BY <1>5 DEF PublishFromJob
  <2>2. /\ rc.fe.pub.gen = rc.fe.gen /\ cms[key].uid # 0 /\ digest = cms[key].digest
    BY <1>5 DEF OpenInv
  <2>3. cms'[key] = cms[key]
    BY <1>1, <1>2, <1>5, <2>2, IsOpen, OpenArtifactKept
  <2>4. /\ View(rc.fe, rc.fe.pub) \in OpenRequests'
        /\ View(rc.fe, rc.fe.pub).key = key /\ View(rc.fe, rc.fe.pub).id = id
    BY <1>1, <1>2, <1>5, <2>2 DEF OpenRequests, View
  <2>5. job.digest = digest
    BY <1>5, <2>2, <2>3, <2>4 DEF OpenInv, OpenRequest
  <2>6. digest # None
    BY <1>2, <2>2, NoneAssumption DEF ObjectsInv, ArtifactTrue
  <2>7. job.phase # "Absent" /\ (job.phase = "Succeeded" => job.fin # 0)
    BY <1>1, <1>5 DEF ObjectsInv, TimesInv
  <2>8. publish.phase # "Pending"
    <3>1. rjobs' \in [RequestIds -> RequestJob]
      BY DEF TypeInv, TypeOK
    <3>2. job \in RequestJob
      BY <1>1, <1>5, <3>1
    <3> QED BY <2>1, <3>2 DEF RequestJob, JobPhases
  <2> QED BY <1>1, <1>5, <2>1, <2>5, <2>6, <2>7, <2>8 DEF PubTrue
<1>6. CASE rc.pc = "publish" /\ PublishAlreadyFinished(rc.fe, digest)
           /\ publish = rc.fe.status.pub
  <2>1. publish.phase \in Terminal
    BY <1>6 DEF PublishAlreadyFinished
  <2> QED BY <1>3, <1>4, <1>6, <2>1 DEF StatusTrue, Terminal
<1>7. CASE publish = RetainedPublish(rc.fe)
  BY <1>3, <1>4, <1>7, RetainedTrue
<1> QED BY <1>5, <1>6, <1>7 DEF AnswersPublish, PublishAnswer

LEMMA UnpublishAnswerTrue ==
    ASSUME Orderly, TypeInv, Lives, CopiesInv, ShapeInv, ObjectsInv,
           StatusesInv, ObjectsInv', TimesInv', [Next]_vars,
           NEW unpublish \in UnpublishStatus, UnpublishAnswer(unpublish)
    PROVE  UnpubTrue(unpublish)'
<1> USE Parts
<1>1. /\ rc.pc \in WorkSteps
      /\ rc.fe.unpub \in RequestIds /\ rc.fe.unpub # None
  BY IdsAssumption DEF UnpublishAnswer, WorkSteps, TypeInv, Prepared, RequestIds
<1>2. rc.fe \in Copies
  BY <1>1, WorkIsOnCopy
<1>3. StatusTrue(rc.fe.status)
  BY <1>2 DEF StatusesInv
<1>4. CASE unpublish = rc.fe.status.unpub
  <2>1. NoPublish \in PublishStatus
    BY AbsentTypes
  <2> QED BY <1>3, <1>4, <2>1, SectionsStay DEF StatusTrue
<1>5. CASE /\ rjobs'[rc.fe.unpub].uid # 0
           /\ unpublish = UnpublishFromJob(rc.fe.unpub, rjobs'[rc.fe.unpub])
  <2>1. /\ unpublish.phase = rjobs'[rc.fe.unpub].phase /\ unpublish.id = rc.fe.unpub
        /\ unpublish.fin = rjobs'[rc.fe.unpub].fin
    BY <1>5 DEF UnpublishFromJob
  <2>2. /\ rjobs'[rc.fe.unpub].phase # "Absent"
        /\ rjobs'[rc.fe.unpub].phase = "Succeeded" => rjobs'[rc.fe.unpub].fin # 0
    BY <1>1, <1>5 DEF ObjectsInv, TimesInv
  <2> QED BY <1>1, <1>5, <2>1, <2>2 DEF UnpubTrue
<1> QED BY <1>4, <1>5 DEF UnpublishAnswer

LEMMA StatusesStep ==
    ASSUME Orderly, TypeInv, TypeInv', OrderInv,
           Lives => /\ CopiesInv /\ ShapeInv /\ ObjectsInv /\ IdsInv /\ OpenInv
                    /\ TimesInv /\ StatusesInv,
           ObjectsInv', OpenInv', TimesInv', Lives', [Next]_vars
    PROVE  StatusesInv'
<1> USE Parts
<1> DEFINE Statuses == {s \in Status : StatusTrue(s)'}
           Publishes == {p \in PublishStatus : PubTrue(p)' /\ p.phase # "Pending"}
           Unpublishes == {u \in UnpublishStatus : UnpubTrue(u)'}
<1>1. /\ Lives /\ CopiesInv /\ ShapeInv /\ ObjectsInv /\ IdsInv /\ OpenInv /\ StatusesInv
      /\ (FeMoves \/ FeEdited)
      /\ rc' = rc \/ (ReconcileMoves /\ cache' = cache /\ api' = api)
      /\ rc'.fe \in {rc.fe, cache, AbsentFE}
      /\ cache' = cache \/ (SaysAs(cache', fe) /\ SaysAs(fe', fe) /\ rc' = rc)
  BY LifeGoesOn
<1>2. /\ \A x \in Copies : x \in FE /\ x.status \in Status /\ StatusTrue(x.status)
      /\ \A x \in FE : x.status \in Status /\ x.status.unpub \in UnpublishStatus
      /\ fe \in Copies /\ StatusTrue(rc.status) /\ PubTrue(rc.pub) /\ rc.pub.phase # "Pending"
  BY <1>1 DEF Copies, FE, Status, Lives, StatusesInv
<1>3. \A s \in Status : StatusTrue(s) => s \in Statuses
  BY <1>1, StatusStays
<1>4. /\ \A p \in PublishStatus : PubTrue(p) /\ p.phase # "Pending" => p \in Publishes
      /\ \A u \in UnpublishStatus : UnpubTrue(u) => u \in Unpublishes
  BY <1>1, SectionsStay, AbsentTypes
<1>5. \A x \in FE, digest \in Maybe(Digests), publish \in Publishes, unpublish \in Unpublishes :
        ReadyStatus(x, digest, publish, unpublish) \in Statuses
  <2> SUFFICES ASSUME NEW x \in FE, NEW digest \in Maybe(Digests), NEW publish \in Publishes,
                      NEW unpublish \in Unpublishes,
                      NEW s \in {ReadyStatus(x, digest, publish, unpublish)}
               PROVE  s \in Statuses
    OBVIOUS
  <2>1. publish \in PublishStatus /\ unpublish \in UnpublishStatus
    OBVIOUS
  <2>2. s \in Status
    <3>1. ReadyStatus(x, digest, publish, unpublish) \in Status
      BY <2>1, StatusTypes, AbsentTypes
    <3> QED BY <3>1
  <2>3. StatusTrue(s)'
    BY <2>1, ReadySays DEF StatusTrue, PubTrue, UnpubTrue
  <2> QED BY <2>2, <2>3
<1>6. NoPublish \in Publishes /\ NoStatus \in Statuses
  BY <1>3, <1>4, AbsentTypes, NothingTrue
<1>7. rc.pub \in Publishes /\ rc.status \in Statuses
  BY <1>2, <1>3, <1>4
<1>8. \A x \in Copies' : x.status \in Statuses
  <2>1. fe'.status \in {fe.status, MergedStatus(fe.status, rc.status)}
    BY <1>1 DEF FeMoves, FeEdited
  <2>2. MergedStatus(fe.status, rc.status) \in Status
    BY StatusTypes, AbsentTypes DEF Maybe
  <2>3. fe'.status \in Statuses
    BY <1>2, <1>3, <2>1, <2>2, MergedTrue
  <2>4. \A x \in Copies' : x = fe' \/ x \in Copies \/ x.status = fe.status
    BY <1>1 DEF Copies, SaysAs
  <2> QED BY <1>2, <1>3, <2>3, <2>4
<1>9. \A publish \in PublishStatus, digest \in Maybe(Digests) :
        AnswersPublish(publish, digest) => publish \in Publishes
  BY <1>1, PublishAnswerTrue
<1>10. \A unpublish \in UnpublishStatus : AnswersUnpublish(unpublish) => unpublish \in Unpublishes
  BY <1>1, UnpublishAnswerTrue DEF AnswersUnpublish
<1> HIDE DEF Statuses, Publishes, Unpublishes
<1>11. ASSUME ReconcileMoves PROVE rc'.pub \in Publishes /\ rc'.status \in Statuses
  <2>1. CASE Begins \/ Collects \/ Ends
    BY <1>6, <2>1 DEF Begins, Collects, Ends, NoReconcile
  <2>2. CASE LooksOn \/ AsksPublish \/ NeedsPublish \/ NeedsUnpublish \/ Writes
    BY <1>7, <2>2 DEF LooksOn, AsksPublish, NeedsPublish, NeedsUnpublish, Writes, Kept
  <2>3. CASE \E x \in {cache, rc.fe} : GivesUp(x)
    <3>1. PICK x \in {cache, rc.fe} : GivesUp(x)
      BY <2>3
    <3>2. /\ x \in FE /\ StatusTrue(x.status)
          /\ rc'.status \in {PackagingStatus(x), FailedStatus(x)} /\ rc'.pub = NoPublish
      BY <1>2, <3>1 DEF GivesUp, Decides, Copies
    <3>3. PackagingStatus(x) \in Status /\ FailedStatus(x) \in Status
      BY <3>2, StatusTypes, AbsentTypes DEF Maybe
    <3> QED BY <1>3, <1>6, <3>2, <3>3, RetainedTrue
  <2>4. CASE \E publish \in PublishStatus, digest \in Maybe(Digests) :
                AnswersPublish(publish, digest)
    <3>1. PICK publish \in PublishStatus, digest \in Maybe(Digests) :
             AnswersPublish(publish, digest)
      BY <2>4
    <3>2. publish \in Publishes
      BY <1>9, <3>1
    <3>3. CASE rc'.pub = publish /\ rc'.status = rc.status
      BY <1>7, <3>2, <3>3
    <3>4. CASE Decides(ReadyStatus(rc.fe, digest, publish, rc.fe.status.unpub))
      <4>1. rc.fe \in Copies
        BY <1>1, <3>1, WorkIsOnCopy DEF AnswersPublish, PublishAnswer, LooksAt, WorkSteps
      <4>2. rc.fe.status.unpub \in Unpublishes
        BY <1>2, <1>4, <4>1 DEF StatusTrue
      <4> QED BY <1>5, <1>6, <3>2, <3>4, <4>2 DEF Decides
    <3> QED BY <3>1, <3>3, <3>4 DEF AnswersPublish
  <2>5. CASE \E unpublish \in UnpublishStatus : AnswersUnpublish(unpublish)
    BY <1>5, <1>6, <1>7, <1>10, <2>5 DEF AnswersUnpublish, Decides
  <2> QED BY <1>11, <2>1, <2>2, <2>3, <2>4, <2>5 DEF ReconcileMoves
<1>12. rc'.pub \in Publishes /\ rc'.status \in Statuses
  BY <1>1, <1>7, <1>11
<1> QED BY <1>8, <1>12 DEF Statuses, Publishes, StatusesInv, StatusTrue, PubTrue, UnpubTrue

-----------------------------------------------------------------------------
(* What a publish Job installed stays until a later unpublish.             *)

\* When the last publish request is done with, the registry has its digest,
\* or an unpublish is under way or was the later of the two.
RegistryInv ==
    \A id \in PublishIds :
        /\ rjobs[id].phase = "Running" /\ rjobs[id].done => registry.digest = rjobs[id].digest
        /\ rjobs[id].phase = "Succeeded" /\ fe.pub.id = id =>
              \/ registry.digest = rjobs[id].digest
              \/ /\ fe.unpub # None
                 /\ rjobs[fe.unpub].phase = "Succeeded" => rjobs[fe.unpub].fin >= rjobs[id].fin

LEMMA RegistryStep ==
    ASSUME Orderly, TypeInv,
           Lives => /\ CopiesInv /\ ShapeInv /\ ObjectsInv /\ IdsInv /\ TimesInv
                    /\ ActiveInv /\ RegistryInv,
           Lives', [Next]_vars
    PROVE  RegistryInv'
<1> USE Parts
<1>1. /\ Lives /\ CopiesInv /\ ShapeInv /\ ObjectsInv /\ IdsInv /\ TimesInv /\ ActiveInv
      /\ RegistryInv /\ (FeMoves \/ FeEdited)
  BY LifeGoesOn
<1>2. clock \in Nat /\ clock' \in Nat /\ clock <= clock' /\ registry \in Registry
  BY <1>1, ClockGoesOn DEF TypeInv, TypeOK
<1>3. /\ \A i \in RequestIds : rjobs[i].fin \in Nat
      /\ \A i \in RequestIds : rjobs[i].uid = 0 <=> rjobs[i].phase = "Absent"
      /\ fe.unpub # None => fe.unpub \in RequestIds
  BY <1>1 DEF RequestJob, ObjectsInv, Maybe, RequestIds
<1> SUFFICES ASSUME NEW id \in PublishIds
             PROVE  /\ rjobs'[id].phase = "Running" /\ rjobs'[id].done =>
                          registry'.digest = rjobs'[id].digest
                    /\ rjobs'[id].phase = "Succeeded" /\ fe'.pub.id = id =>
                          \/ registry'.digest = rjobs'[id].digest
                          \/ /\ fe'.unpub # None
                             /\ rjobs'[fe'.unpub].phase = "Succeeded" =>
                                   rjobs'[fe'.unpub].fin >= rjobs'[id].fin
  BY DEF RegistryInv
<1>4. /\ id \in RequestIds
      /\ rjobs[id].phase = "Running" /\ rjobs[id].done => registry.digest = rjobs[id].digest
      /\ rjobs[id].phase = "Succeeded" /\ fe.pub.id = id =>
            \/ registry.digest = rjobs[id].digest
            \/ /\ fe.unpub # None
               /\ rjobs[fe.unpub].phase = "Succeeded" => rjobs[fe.unpub].fin >= rjobs[id].fin
  BY <1>1 DEF RegistryInv, RequestIds
<1>5. CASE UNCHANGED <<rjobs, registry, clock>>
  <2>1. RequestWritten \/ (fe'.pub = fe.pub /\ fe'.unpub = fe.unpub)
    BY <1>1, RequestsKept DEF Lives
  <2>2. api.op \in RequestOps =>
          /\ api.id \in RequestIds /\ rjobs[api.id].phase = "Absent" /\ api.id # None
          /\ api.op = "publish" => api.req.id = api.id
    <3>1. api.used \subseteq RequestIds
      BY DEF TypeInv, TypeOK, Call
    <3> QED BY <1>1, <1>3, <3>1, IdsAssumption DEF IdsInv, CopiesInv, RequestIds
  <2>3. CASE RequestWritten
    BY <1>4, <1>5, <2>2, <2>3 DEF RequestWritten, RequestOps
  <2> QED BY <1>4, <1>5, <2>1, <2>3
<1>6. CASE \E other \in RequestIds : JobMade(other) \/ JobWorks(other) \/ JobEnds(other)
  <2>1. PICK other \in RequestIds : JobMade(other) \/ JobWorks(other) \/ JobEnds(other)
    BY <1>6
  <2>2. CASE JobMade(other)
    BY <1>3, <1>4, <2>2 DEF JobMade, SetJob
  <2>3. CASE JobWorks(other)
    <3>1. /\ rjobs[other].phase = "Running" /\ ~rjobs[other].done /\ fe' = fe
          /\ registry'.digest = IF other \in PublishIds THEN rjobs[other].digest ELSE None
          /\ rjobs'[other].phase = "Running" /\ rjobs'[other].digest = rjobs[other].digest
          /\ \A i \in RequestIds \ {other} : rjobs'[i] = rjobs[i]
      BY <2>3 DEF JobWorks, SetJob
    <3>2. CASE id = other
      BY <3>1, <3>2
    <3>3. CASE id # other
      <4>1. rjobs[id].phase # "Running"
        BY <1>1, <1>4, <3>1, <3>3 DEF ActiveInv, Active
      <4>2. other \in {fe.pub.id, fe.unpub}
        BY <1>1, <1>3, <3>1 DEF ActiveInv, Active, IdsInv
      <4>3. fe.unpub = other => fe.unpub # None
        BY IdsAssumption DEF RequestIds
      <4> QED BY <1>4, <3>1, <3>3, <4>1, <4>2, <4>3
    <3> QED BY <3>2, <3>3
  <2>4. CASE JobEnds(other)
    <3>1. /\ rjobs[other].phase = "Running" /\ fe' = fe
          /\ registry'.digest = registry.digest
          /\ rjobs'[other].phase \in Terminal /\ rjobs'[other].digest = rjobs[other].digest
          /\ rjobs'[other].phase = "Succeeded" =>
                rjobs[other].done /\ rjobs'[other].fin = clock'
          /\ \A i \in RequestIds \ {other} : rjobs'[i] = rjobs[i]
      BY <1>2, <2>4 DEF JobEnds, SetJob, Registry, Terminal
    <3>2. CASE id = other
      BY <1>4, <3>1, <3>2 DEF Terminal
    <3>3. CASE id # other
      <4>1. rjobs'[id] = rjobs[id]
        BY <1>4, <3>1, <3>3
      <4>2. rjobs[id].phase = "Succeeded" => rjobs[id].fin <= clock'
        BY <1>1, <1>2, <1>3, <1>4 DEF TimesInv
      <4> QED BY <1>2, <1>3, <1>4, <3>1, <4>1, <4>2
    <3> QED BY <3>2, <3>3
  <2> QED BY <2>1, <2>2, <2>3, <2>4
<1> QED BY <1>1, <1>5, <1>6, RequestJobSteps, LivesOwns, OrderlyIs DEF JobExpires

-----------------------------------------------------------------------------
(* The whole of it.                                                        *)

PublishedInv ==
    Lives =>
    /\ CopiesInv /\ ShapeInv /\ ObjectsInv /\ IdsInv /\ OpenInv
    /\ PendingAtRest /\ TimesInv /\ StatusesInv /\ ActiveInv /\ RegistryInv

LEMMA PublishedInit ==
    ASSUME Init
    PROVE  PublishedInv
<1> USE DEF NoReconcile, NoPJob, NoRJob, NoConfigMap, NoCall, NothingInstalled
<1>1. PICK source \in Sources, token \in Tokens, target \in Targets :
         fe = NewFE(1, source, token, target)
  BY DEF Init
<1>2. /\ fe.uid = 1 /\ fe.gen = 1 /\ fe.src = source /\ fe.token = token /\ ~fe.deleting
      /\ fe.pub.id = None /\ fe.unpub = None /\ fe.status = NoStatus /\ fe.unseen
  BY <1>1 DEF NewFE, NoRequest
<1>3. cache = AbsentFE /\ rc.fe = AbsentFE /\ AbsentFE.uid = 0
  BY DEF Init, AbsentFE, NewFE
<1>4. Copies = {fe} /\ api.op = "none"
  BY <1>2, <1>3 DEF Copies, Init
<1>5. CopiesInv
  BY <1>2, <1>3, <1>4 DEF CopiesInv, ValidCopy, ArtifactKey, Keys, RequestOps
<1>6. ShapeInv
  BY DEF ShapeInv, Init, WorkSteps, LookingSteps
<1>7. ObjectsInv
  BY DEF ObjectsInv, PodTrue, ArtifactTrue, JobNames, Init
<1>8. IdsInv
  BY <1>2, <1>4 DEF IdsInv, Init, RequestOps, Maybe
<1>9. OpenRequests = {}
  BY <1>2, <1>4 DEF OpenRequests
<1>10. OpenInv
  BY <1>9 DEF OpenInv, Init
<1>11. PendingAtRest
  BY <1>2 DEF PendingAtRest, Undisturbed
<1>12. TimesInv
  BY DEF TimesInv, Init
<1>13. StatusesInv
  BY <1>2, <1>4, NothingTrue DEF StatusesInv, Init
<1>14. \A id \in RequestIds : ~Active(id)
  <2> SUFFICES ASSUME NEW id \in RequestIds PROVE ~Active(id)
    OBVIOUS
  <2>1. id # None
    BY IdsAssumption DEF RequestIds
  <2> QED BY <1>2, <1>4, <1>9, <2>1 DEF Active, Wanted, Init
<1>15. ActiveInv
  BY <1>14 DEF ActiveInv
<1>16. RegistryInv
  BY DEF RegistryInv, Init, RequestIds
<1> QED BY <1>5, <1>6, <1>7, <1>8, <1>10, <1>11, <1>12, <1>13, <1>15, <1>16 DEF PublishedInv

LEMMA PublishedStep ==
    ASSUME Orderly, TypeInv, TypeInv', OrderInv, RestInv, PublishedInv, [Next]_vars
    PROVE  PublishedInv'
<1> SUFFICES ASSUME Lives'
             PROVE  /\ CopiesInv' /\ ShapeInv' /\ ObjectsInv' /\ IdsInv' /\ OpenInv'
                    /\ PendingAtRest' /\ TimesInv' /\ StatusesInv' /\ ActiveInv' /\ RegistryInv'
  BY DEF PublishedInv
<1>1. Lives =>
        /\ CopiesInv /\ ShapeInv /\ ObjectsInv /\ IdsInv /\ OpenInv
        /\ PendingAtRest /\ TimesInv /\ StatusesInv /\ ActiveInv /\ RegistryInv
  BY DEF PublishedInv
<1>2. CopiesInv' /\ ShapeInv' /\ ObjectsInv' /\ IdsInv'
  BY <1>1, CopiesStep, ShapeStep, ObjectsStep, IdsStep
<1>3. OpenInv'
  BY <1>1, OpenStep
<1>4. PendingAtRest' /\ TimesInv'
  BY <1>1, PendingStep, TimesStep
<1>5. StatusesInv'
  BY <1>1, <1>2, <1>3, <1>4, StatusesStep
<1>6. ActiveInv' /\ RegistryInv'
  BY <1>1, ActiveStep, RegistryStep
<1> QED BY <1>2, <1>3, <1>4, <1>5, <1>6

LEMMA PublishedInvariant ==
    ASSUME Orderly
    PROVE  Spec => [](TypeInv /\ OrderInv /\ RestInv /\ PublishedInv)
<1>1. Init => PublishedInv
  BY PublishedInit
<1>2. TypeInv /\ TypeInv' /\ OrderInv /\ RestInv /\ PublishedInv /\ [Next]_vars => PublishedInv'
  BY PublishedStep
<1> QED BY TypeInvariance, OrderInvariance, RestInvariant, <1>1, <1>2, PTL DEF Spec

\* The active publish status of a Ready FE tells the truth: the digest that the
\* status names for its last publish request is what the registry has installed,
\* unless an unpublish failed half way.  It is so for every number of edits,
\* failed calls, failed Jobs and restarts, when requests come one at a time
\* through the API and nobody else touches what the controller relies on.
THEOREM ActiveIsInstalled ==
    ASSUME Orderly
    PROVE  Spec => []QuietActiveIsInstalled
<1>1. TypeInv /\ RestInv /\ PublishedInv => QuietActiveIsInstalled
  <2> SUFFICES ASSUME TypeInv, RestInv, PublishedInv, Quiet, NoRequestJobRuns,
                      fe.status.phase = "Ready", fe.status.pub.active,
                      fe.status.pub.id = fe.pub.id, fe.status.unpub.phase # "Failed"
               PROVE  registry.digest = fe.status.pub.digest
    BY DEF QuietActiveIsInstalled
  <2> USE Parts
  <2> DEFINE id == fe.pub.id
             status == fe.status
  <2>1. Lives /\ CopiesInv /\ ObjectsInv /\ StatusesInv /\ RegistryInv /\ fe \in Copies
    BY DEF Quiet, Lives, PublishedInv, Copies
  <2>2. Justified(status)
    BY QuietIsInStep
  <2>3. /\ StatusTrue(status)
        /\ status.pub.phase = "Succeeded" /\ id # None /\ id \in PublishIds
        /\ rjobs[id].phase = "Succeeded" /\ status.pub.fin = rjobs[id].fin
        /\ status.pub.digest = rjobs[id].digest
    BY <2>1 DEF StatusesInv, StatusTrue, PubTrue, Maybe
  <2>4. CASE registry.digest = rjobs[id].digest
    BY <2>3, <2>4
  <2>5. CASE /\ fe.unpub # None
             /\ rjobs[fe.unpub].phase = "Succeeded" => rjobs[fe.unpub].fin >= rjobs[id].fin
    <3>1. fe.target /\ fe.unpub \in RequestIds /\ id \in RequestIds
      BY <2>1, <2>3, <2>5 DEF CopiesInv, ValidCopy, Maybe, RequestIds
    <3>2. status.unpub.id = fe.unpub
      BY <2>2, <2>5 DEF Justified, UnpublishAnswers
    <3>3. rjobs[fe.unpub].uid # 0
      BY <2>3, <2>5, <3>2 DEF StatusTrue, UnpubTrue
    <3>4. status.unpub.phase = rjobs[fe.unpub].phase
      BY <2>2, <2>5, <3>1, <3>3 DEF Justified, UnpublishAnswers
    <3>5. rjobs[fe.unpub].phase \notin {"Running", "Absent", "Failed"}
      BY <2>1, <3>1, <3>3, <3>4 DEF NoRequestJobRuns, ObjectsInv
    <3>6. rjobs[fe.unpub].phase = "Succeeded"
      BY <3>1, <3>5 DEF RequestJob, JobPhases
    <3>7. status.unpub.fin < status.pub.fin /\ status.unpub.fin = rjobs[fe.unpub].fin
      BY <2>3, <3>2, <3>4, <3>6 DEF StatusTrue, UnpubTrue
    <3>8. rjobs[fe.unpub].fin \in Nat /\ rjobs[id].fin \in Nat
      BY <3>1 DEF RequestJob
    <3> QED BY <2>3, <2>5, <3>6, <3>7, <3>8
  <2> QED BY <2>1, <2>3, <2>4, <2>5 DEF RegistryInv
<1> QED BY PublishedInvariant, <1>1, PTL
=============================================================================
