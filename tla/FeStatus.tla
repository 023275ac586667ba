------------------------------ MODULE FeStatus ------------------------------
(***************************************************************************)
(* The part of the FrontendExtension controller that computes without      *)
(* calling the API server: which publish requests are valid, which status  *)
(* a reconcile wants to write, what the merge patch makes of it, the list  *)
(* labels and the artifact ConfigMaps that garbage collection drops.       *)
(*                                                                         *)
(* An absent optional string is None, an absent time 0, and an absent      *)
(* status section a record whose phase is "Absent".  A hash is the thing   *)
(* it is a hash of: the source hash is the source, the artifact key the    *)
(* pair <<source, rebuild token>>, a digest the pair <<source, variant>>   *)
(* of what was built and of which output the build service gave for it.    *)
(***************************************************************************)
EXTENDS Naturals, FiniteSets

CONSTANT None      \* an absent optional string

Terminal == {"Succeeded", "Failed"}

NoPublish ==
    [phase |-> "Absent", active |-> FALSE, id |-> None, digest |-> None, fin |-> 0]

NoUnpublish == [phase |-> "Absent", id |-> None, fin |-> 0]

\* artifact_key: the source hash and the rebuild token together.
ArtifactKey(x) == <<x.src, x.token>>

\* The artifact key a status refers to through its artifact section.
StatusArtifactKeys(status) ==
    IF status.art = None THEN {} ELSE {ArtifactKey(status)}

\* fe_status_observes_frontend_extension: a status written for this
\* generation, source and rebuild token.  The artifact key the code compares
\* as well is the pair of the last two.
Observes(status, fe) ==
    /\ status.gen = fe.gen
    /\ status.src = fe.src
    /\ status.token = fe.token

-----------------------------------------------------------------------------
(* What a status keeps of the publish section of the status before it.     *)

RetainedPublish(fe) ==
    LET publish == fe.status.pub
    IN  IF \/ ArtifactKey(fe) \in StatusArtifactKeys(fe.status)
           \/ publish.phase = "Succeeded" /\ publish.active
        THEN publish
        ELSE NoPublish

\* A request that names the current source and no digest waits for the
\* artifact.
PendingForCurrentSource(fe) ==
    /\ fe.pub.id # None
    /\ fe.pub.src = fe.src
    /\ fe.pub.digest = None
    /\ fe.pub.gen \in {0, fe.gen}

PublishWithoutArtifact(fe) ==
    IF PendingForCurrentSource(fe)
    THEN [NoPublish EXCEPT !.phase = "Pending", !.id = fe.pub.id]
    ELSE RetainedPublish(fe)

-----------------------------------------------------------------------------
(* Publish and unpublish requests against the current artifact.            *)

\* Mutant of RequestStale: the digest is not compared.
RequestStaleButForDigest(fe, digest) ==
    \/ fe.pub.gen \notin {0, fe.gen}
    \/ fe.pub.src \notin {None, fe.src}

\* The generation, source or digest the request was made for is not the
\* current one any more.
RequestStale(fe, digest) ==
    \/ fe.pub.gen \notin {0, fe.gen}
    \/ fe.pub.src \notin {None, fe.src}
    \/ fe.pub.digest \notin {None, digest}

RequestInvalid(fe) ==
    \/ fe.pub.digest = None /\ fe.pub.src = None
    \/ ~fe.target

\* The digest of a request that names none is that of the current artifact.
\* A request that names one and is not stale names the current one.
FailedPublish(fe, digest) ==
    [NoPublish EXCEPT
        !.phase = "Failed",
        !.id = fe.pub.id,
        !.digest = IF fe.pub.digest = None /\ fe.pub.src = None THEN None ELSE digest]

\* Mutant of PublishAlreadyFinished: the digest is compared with that of the
\* request, which may name none.
PublishAlreadyFinishedAsRequested(fe, digest) ==
    /\ fe.status.pub.id = fe.pub.id
    /\ fe.status.pub.digest = fe.pub.digest
    /\ ArtifactKey(fe) \in StatusArtifactKeys(fe.status)
    /\ fe.status.pub.phase \in Terminal

PublishAlreadyFinished(fe, digest) ==
    /\ fe.status.pub.id = fe.pub.id
    /\ fe.status.pub.digest = digest
    /\ ArtifactKey(fe) \in StatusArtifactKeys(fe.status)
    /\ fe.status.pub.phase \in Terminal

UnpublishAlreadyFinished(fe) ==
    /\ fe.status.unpub.id = fe.unpub
    /\ fe.status.unpub.phase \in Terminal

\* publish_status_from_job: the phase and the times are those of the Job,
\* the digest is that of the request.
PublishFromJob(id, digest, job) ==
    [phase |-> job.phase, active |-> job.phase = "Succeeded",
     id |-> id, digest |-> digest, fin |-> job.fin]

UnpublishFromJob(id, job) == [phase |-> job.phase, id |-> id, fin |-> job.fin]

\* Mutant of ApplyUnpublish: any unpublish that succeeded makes it inactive.
ApplyUnpublishInAnyOrder(publish, unpublish) ==
    IF unpublish.phase = "Succeeded"
    THEN [publish EXCEPT !.active = FALSE]
    ELSE publish

\* apply_unpublish_sync: an unpublish that succeeded no earlier than the
\* publish makes it inactive.  A Job that succeeded has a completion time, so
\* that the start time, which the code takes for want of one, is left out.
ApplyUnpublish(publish, unpublish) ==
    IF /\ unpublish.phase = "Succeeded"
       /\ publish.fin # 0 /\ unpublish.fin # 0
       /\ unpublish.fin >= publish.fin
    THEN [publish EXCEPT !.active = FALSE]
    ELSE publish

-----------------------------------------------------------------------------
(* The status a reconcile wants, and the one the merge patch leaves.       *)

StatusFor(fe, phase, art, publish, unpublish) ==
    [phase |-> phase, gen |-> fe.gen, src |-> fe.src, token |-> fe.token,
     art |-> art, pub |-> publish, unpub |-> unpublish]

PackagingStatus(fe) ==
    StatusFor(fe, "Packaging", None, PublishWithoutArtifact(fe), fe.status.unpub)

FailedStatus(fe) ==
    StatusFor(fe, "Failed", None, PublishWithoutArtifact(fe), fe.status.unpub)

\* Mutant of ReadyStatus: the artifact key stands where the digest belongs.
ReadyStatusWithKey(fe, digest, publish, unpublish) ==
    StatusFor(fe, "Ready", ArtifactKey(fe), ApplyUnpublish(publish, unpublish), unpublish)

ReadyStatus(fe, digest, publish, unpublish) ==
    StatusFor(fe, "Ready", digest, ApplyUnpublish(publish, unpublish), unpublish)

Or(new, absent, old) == IF new = absent THEN old ELSE new

\* A section that is absent is nulled by the patch; inside a section that is
\* present the optional fields without a value are left out of the patch, so
\* the value they had before stays.
MergedPublish(old, new) ==
    IF new.phase = "Absent" THEN new
    ELSE [new EXCEPT !.id = Or(@, None, old.id),
                     !.digest = Or(@, None, old.digest),
                     !.fin = Or(@, 0, old.fin)]

MergedUnpublish(old, new) ==
    IF new.phase = "Absent" THEN new
    ELSE [new EXCEPT !.id = Or(@, None, old.id), !.fin = Or(@, 0, old.fin)]

MergedStatus(old, new) ==
    [new EXCEPT !.pub = MergedPublish(old.pub, @),
                !.unpub = MergedUnpublish(old.unpub, @)]

PublishState(publish) ==
    CASE publish.phase \in {"Pending", "Running"} -> "publishing"
      [] publish.phase = "Succeeded" /\ publish.active -> "published"
      [] publish.phase = "Failed" -> "failed"
      [] OTHER -> "not-published"

PublishFresh(status) ==
    /\ status.art # None
    /\ status.pub.phase = "Succeeded"
    /\ status.pub.active
    /\ status.pub.digest = status.art

StatusLabels(status) ==
    [package |-> status.phase,
     publish |-> PublishState(status.pub),
     fresh   |-> PublishFresh(status)]

-----------------------------------------------------------------------------
(* Garbage collection of artifact ConfigMaps.                              *)

\* artifact_gc_keep_names: the artifact in use and the one the status names.
KeepNames(fe) == {ArtifactKey(fe)} \cup StatusArtifactKeys(fe.status)

\* Mutant of GcCandidates: one old ConfigMap too many is retained.
GcCandidatesOffByOne(cms, fe, keep, retain) ==
    LET old == {k \in DOMAIN cms : cms[k].uid = fe.uid /\ k \notin keep}
    IN  {k \in old :
            Cardinality({j \in old : cms[j].born > cms[k].born}) > retain}

\* artifact_configmap_gc_candidates: of the other ConfigMaps the extension
\* owns, all but the `retain' newest.
GcCandidates(cms, fe, keep, retain) ==
    LET old == {k \in DOMAIN cms : cms[k].uid = fe.uid /\ k \notin keep}
    IN  {k \in old :
            Cardinality({j \in old : cms[j].born > cms[k].born}) >= retain}
=============================================================================
