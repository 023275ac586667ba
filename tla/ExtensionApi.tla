---------------------------- MODULE ExtensionApi ----------------------------
(***************************************************************************)
(* The extension HTTP API and the people who edit FrontendExtensions with  *)
(* kubectl.  A request that the API refuses, or answers from the status    *)
(* alone, changes nothing and is no step.  One that it accepts reads the   *)
(* FE in one step and patches or deletes it in the next; one request is in *)
(* progress at a time.                                                     *)
(***************************************************************************)
EXTENDS FeWorld

\* fe changes, and nothing else but the count of events.
UserWrites(kind, new) ==
    /\ Disturb(kind)
    /\ fe' = Stored(new)
    /\ UNCHANGED <<controllerVars, objectVars, registry, clock, api>>

-----------------------------------------------------------------------------
(* Edits of the FE.                                                        *)

\* An edit of the spec, which may leave the source hash as it was.
EditSpec(source) ==
    /\ fe.uid # 0
    /\ UserWrites("edit", [fe EXCEPT !.src = source, !.gen = @ + 1])

\* The rebuild token is an annotation: the generation stays.
SetRebuildToken(token) ==
    /\ fe.uid # 0
    /\ UserWrites("rebuild", [fe EXCEPT !.token = token])

\* The publish annotations are written by hand.
AnnotatePublish(id, source, digest) ==
    /\ fe.uid # 0
    /\ UserWrites("annotate", [fe EXCEPT !.pub = [id |-> id, gen |-> 0,
                                                  src |-> source, digest |-> digest]])

AnnotateUnpublish(id) ==
    /\ fe.uid # 0
    /\ UserWrites("annotate", [fe EXCEPT !.unpub = id])

\* In the background the FE goes first and its objects follow.
DeleteInBackground ==
    /\ fe.uid # 0
    /\ UserWrites("remove", AbsentFE)

DeleteInForeground ==
    /\ fe.uid # 0 /\ ~fe.deleting
    /\ UserWrites("foreground", [fe EXCEPT !.deleting = TRUE])

\* A new FE under the name of the one that is gone.
Recreate(source, token) ==
    /\ fe.uid = 0
    /\ UserWrites("recreate", NewFE(events + 2, source, token, TRUE))

\* Somebody deletes an artifact ConfigMap, or spoils its content.
TamperArtifact(key) ==
    /\ cms[key].uid # 0
    /\ Disturb("tamper")
    /\ \E cm \in {NoConfigMap, [cms[key] EXCEPT !.intact = FALSE]} :
          cms' = [cms EXCEPT ![key] = cm]
    /\ Notify
    /\ UNCHANGED <<fe, cache, rc, pjobs, rjobs, registry, clock, api>>

-----------------------------------------------------------------------------
(* The HTTP API.                                                           *)

\* No request Job runs and none is going to: the FE is Ready, or nothing is
\* asked of it that waits for it to be Ready.
Calm ==
    /\ CaughtUp
    /\ \A id \in RequestIds : rjobs[id].phase # "Running"
    /\ \/ fe.status.phase = "Ready"
       \/ /\ fe.status.pub.phase \notin {"Pending", "Running"}
          /\ fe.unpub \in {None, fe.status.unpub.id}

\* Request ids the API generates are new; a caller may give an old one.  The
\* API itself does not make a caller wait for an earlier request to finish.
Accept(kind, op, id, req) ==
    /\ api.op = "none" /\ fe.uid # 0
    /\ Calm \/ "overlap" \in Disturbances
    /\ id \notin api.used \/ "reuse" \in Disturbances
    /\ Disturb(kind)
    /\ api' = [op |-> op, id |-> id, req |-> req, used |-> api.used \cup ({id} \ {None})]
    /\ UNCHANGED <<fe, controllerVars, objectVars, registry, clock>>

\* The digest of the artifact that is ready, None if there is none.
ReadyArtifact ==
    IF fe.status.phase = "Ready" /\ fe.status.src = fe.src
    THEN fe.status.art ELSE None

PublishCanWaitForArtifact ==
    \/ fe.status.phase \in {"Absent", "Packaging"}
    \/ fe.status.phase = "Ready" /\ fe.status.src # fe.src

TriggerPublish(id) ==
    /\ fe.target
    /\ ReadyArtifact # None \/ PublishCanWaitForArtifact
    /\ fe.status.pub.id # id \/ fe.status.pub.digest # ReadyArtifact
    /\ Accept("publish", "publish", id,
              [id |-> id, gen |-> fe.gen, src |-> fe.src, digest |-> ReadyArtifact])

PatchPublishRequest ==
    /\ api.op = "publish"
    /\ fe' = IF fe.uid = 0 THEN fe
             ELSE Stored([fe EXCEPT !.pub = api.req, !.target = TRUE])
    /\ api' = [NoCall EXCEPT !.used = api.used]
    /\ UNCHANGED <<controllerVars, objectVars, registry, clock, events>>

TriggerUnpublish(id) ==
    /\ fe.target
    /\ fe.status.unpub.id # id
    /\ Accept("unpublish", "unpublish", id, NoRequest)

CurrentlyPublished == fe.status.pub.phase = "Succeeded" /\ fe.status.pub.active

\* Delete, after an unpublish if that was asked for and there is need of it.
DeleteExtension(id, unpublish) ==
    IF unpublish /\ CurrentlyPublished
    THEN fe.target /\ Accept("delete", "unpublishAndDelete", id, NoRequest)
    ELSE Accept("delete", IF unpublish THEN "deleteUnpublished" ELSE "delete",
                None, NoRequest)

\* An earlier request to delete after an unpublish stays on the FE.
PatchUnpublishRequest ==
    /\ api.op \in {"unpublish", "unpublishAndDelete"}
    /\ fe' = IF fe.uid = 0 THEN fe
             ELSE Stored([fe EXCEPT !.unpub = api.id, !.target = TRUE,
                                    !.delAfter = IF api.op = "unpublish" THEN @ ELSE api.id])
    /\ api' = [NoCall EXCEPT !.used = api.used]
    /\ UNCHANGED <<controllerVars, objectVars, registry, clock, events>>

\* An FE that is being deleted in the foreground stays until that is done.
DeleteByName ==
    /\ api.op \in {"delete", "deleteUnpublished"}
    /\ fe' = IF fe.uid = 0 \/ fe.deleting THEN fe ELSE Stored(AbsentFE)
    /\ api' = [NoCall EXCEPT !.used = api.used]
    /\ UNCHANGED <<controllerVars, objectVars, registry, clock, events>>

ApiCompletes == PatchPublishRequest \/ PatchUnpublishRequest \/ DeleteByName

ApiNext ==
    \/ \E source \in Sources : EditSpec(source)
    \/ \E token \in Tokens : SetRebuildToken(token)
    \/ \E id \in PublishIds, source \in {None, fe.src}, digest \in Digests \cup {None} :
          AnnotatePublish(id, source, digest)
    \/ \E id \in UnpublishIds : AnnotateUnpublish(id)
    \/ DeleteInBackground \/ DeleteInForeground
    \/ \E source \in Sources, token \in Tokens : Recreate(source, token)
    \/ \E key \in Keys : TamperArtifact(key)
    \/ \E id \in PublishIds : TriggerPublish(id)
    \/ \E id \in UnpublishIds : TriggerUnpublish(id)
    \/ \E id \in UnpublishIds, unpublish \in BOOLEAN : DeleteExtension(id, unpublish)
    \/ ApiCompletes
=============================================================================
