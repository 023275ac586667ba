------------------------------- MODULE FeJobs -------------------------------
(***************************************************************************)
(* The Jobs the controller starts, as the packager and the publisher       *)
(* binaries run in them, and what Kubernetes does to Jobs and to owned     *)
(* objects: a Job fails, an old Job expires, the objects of an FE that is  *)
(* gone are collected.                                                     *)
(***************************************************************************)
EXTENDS FeWorld, FiniteSetsExt

-----------------------------------------------------------------------------
(* The packager.                                                           *)

PJobStep(name, job) ==
    /\ pjobs' = [pjobs EXCEPT ![name] = job]
    /\ UNCHANGED <<fe, cache, rc, rjobs, registry, clock, api, events>>

\* Mutant of PackagerBuild: the source is not compared with that of the Job.
PackagerBuildAnything(name) ==
    /\ pjobs[name].phase = "Running" /\ pjobs[name].pod = "new"
    /\ fe.uid # 0
    /\ \E v \in Variants :
          PJobStep(name, [pjobs[name] EXCEPT !.pod = "built", !.owner = fe.uid,
                                             !.digest = <<fe.src, v>>])
    /\ UNCHANGED <<cms, queue>>

\* Read the FE, refuse a source that is not the one of the Job, build.
PackagerBuild(name) ==
    /\ pjobs[name].phase = "Running" /\ pjobs[name].pod = "new"
    /\ fe.uid # 0 /\ fe.src = name[1][1]
    /\ \E v \in Variants :
          PJobStep(name, [pjobs[name] EXCEPT !.pod = "built", !.owner = fe.uid,
                                             !.digest = <<fe.src, v>>])
    /\ UNCHANGED <<cms, queue>>

PackagerRefuse(name) ==
    /\ pjobs[name].phase = "Running" /\ pjobs[name].pod = "new"
    /\ fe.uid = 0 \/ fe.src # name[1][1]
    /\ PJobStep(name, [pjobs[name] EXCEPT !.phase = "Failed", !.pod = "gone"])
    /\ UNCHANGED cms
    /\ Notify

Births == {cms[key].born : key \in Keys}

\* Create the artifact ConfigMap, or replace the content of the one there.
\* The owner is the FE that was read.
PackagerUpsert(name) ==
    /\ pjobs[name].pod = "built"
    /\ LET cm == cms[name[1]]
           born == IF cm.uid # 0 THEN cm.born ELSE 1 + Max(Births)
       IN  cms' = [cms EXCEPT ![name[1]] =
                    [uid |-> pjobs[name].owner, digest |-> pjobs[name].digest,
                     intact |-> TRUE, born |-> born]]
    /\ PJobStep(name, [pjobs[name] EXCEPT
                        !.pod = IF pjobs[name].phase = "Running" THEN "wrote" ELSE "gone"])
    /\ Notify

PackagerSucceed(name) ==
    /\ pjobs[name].phase = "Running" /\ pjobs[name].pod = "wrote"
    /\ PJobStep(name, [pjobs[name] EXCEPT !.phase = "Succeeded", !.pod = "gone"])
    /\ UNCHANGED cms
    /\ Notify

\* The build service, the API server or the deadline fails the Job, at any
\* time; with "linger" its pod may still be there to write the artifact.
PackagerFail(name) ==
    /\ pjobs[name].phase = "Running"
    /\ Disturb("fail")
    /\ \E pod \in {"gone"} \cup
                  (IF "linger" \in Disturbances THEN {pjobs[name].pod} \cap {"built"} ELSE {}) :
          pjobs' = [pjobs EXCEPT ![name].phase = "Failed", ![name].pod = pod]
    /\ Notify
    /\ UNCHANGED <<fe, cache, rc, rjobs, cms, registry, clock, api>>

-----------------------------------------------------------------------------
(* The publisher.                                                          *)

RJobStep(id, job) ==
    /\ rjobs' = [rjobs EXCEPT ![id] = job]
    /\ UNCHANGED <<fe, cache, rc, pjobs, cms, api, events>>

\* The package is there and has the digest the Job was made for.
PackageVerified(job) ==
    /\ cms[job.key].uid # 0
    /\ cms[job.key].intact
    /\ cms[job.key].digest = job.digest

PublisherInstall(id) ==
    /\ id \in PublishIds
    /\ rjobs[id].phase = "Running" /\ ~rjobs[id].done
    /\ PackageVerified(rjobs[id])
    /\ registry' = [registry EXCEPT !.digest = rjobs[id].digest]
    /\ RJobStep(id, [rjobs[id] EXCEPT !.done = TRUE])
    /\ UNCHANGED <<queue, clock>>

PublisherRefuse(id) ==
    /\ id \in PublishIds
    /\ rjobs[id].phase = "Running" /\ ~rjobs[id].done
    /\ ~PackageVerified(rjobs[id])
    /\ RJobStep(id, [rjobs[id] EXCEPT !.phase = "Failed"])
    /\ Notify
    /\ UNCHANGED <<registry, clock>>

PublisherUninstall(id) ==
    /\ id \in UnpublishIds
    /\ rjobs[id].phase = "Running" /\ ~rjobs[id].done
    /\ registry' = [registry EXCEPT !.digest = None]
    /\ RJobStep(id, [rjobs[id] EXCEPT !.done = TRUE])
    /\ UNCHANGED <<queue, clock>>

\* Completion times order Jobs; beyond MaxTime they are all the same time.
PublisherSucceed(id) ==
    /\ rjobs[id].phase = "Running" /\ rjobs[id].done
    /\ clock' = IF clock < MaxTime THEN clock + 1 ELSE clock
    /\ RJobStep(id, [rjobs[id] EXCEPT !.phase = "Succeeded", !.fin = clock'])
    /\ registry' = [registry EXCEPT !.done = @ \cup {<<id, rjobs[id].key>>}]
    /\ Notify

PublisherFail(id) ==
    /\ rjobs[id].phase = "Running"
    /\ Disturb("fail")
    /\ rjobs' = [rjobs EXCEPT ![id].phase = "Failed"]
    /\ Notify
    /\ UNCHANGED <<fe, cache, rc, pjobs, cms, registry, clock, api>>

-----------------------------------------------------------------------------
(* Kubernetes.                                                             *)

\* ttlSecondsAfterFinished is an hour and the watch lags by moments, so a Job
\* expires after the controller has seen it finished, unless the instance
\* allows the controller to be down for as long.  Earlier attempts finished
\* earlier and expire earlier.
LongFinished(job) ==
    job.phase \in Terminal /\ (CaughtUp \/ "downtime" \in Disturbances)

ExpirePackageJob(name) ==
    /\ LongFinished(pjobs[name])
    /\ \A n \in 1 .. name[2] - 1 : pjobs[<<name[1], n>>].uid # pjobs[name].uid
    /\ Disturb("ttl")
    /\ pjobs' = [pjobs EXCEPT ![name] = NoPJob]
    /\ Notify
    /\ UNCHANGED <<fe, cache, rc, rjobs, cms, registry, clock, api>>

ExpireRequestJob(id) ==
    /\ LongFinished(rjobs[id])
    /\ Disturb("ttl")
    /\ rjobs' = [rjobs EXCEPT ![id] = NoRJob]
    /\ Notify
    /\ UNCHANGED <<fe, cache, rc, pjobs, cms, registry, clock, api>>

\* The owner is gone, or is being deleted in the foreground.
Orphaned(uid) == uid # 0 /\ (uid # fe.uid \/ fe.deleting)

CollectPackageJob(name) ==
    /\ Orphaned(pjobs[name].uid)
    /\ pjobs' = [pjobs EXCEPT ![name] = NoPJob]
    /\ Notify
    /\ UNCHANGED <<fe, cache, rc, rjobs, cms, registry, clock, api, events>>

CollectRequestJob(id) ==
    /\ Orphaned(rjobs[id].uid)
    /\ rjobs' = [rjobs EXCEPT ![id] = NoRJob]
    /\ Notify
    /\ UNCHANGED <<fe, cache, rc, pjobs, cms, registry, clock, api, events>>

CollectArtifact(key) ==
    /\ Orphaned(cms[key].uid)
    /\ cms' = [cms EXCEPT ![key] = NoConfigMap]
    /\ Notify
    /\ UNCHANGED <<fe, cache, rc, pjobs, rjobs, registry, clock, api, events>>

\* A foreground deletion ends when the objects the FE owns are gone.
RemoveDeletedFE ==
    /\ fe.deleting
    /\ \A n \in JobNames : pjobs[n].uid # fe.uid
    /\ \A id \in RequestIds : rjobs[id].uid # fe.uid
    /\ \A k \in Keys : cms[k].uid # fe.uid
    /\ fe' = Stored(AbsentFE)
    /\ UNCHANGED <<controllerVars, objectVars, registry, clock, api, events>>

Packager(name) ==
    \/ PackagerBuild(name) \/ PackagerRefuse(name)
    \/ PackagerUpsert(name) \/ PackagerSucceed(name)

Publisher(id) ==
    \/ PublisherInstall(id) \/ PublisherRefuse(id)
    \/ PublisherUninstall(id) \/ PublisherSucceed(id)

Collector ==
    \/ \E name \in JobNames : CollectPackageJob(name)
    \/ \E id \in RequestIds : CollectRequestJob(id)
    \/ \E key \in Keys : CollectArtifact(key)
    \/ RemoveDeletedFE

JobsNext ==
    \/ \E name \in JobNames :
          Packager(name) \/ PackagerFail(name) \/ ExpirePackageJob(name)
    \/ \E id \in RequestIds :
          Publisher(id) \/ PublisherFail(id) \/ ExpireRequestJob(id)
    \/ Collector
=============================================================================
