------------------------------ MODULE FiRunner ------------------------------
(***************************************************************************)
(* The runner of a FrontendIntegration build, as it runs in its Job, and   *)
(* what Kubernetes does to Jobs and to the objects an FI owns.  The name   *)
(* of a Job is the spec hash it was made for.                              *)
(*                                                                         *)
(* A pod is new, has built, has checked that its build is not stale, has   *)
(* stored the ConfigMap, has applied the JSBundle, is done, or has failed. *)
(***************************************************************************)
EXTENDS FiWorld

PodStep(name, job) ==
    /\ jobs[name].phase = "Running"
    /\ jobs' = [jobs EXCEPT ![name] = job]
    /\ UNCHANGED <<cache, rc, events>>

\* The status the controller has written last is of this spec.
Observed(name) == fi.uid # 0 /\ fi.status.hash = name

\* Read the FI and build it, unless it has another spec by now.
BuildSpec(name) ==
    /\ jobs[name].pod = "new" /\ fi.uid # 0
    /\ PodStep(name, [jobs[name] EXCEPT !.pod = IF fi.spec = name THEN "built" ELSE "done"])
    /\ UNCHANGED <<fi, queue, bundle, cm>>

\* The FI is read once more: a status for this spec lets the runner go on, one
\* for another spec ends it without an error, and none is waited for.
StaleCheck(name) ==
    /\ jobs[name].pod = "built" /\ fi.uid # 0
    /\ fi.status.hash # None
    /\ PodStep(name, IF Observed(name)
                     THEN [jobs[name] EXCEPT !.pod = "checked", !.owner = fi.uid,
                                             !.on = fi.enabled]
                     ELSE [jobs[name] EXCEPT !.pod = "done"])
    /\ UNCHANGED <<fi, queue, bundle, cm>>

UpsertConfigMap(name) ==
    /\ jobs[name].pod = "checked"
    /\ cm' = [owner |-> jobs[name].owner, spec |-> name]
    /\ PodStep(name, [jobs[name] EXCEPT !.pod = "stored"])
    /\ UNCHANGED <<fi, queue, bundle>>

\* The label says what the FI said when the build was checked; the state of a
\* bundle that is there already is left as it is.
UpsertBundle(name) ==
    /\ jobs[name].pod = "stored"
    /\ bundle' = [bundle EXCEPT !.there = TRUE, !.owner = jobs[name].owner,
                                !.hash = name, !.label = jobs[name].on]
    /\ PodStep(name, [jobs[name] EXCEPT !.pod = "applied"])
    /\ UNCHANGED <<fi, queue, cm>>

\* A bundle that is gone by now is an error.
MakeBundleAvailable(name) ==
    /\ jobs[name].pod = "applied" /\ bundle.there
    /\ bundle' = [bundle EXCEPT !.state = "Available"]
    /\ PodStep(name, [jobs[name] EXCEPT !.pod = "done"])
    /\ UNCHANGED <<fi, queue, cm>>

\* An FI, or a bundle, that is gone is an error as well.
Lost(name) ==
    \/ jobs[name].pod \in {"new", "built"} /\ fi.uid = 0
    \/ jobs[name].pod = "applied" /\ ~bundle.there

\* The build service or the API server fails, or no status is there in time,
\* at any step of the runner.  It says so in the status unless it has not even
\* read the FI, or that patch fails as well.
RunnerFails(name) ==
    /\ jobs[name].phase = "Running"
    /\ jobs[name].pod \in {"new", "built", "checked", "stored", "applied"}
    /\ \/ Lost(name) /\ UNCHANGED events
       \/ ~Lost(name) /\ Disturb("fail")
    /\ \E pod \in {"failing", "failed"} : jobs' = [jobs EXCEPT ![name].pod = pod]
    /\ UNCHANGED <<fi, controllerVars, bundle, cm>>

\* Whatever the FI is by now, its status becomes a failure of this spec.
PatchFailure(name) ==
    /\ jobs[name].pod = "failing"
    /\ fi' = IF fi.uid = 0 THEN fi
             ELSE Stored([fi EXCEPT !.status = [phase |-> "Failed", hash |-> name,
                                                err |-> "runner"]])
    /\ PodStep(name, [jobs[name] EXCEPT !.pod = "failed"])
    /\ UNCHANGED <<queue, bundle, cm>>

\* The pod exits and the Job has its phase; backoffLimit is 0.
RunnerExits(name) ==
    /\ jobs[name].pod \in {"done", "failed"}
    /\ PodStep(name, [jobs[name] EXCEPT
            !.pod = "gone", !.phase = IF @ = "Running" /\ jobs[name].pod = "done"
                                      THEN "Succeeded" ELSE "Failed"])
    /\ Notify
    /\ UNCHANGED <<fi, bundle, cm>>

-----------------------------------------------------------------------------
(* Kubernetes.                                                             *)

JobStep(name, job) ==
    /\ jobs' = [jobs EXCEPT ![name] = job]
    /\ Notify
    /\ UNCHANGED <<fi, cache, rc, bundle, cm>>

\* The node, or the deadline, takes the pod.  It is gone when the Job has
\* failed: one that lingers and still writes is left out.
EvictRunner(name) ==
    /\ jobs[name].phase = "Running"
    /\ Disturb("evict")
    /\ JobStep(name, [jobs[name] EXCEPT !.phase = "Failed", !.pod = "gone"])

\* ttlSecondsAfterFinished is an hour, the watch lags by moments.
ExpireJob(name) ==
    /\ jobs[name].phase \in Terminal /\ CaughtUp
    /\ Disturb("ttl")
    /\ JobStep(name, ExpiredJob)

Orphaned(owner) == owner # 0 /\ (owner # fi.uid \/ fi.deleting)

CollectJob(name) ==
    /\ Orphaned(jobs[name].uid)
    /\ JobStep(name, NoJob)
    /\ UNCHANGED events

CollectBundle ==
    /\ bundle.there /\ Orphaned(bundle.owner)
    /\ bundle' = NoBundle
    /\ UNCHANGED <<fi, controllerVars, jobs, cm, events>>

CollectConfigMap ==
    /\ Orphaned(cm.owner)
    /\ cm' = NoContent
    /\ UNCHANGED <<fi, controllerVars, jobs, bundle, events>>

\* A foreground deletion ends when the objects the FI owns are gone.
RemoveDeletedFI ==
    /\ fi.deleting
    /\ \A name \in Specs : jobs[name].uid # fi.uid
    /\ bundle.owner # fi.uid /\ cm.owner # fi.uid
    /\ fi' = Stored(AbsentFI)
    /\ UNCHANGED <<controllerVars, objectVars, events>>

Runner(name) ==
    \/ BuildSpec(name) \/ StaleCheck(name) \/ UpsertConfigMap(name)
    \/ UpsertBundle(name) \/ MakeBundleAvailable(name)
    \/ PatchFailure(name) \/ RunnerExits(name)
    \/ Lost(name) /\ RunnerFails(name)

Collector ==
    \/ \E name \in Specs : CollectJob(name)
    \/ CollectBundle \/ CollectConfigMap \/ RemoveDeletedFI

RunnersNext ==
    \/ \E name \in Specs :
          Runner(name) \/ RunnerFails(name) \/ EvictRunner(name) \/ ExpireJob(name)
    \/ Collector
=============================================================================
