---------------------------- MODULE FiController ----------------------------
(***************************************************************************)
(* The FrontendIntegration controller: one reconcile at a time, working on *)
(* the copy of the FI its watch cache held when the reconcile started, and *)
(* on the copy of the JSBundle it read.  Every call to the API server is a *)
(* step of its own, so that edits and runners may come between two.        *)
(***************************************************************************)
EXTENDS FiWorld

\* Watch events arrive late but in order.
CacheSync ==
    /\ fi.unseen
    /\ fi' = [fi EXCEPT !.unseen = FALSE]
    /\ cache' = fi'
    /\ queue' = IF fi.uid = 0 THEN "empty" ELSE "event"
    /\ UNCHANGED <<rc, objectVars, events>>

\* A reconcile that is over, for it has nothing left to patch, sets a timer if
\* it asked for one.  Statuses that differ only in what is left out here (times,
\* messages, references) are taken for one, so that there are fewer patches.
Over(r) == r.pc = "idle" \/ (r.pc = "status" /\ r.status = r.fi.status)

\* Nothing but the status is of use when it comes to patching it.
Left(r) ==
    CASE Over(r) -> NoReconcile
      [] ~Over(r) /\ r.pc = "status" ->
            [NoReconcile EXCEPT !.pc = "status", !.status = r.status, !.requeue = r.requeue]
      [] OTHER -> r

Proceed(r) ==
    /\ rc' = Left(r)
    /\ IF Over(r) /\ r.requeue THEN SetTimer ELSE UNCHANGED queue

Continue(r) ==
    /\ Proceed(r)
    /\ UNCHANGED <<fi, cache, objectVars, events>>

\* error_policy puts the FI back on the queue.
Abort ==
    /\ rc' = NoReconcile
    /\ Notify

\* Mutant of ReconcileStart: an FI that is disabled and Pending is left alone.
ReconcileStartEnabled ==
    /\ rc.pc = "idle" /\ queue # "empty" /\ cache.uid # 0
    /\ queue' = "empty"
    /\ rc' = IF cache.deleting \/ (~cache.enabled /\ cache.status.phase = "Pending")
             THEN NoReconcile
             ELSE [NoReconcile EXCEPT
                    !.pc = IF cache.label = cache.enabled THEN "bundle" ELSE "fiLabel",
                    !.fi = cache, !.hash = cache.spec]
    /\ UNCHANGED <<fi, cache, objectVars, events>>

ReconcileStart ==
    /\ rc.pc = "idle" /\ queue # "empty" /\ cache.uid # 0
    /\ queue' = "empty"
    /\ rc' = IF cache.deleting THEN NoReconcile
             ELSE [NoReconcile EXCEPT
                    !.pc = IF cache.label = cache.enabled THEN "bundle" ELSE "fiLabel",
                    !.fi = cache, !.hash = cache.spec]
    /\ UNCHANGED <<fi, cache, objectVars, events>>

PatchEnabledLabel ==
    /\ rc.pc = "fiLabel"
    /\ IF fi.uid = 0
       THEN Abort /\ UNCHANGED fi
       ELSE /\ fi' = Stored([fi EXCEPT !.label = rc.fi.enabled])
            /\ rc' = [rc EXCEPT !.pc = "bundle"]
            /\ UNCHANGED queue
    /\ UNCHANGED <<cache, objectVars, events>>

-----------------------------------------------------------------------------
(* sync_jsbundle_enabled_state: owner, label and state, each compared with *)
(* the copy that was read and patched if it differs.                       *)

Patch(r, status, requeue) ==
    [r EXCEPT !.pc = "status", !.status = status, !.requeue = requeue]

DesiredState(r) == IF r.fi.enabled THEN "Available" ELSE "Disabled"

SyncState(r) == IF r.bundle.state = DesiredState(r) THEN "status" ELSE "state"

\* Mutant of SyncLabel: the state is taken to agree with the label.
SyncLabelOnly(r) == IF r.bundle.label = r.fi.enabled THEN "status" ELSE "label"

SyncLabel(r) == IF r.bundle.label = r.fi.enabled THEN SyncState(r) ELSE "label"

SyncOwner(r) == IF r.bundle.owner = r.fi.uid THEN SyncLabel(r) ELSE "owner"

\* Reconcile r has read bundle b and brings it in line before its status.
SyncBundle(r, b, status) ==
    LET read == [Patch(r, status, FALSE) EXCEPT !.bundle = b]
    IN  [read EXCEPT !.pc = SyncOwner(read)]

\* A bundle that is gone is no error.
PatchBundle(pc, new, next) ==
    /\ rc.pc = pc
    /\ bundle' = IF bundle.there THEN new ELSE bundle
    /\ Proceed([rc EXCEPT !.pc = next])
    /\ UNCHANGED <<fi, cache, jobs, cm, events>>

PatchBundleOwner ==
    PatchBundle("owner", [bundle EXCEPT !.owner = rc.fi.uid], SyncLabel(rc))

PatchBundleLabel ==
    PatchBundle("label", [bundle EXCEPT !.label = rc.fi.enabled], SyncState(rc))

PatchBundleState ==
    PatchBundle("state", [bundle EXCEPT !.state = DesiredState(rc)], "status")

-----------------------------------------------------------------------------
(* reconcile: a disabled FI, an FI that needs a build, any other FI.       *)

ReadBundle ==
    /\ rc.pc = "bundle"
    /\ Continue(
         CASE ~rc.fi.enabled /\ bundle.there -> SyncBundle(rc, bundle, DisabledStatus(rc.fi))
           [] ~rc.fi.enabled /\ ~bundle.there -> Patch(rc, DisabledStatus(rc.fi), FALSE)
           [] rc.fi.enabled /\ NeedsNewBuild(rc.fi, bundle) ->
                [rc EXCEPT !.pc = "findJob", !.bundle = bundle]
           [] OTHER -> [rc EXCEPT !.pc = "children"])

BuildInProgress(r) == Patch(r, BuildingStatus(r.fi, r.hash), TRUE)

FindJob ==
    /\ rc.pc = "findJob"
    /\ Continue(IF ShouldReuseBuildJob(rc.fi, jobs[rc.hash], rc.bundle)
                THEN BuildInProgress(rc)
                ELSE [rc EXCEPT !.pc = "createJob"])

\* create_or_get_job: a Job of that name that exists is taken as it is.
CreateJob ==
    /\ rc.pc = "createJob"
    /\ IF jobs[rc.hash].uid = 0
       THEN /\ jobs' = [jobs EXCEPT ![rc.hash] =
                    [NoJob EXCEPT !.uid = rc.fi.uid, !.phase = "Running", !.pod = "new"]]
            /\ rc' = Left(BuildInProgress(rc))
            /\ Notify
       ELSE Proceed(BuildInProgress(rc)) /\ UNCHANGED jobs
    /\ UNCHANGED <<fi, cache, bundle, cm, events>>

\* sync_status_from_children, up to the next call: the live FI for a Job that
\* runs or failed, the bundle for one that succeeded or is not there.
ReadChildren ==
    /\ rc.pc = "children"
    /\ Continue(CASE jobs[rc.hash].phase = "Running" -> [rc EXCEPT !.pc = "liveRunning"]
                  [] jobs[rc.hash].phase = "Failed" -> [rc EXCEPT !.pc = "liveFailed"]
                  [] jobs[rc.hash].phase = "Succeeded" -> [rc EXCEPT !.pc = "builtBundle"]
                  [] OTHER -> [rc EXCEPT !.pc = "leftBundle"])

\* The status of the live FI decides what is kept of it, and whether it has
\* to be patched.  Its spec may be a newer one.
GetLiveFI ==
    /\ rc.pc \in {"liveRunning", "liveFailed"}
    /\ CASE fi.uid = 0 -> Abort
         [] fi.uid # 0 /\ rc.pc = "liveRunning" -> Proceed(BuildInProgress([rc EXCEPT !.fi = fi]))
         [] OTHER -> Proceed(Patch([rc EXCEPT !.fi = fi], FailedStatus(fi, rc.hash), FALSE))
    /\ UNCHANGED <<fi, cache, objectVars, events>>

\* A Job that succeeded and left no bundle of this spec is waited for.
ReadBuiltBundle ==
    /\ rc.pc = "builtBundle"
    /\ Continue(IF BundleMatches(bundle, rc.hash)
                THEN SyncBundle(rc, bundle, SucceededStatus(rc.hash))
                ELSE BuildInProgress(rc))

\* Without a Job there is nothing to wait for.
ReadLeftBundle ==
    /\ rc.pc = "leftBundle"
    /\ Continue(IF BundleMatches(bundle, rc.hash)
                THEN SyncBundle(rc, bundle, SucceededStatus(rc.hash))
                ELSE NoReconcile)

\* patch_fi_status.  The patch names no resource version: it applies to
\* whatever is there.
PatchStatus ==
    /\ rc.pc = "status"
    /\ IF fi.uid = 0
       THEN Abort /\ UNCHANGED fi
       ELSE /\ fi' = Stored([fi EXCEPT !.status = MergedStatus(@, rc.status)])
            /\ rc' = NoReconcile
            /\ IF rc.requeue THEN SetTimer ELSE UNCHANGED queue
    /\ UNCHANGED <<cache, objectVars, events>>

\* A call fails, or the controller restarts, between two steps.
ReconcileError ==
    /\ rc.pc # "idle"
    /\ Disturb("error")
    /\ Abort
    /\ UNCHANGED <<fi, cache, objectVars>>

Reconcile ==
    \/ ReconcileStart \/ PatchEnabledLabel \/ ReadBundle
    \/ PatchBundleOwner \/ PatchBundleLabel \/ PatchBundleState
    \/ FindJob \/ CreateJob
    \/ ReadChildren \/ GetLiveFI \/ ReadBuiltBundle \/ ReadLeftBundle
    \/ PatchStatus

ControllerNext == CacheSync \/ Reconcile \/ ReconcileError
=============================================================================
