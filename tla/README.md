# A verification of kube-frontend-forge-controller

TLA+ models of the program, TLC configurations that check them on small
instances, and proofs that TLAPS checks for instances of every size.  Source
paths are relative to the root of the repository; `fec` stands for
`crates/frontend-extension-controller/src`, `fic` for
`crates/frontend-forge-controller/src`.

## The system

A **FrontendExtension** (FE) is a cluster-scoped object that describes the
frontend of a KubeSphere extension.  Its controller has it built and packaged
by a Job, keeps the package in a ConfigMap, and on request has it published to
(or unpublished from) the extension registry by another Job.  An HTTP API
creates, publishes, downloads and deletes FEs.  An older object, the
**FrontendIntegration** (FI), has a controller and a runner Job of its own,
which serve the frontend at once, as a JSBundle; a migrator turns FIs into FEs.
Three specifications cover the three: `FrontendExtension`,
`FrontendIntegration` and `Migration`.

| Component | State it keeps | Operations | Talks to |
| --- | --- | --- | --- |
| FE controller (`fec/controller.rs`, `package.rs`, `status.rs`, `artifact.rs`) | nothing of its own; a watch cache and a work queue (kube-runtime) | `reconcile`: validate, look for the artifact, follow or make package Jobs, write status and labels, collect old artifacts | reads the FE from the cache, everything else from the API server; creates Jobs, patches the FE, deletes ConfigMaps |
| ... publish and unpublish (`fec/publish.rs`, `unpublish.rs`) | `status.publish`, `status.unpublish` | `sync_publish`, `sync_unpublish`, delete after unpublish | Jobs named after the request id |
| Packager Job (`crates/extension-packager`) | the artifact ConfigMap | read FE, compare source hash, build, upsert | build service, API server |
| Publisher Job (`crates/extension-publisher`) | the registry, through `ksbuilder` | load and verify the package, publish; unpublish | API server, registry |
| Extension HTTP API (`crates/frontend-forge-extension-api`) | the request annotations on the FE | publish, unpublish, delete, create; list, get, download | API server |
| Common helpers (`crates/common`) | - | artifact key, observed phase of a Job, create or get a Job, names | |
| FI controller (`fic/fi`) | nothing of its own; a watch cache and a work queue | `reconcile`: switch the JSBundle on or off, follow or make the build Job of the spec, write status and label | creates Jobs, patches FI and JSBundle |
| FI runner (`crates/frontend-forge-runner`) | the bundle ConfigMap and the JSBundle | read the FI, build, check that the build is not stale, upsert both, report a failure in the FI status | build service, API server |
| FI to FE migrator (`fic/bin/fi_to_fe_migrator`) | nothing; a list of FIs while it runs | for each FI: create or patch its FE, ask for its publication, delete the FI and wait | API server; run by Helm after each upgrade |
| FI webhook (`fic/webhook.rs`) | - | admission validation | manifest renderer |
| Manifest renderer (`crates/manifest`) | - (pure) | resolve menus, pages, render | |
| Package core (`crates/extension-package-core`) | - (pure) | identity, roles, archive | |
| Build service client, chart, scripts, xtask | - | one HTTP call; deployment | |

### What is hard here

* A reconcile works on the **cached copy** of the FE it started with and makes
  up to a dozen calls; anything may happen between two of them.
* `patch_fe_status` is *get, compare, patch, get, patch labels* without a
  resource version.
* The status patch is a **merge patch**: optional fields without a value are
  not in it, so that what an earlier request left stays.
* What has been done is remembered only in Jobs, which **expire** an hour after
  they finish, and in the status, which other writes replace.
* The packager reads the FE again, by name, and may see a later edit.  Its pod
  may outlive its Job.
* Publish and unpublish are ordered by completion times only; the API accepts
  one while the Job of the other runs.
* A runner of an FI outlives edits and switches of the FI, and writes over the
  bundle and the status of another spec.  A build Job has the spec hash for its
  name, so that an old one stands in the way of a new one.
* The migrator goes through FIs while people edit, switch off and recreate them,
  and finds FEs of earlier runs, edited or replaced since.  It deletes.
* An FE can be deleted, in the foreground or the background, and created again
  under its name, with the objects of the old one still there.

`hazards` in PROJECT.json lists these at their lines, with the properties that
watch them.

### What would make each component correct

| Component | Properties |
| --- | --- |
| Packaging | artifacts hold what they are named for; one package Job per key at a time; a bound on attempts; Failed only with a reason; Packaging only with a Job to wait for |
| Status | at rest the status is of the current spec and the labels agree; the controller comes to rest |
| Artifacts | Ready means downloadable; garbage collection keeps what is used and bounds what is not |
| Publishing | a Job installs the digest asked for; a finished request is not repeated; active and fresh tell the truth; every request is answered |
| Deleting | the FE goes after its extension |
| FI controller, runner | a disabled FI serves nothing; Succeeded means that the bundle of the current spec is on; Failed has a reason; the controller comes to rest |
| Migrator | no FI goes before its FE has all of it and asks to be published; other people's FEs are left alone; success means done; it ends |
| Manifest renderer | each route opens the page its menu is bound to, in its placement |
| Package core | identity normalisation is idempotent; roles are unions without duplicates |

## Modules

```
FeStatus          what reconcile computes without a call: sections of the
   |              status, merge patch, labels, requests, gc candidates
FeWorld           the objects in the cluster (VARIABLES), constants, bounds
   |---- FeController   reconcile, one action per call to the API server
   |---- FeJobs         packager, publisher, and Kubernetes: ttl, collection
   |---- ExtensionApi   the HTTP API, and people with kubectl
   '---------> FrontendExtension   all of them composed; types, properties
                  |---- MCFrontendExtension       symmetry, for TLC
                  '---- FrontendExtension_proofs  theorems, for TLAPS
                         |---- PublishRequests_proofs
                         '---- FeRest_proofs
                                '---- FinishedRequests_proofs
                                       '---- ActiveRequests_proofs
JobSeries         the abstract promise about package Jobs, which
                  FrontendExtension instantiates and implements

FiWorld           FI, Jobs, JSBundle, ConfigMap; decisions and statuses
   |---- FiController   reconcile, one action per call
   |---- FiRunner       the runner, and Kubernetes
   '---------> FrontendIntegration   composed, with the people who edit
                  |---- MCFrontendIntegration
                  '---- FrontendIntegration_proofs

Manifest          what the renderer makes of a frontend; what the migrator
   |              makes of an FI (pure operators)
   |---- Manifest_proofs    lemmas about them, for every frontend ----.
   '---> Migration          the migrator, one action per call,        |
            |               and its environment                       |
            |---- MCMigration        small frontends, for TLC         |
            '---- Migration_proofs <----------------------------------'
```

### State of `FrontendExtension`

| Variable | In the program |
| --- | --- |
| `fe` | the FE: uid, generation, source hash, rebuild token, the annotations of publish, unpublish and delete-after-unpublish, whether a publish target is set, status, labels; `unseen` says that its last change has a watch event to be delivered |
| `cache` | the copy in the controller's reflector store |
| `queue` | the work queue entry of the FE: due at once, due later (`Action::requeue`), or none |
| `rc` | the local variables of the reconcile that runs, with the call it makes next (`pc`) |
| `pjobs` | package Jobs by name, which is artifact key and attempt; `pod` is how far the packager is |
| `rjobs` | publish and unpublish Jobs by request id |
| `cms` | artifact ConfigMaps by artifact key; `intact` says that content and annotations agree; `born` orders creation times |
| `registry` | what `ksbuilder` has installed; `done`, a history variable, the requests that succeeded with the key of their artifact |
| `clock` | completion time of the last request Job |
| `api` | the API request between its read and its write; ids used so far |
| `events` | how many outside events there were (bound) |

### Actions of `FrontendExtension`

`FeController`: `ReconcileStart` reads the cache, lists the package Jobs and
validates; `ArtifactFound`, `PackageJobInProgress`, `ReadArtifactAgain`,
`PackageAttemptsExceeded`, `NextAttempt`, `CreatePackageJob` are the branches
of `reconcile`; `ObservePublishJob` ... `CreateUnpublishJob` those of
`sync_publish` and `sync_unpublish`; `GetLatest`, `PatchStatus`, `GetPatched`,
`PatchLabels` the calls of `patch_fe_status`; `DeleteFrontendExtension`,
`ListOldArtifacts`, `DeleteOldArtifact` what follows the status of a Ready FE;
`ReconcileError` any call failing, or the controller restarting, between two
steps.  Several branches that read the same call are separate actions with the
same `pc`; a computation between two calls belongs to the action before it.

`FeJobs`: `PackagerBuild`, `PackagerRefuse`, `PackagerUpsert`,
`PackagerSucceed` are the packager's `main`; `PublisherInstall`,
`PublisherRefuse`, `PublisherUninstall`, `PublisherSucceed` the publisher's;
`PackagerFail` and `PublisherFail` stand for everything else that fails a Job:
the build service, the API server, the archive, `ksbuilder`, the deadline.

`ExtensionApi`: `TriggerPublish`, `TriggerUnpublish`, `DeleteExtension` read
the FE and decide, `PatchPublishRequest`, `PatchUnpublishRequest`,
`DeleteByName` write.  A request that is refused or answered from the status
changes nothing and is no step.  The rest are edits with kubectl.

### `JobSeries`, and how packaging implements it

`JobSeries` promises, of the Jobs that a controller makes for an owner and a
key, that they form a series of numbered attempts: `Begin` starts the next
number under a free name when all before it have ended, `End` ends one, `Drop`
forgets one that expired or lost its owner.  `FrontendExtension` instantiates
it with the refinement mapping `SeriesOfJobs`: the owner of a Job is the uid of
its FE, and it runs, has ended or is not there.  The promise is not obvious:
the controller lists the Jobs, decides, and makes the Job several steps later,
in a name space it shares with the Jobs of FEs that had the same name, while
Jobs end, are collected and lose artifacts.  TLC checks `PackageJobsAreSeries`
in `recreating`; `PackageJobsImplementSeries` proves it.

### State and actions of `FrontendIntegration`

`fi`, `cache`, `queue`, `rc`, `events` are as above; the status is its phase,
the observed spec hash and whether and by whom an error was recorded.  `jobs`
are the build Jobs by spec hash, each with how far its pod is (`new`, `built`,
`checked`, `stored`, `applied`, `done`, `failing`, `failed`) and with what the
stale check saw of the FI; `bundle` is the JSBundle (owner, spec hash label,
enabled label, state), `cm` the ConfigMap it points to.

`FiController`: `ReconcileStart`, `PatchEnabledLabel`, `ReadBundle`, then one of
three branches: `PatchBundleOwner`, `PatchBundleLabel`, `PatchBundleState`
(`sync_jsbundle_enabled_state`, each skipped when the copy that was read is in
order); `FindJob`, `CreateJob`; `ReadChildren`, `GetLiveFI`, `ReadBuiltBundle`,
`ReadLeftBundle` (`sync_status_from_children`); and `PatchStatus`.  A reconcile
that finds nothing to patch ends with the step that finds it.  `FiRunner`: the
runner's `run` from `BuildSpec` to `MakeBundleAvailable`, with `RunnerFails`
and `PatchFailure`, which may be skipped when the FI was never read or the
patch itself fails; eviction, expiry and collection.

* The spec hash is the spec without `enabled`.  `Legacy` stands for the hash of
  a status that an earlier version left, which has a manifest hash only.
* The manifest hash, generation, times, messages and references of the status
  are left out; they decide nothing but whether a patch is needed.
* The build service is one step, which may fail.
* Of two statuses that differ only in what is left out the second is not
  written, whereas the code compares all of it (`fic/fi/status.rs:153`) and
  writes, which wakes it once more.
* A runner is gone when its Job has failed.  One that lingers (packagers may, by
  "linger") could still write and turn on the bundle of a disabled FI, with
  nothing left to wake the controller.
* An FI is not created again under its name here; the objects of a deleted one
  are collected meanwhile.

### State and actions of `Migration`

`fis` and `fes` are FIs and FEs by the name of the FI (`migrated_fe_name` gives
each its own); an FE has the FI its annotation names (`source`), its frontend,
its generation and the publish intent (generation and source hash; the source
hash is the frontend).  `mg` is the migrator: its phase, what it listed, what
it has to do, what failed, and the FI in hand with the next call.  `crds` says
that the CRDs are established; `touched`, a history variable, which FEs people
changed since the migrator looked at them.

One action per call: `ListIntegrations`, `GetExtension`, `CreateExtension`,
`PatchExtension` (a merge patch, which leaves out what the new frontend has
none of), `PatchPublishIntent`, `DeleteIntegration`, `AwaitDeletion`, with
`Take` and `Finish` around them.  Each may fail (`CallFails`), the Job may die
(`JobDies`), and Helm runs it anew (`Upgrade`).

An FE that people delete goes at once; one that stays for its finalizers, and
is patched meanwhile, is left out.  `ForeignUntouched` shows that the check of
the owner works whatever else goes on; an FE that is replaced between that check
and the patch is taken over, and is exempt as `touched`.

`Manifest` has the frontends of FIs and FEs, what the renderer accepts
(`Resolves`), and what a user gets to see of one (`Served`): in each placement
the routes, and the content of the page that each opens.  `MigratedFrontend` is
the migrator's translation.  Keys are strings of which some are valid;
titles, icons, the contents of pages and the versions of engine and schema are
left out.  Names of placements and
types are as in the source.

### Abstractions of `FrontendExtension`

* Hashes are the things hashed: source hash = source, artifact key = pair of
  source and token, digest = source and a *variant*, since a build is not
  reproducible (the package contains the time it was made, and the build
  service may change).
* Messages, conditions, the download and the packageJob section of the status
  are left out; they are written with the rest and read by nothing modelled.
* One FE; its package name stays.  Names of objects do not collide.
* The watch cache jumps to the newest version of the FE; in between versions
  it could have shown are ones the reconcile could have read by starting
  earlier.  Watches on Jobs and ConfigMaps only wake the controller.
* A package or publisher Job runs one pod (`backoffLimit` 0); "linger" lets a
  pod outlive the failure of its Job.
* Publish annotations by hand have every combination of current or no source
  hash and any digest or none; the API writes generation, source and digest.
* The publish target is a flag; one that is of a wrong kind is like none.
* An FE that is deleted by name goes at once, unless it is being deleted in the
  foreground; finalizers of others are left out.
* A request Job that succeeded has a completion time, so that its start time,
  which the code falls back on (`fec/unpublish.rs:321`), is not needed.

## Runs

`integrating` and `v_reuse` take `MCFrontendIntegration`, `migrating` takes
`MCMigration`, all others `MCFrontendExtension`.  `Disturbances` names the outside
events an instance has and `MaxEvents` bounds how many of them there are, in
any order and at any time; what the controller, the Jobs, Kubernetes and the
API do of their own accord is not bounded.

| Run | Instance | What it shows |
| --- | --- | --- |
| `packaging` | a valid and an invalid source, 2 attempts; 3 of edit, fail, error, tamper | `TypeOK`; `ArtifactHonest`; `OnePackageJobAtATime`; `QuietStatusIsCurrent`; `QuietFailedHasReason`; `AttemptsLimited`; `Converges`, under fairness |
| `recreating` | 2 tokens, 2 attempts; 2 of rebuild, fail, tamper, linger, remove, foreground, recreate | `QuietReadyIsDownloadable`, `QuietOldArtifactsAreBounded`, `QuietPackagingHasJob`; `PackageJobsAreSeries`, the refinement |
| `publishing` | 2 sources, two publish requests and an unpublish request; 3 of publish, unpublish, edit | `QuietActiveIsInstalled` |
| `matching` | 2 sources, 2 tokens, 2 build outputs, 2 publish requests; 2 of publish, edit, rebuild, overlap, error | `PublishJobMatchesRequest` |
| `deleting` | 5 of publish, unpublish, delete, fail, ttl, error | `FinishedRequestNotRepeated`, `DeletedAfterUnpublish`, `DeleteRequestUnpublishes` |
| `annotating` | with and without target; 2 of annotate, publish, fail, ttl, error, overlap | `QuietRequestsAreAnswered`; `PublishAnswered`, under fairness |
| `integrating` | 2 specs, new or upgraded FI; 2 of edit, toggle, fail, evict, error, ttl, tamper, remove, foreground, upgrade | `TypeOK`; `QuietDisabledIsOff`; `QuietSucceededIsServed`; `QuietFailedHasReason`; `Converges`, under fairness |
| `migrating` | one FI of any of the small frontends, left alone; or two FIs of one frontend and 3 of error, evict, upgrade, release, edit, toggle, recreate, change, remove, foreign | `TypeOK`; `RoutesOpenTheirPages`; `DeletedWhenHandedOver`; `NothingLost`; `ForeignUntouched`; `SuccessIsComplete`; `ScanEnds`, under fairness |

`Quiet` in a property's name means: the controller is between two reconciles
and has no event to see; for an FI also that no runner is at work.  That is the
state a user looks at, and the only one in which a level-triggered controller
owes anything.

**Bounds.**  Two sources or two tokens give a current and a former artifact
key, two build outputs a former digest of the same source, two attempts a
retry and a last attempt; `RetainOld` 0 makes every former artifact a
candidate.  Two or three outside events are an edit or a failure in the middle
of every phase of the answer to another one; five in `deleting` allow publish,
expiry, unpublish, delete with an error between, or an unpublish that finished
before the publish.  A third event makes
`recreating` too large for a run of minutes; two suffice for an FE that takes
over the Job of a former one, and for a pod that writes after its Job failed.
`packaging` and `recreating` have one output of the build: that the one is told
from another is for the theorems, which have any number.  The same goes for
`matching`, whose two events are a request and one thing that happens to it: a
second request, an edit of the source, a rebuild with another output, or a call
that fails.  `JobsMatchTheirRequests` has any number of them.
`MaxTime` 4 exceeds the number of request Jobs that can finish in any run, so that it is never met.

In `integrating` two specs are a current and a superseded one; two events are
an edit and the failure, expiry or switch that meets its build.  In `migrating`
the small frontends are those of up to two menus over two keys and two
placements, page or organization with up to two children, and four lists of
pages: fitting, one missing, a key twice, a page without columns.  That is
every way in which two bindings can share a page, a placement, a route or
none of them.  Two FIs are enough for one to fail and the other to go on;
three events allow an eviction, an upgrade and an edit between them.

**Symmetry** over sources, tokens, build outputs and publish ids is used in runs that check
safety and in which all sources are valid: the model compares them for
equality and nothing else.

**Deadlock** is not checked: when the users have spent their events and the
controller is at rest the cluster rightly does nothing.

**Assumptions about callers.**  `Calm`: a caller of the API waits until no
request Job runs or is due.  Request ids are new.  `LongFinished`: a Job
expires only when the controller has caught up, since the ttl is an hour.  The
disturbances "overlap", "reuse" and "downtime" lift these.  The API itself
makes nobody wait (`handlers.rs:169`), so `annotating` and `matching` have
"overlap", and so have the theorems that do not exclude it.  Otherwise no run has any of
the three: with "overlap" `QuietActiveIsInstalled`, `DeletedAfterUnpublish` and
`DeleteRequestUnpublishes` fail, and nothing in the source says that they should
hold.  The hazards without a
property name those cases.

### Fairness

`FairSpec` has weak fairness of the watch (`CacheSync`), of the reconcile as a
whole (kube-runtime runs what is on the queue), of each running packager and
publisher (a Job ends, if only by `activeDeadlineSeconds`), of Kubernetes'
garbage collector and of the API finishing what it began.
For FIs it is the same: watch, reconcile, each running runner, collection.
The migrator is one loop, with weak fairness as a whole.  Users, failures and
expiry have none.  Errors are bounded by `MaxEvents`, as an API server that
fails for ever lets nothing converge.

### Where the code and its documents part

Four runs end in a counterexample to something the documents in `spec/` say;
PROJECT.json quotes the lines.

| Run | The document | The code |
| --- | --- | --- |
| `v_repeated` | a request that is terminal for the current key stays so | a Packaging status drops the artifact section that says so, and the request runs again |
| `v_fresh` | fresh: the published digest is the current one | the status of an old Job is given the digest of the current artifact |
| `v_mismatch` | a request for another digest than the current one is failed | it is passed over, and its caller gets no answer |
| `v_reuse` | a failed build Job is not reused | its name is taken, and `create_or_get_job` returns it |

More of them were found in the same way and have no run of their own:

* The publish section that a reconcile retains is the one of its stale copy; it
  replaces a newer one, so that an active publish becomes inactive
  (`fec/status.rs:169`).  As long as the watch stays one write behind, two
  versions replace each other for ever, which is why `Converges` is checked
  without publish requests.
* An edit between the creation of a publish Job and the write of its status
  makes the request stale, and the Job is not looked at any more
  (`fec/publish.rs:108`).  It installs its artifact, and the status keeps the
  earlier publish as the active one.  It takes two publish requests and two
  edits.  `QuietActiveIsInstalled` speaks of the status of the last request, for
  which this cannot happen.
* An unpublish request is not looked at while the FE has no artifact
  (`fec/controller.rs:105`).
* Attempts are counted from Jobs that expire, so that a Failed FE starts again
  at attempt 1 (`fec/package.rs:54`).
* Garbage collection keeps the artifact that the *cached* status names
  (`fec/artifact.rs:64`).
* The migrator writes the publish intent before it deletes the FI, which is the
  safer order; `spec/fi-to-fe-migration.md:60-66` and `:173` say that it
  deletes first.
* On a rerun an FI whose menus were emptied leaves the FE its old ones: empty
  lists are not in the merge patch (`crates/api/src/fe.rs:149`).
  `NothingLost` exempts FIs without menus.
* An FI that was switched off between two runs leaves its FE the publish intent
  of the first.
* An FI that is edited between the list and its deletion loses the edit; the
  deletion has no precondition (`migration.rs:148`).
* An FI whose build Job expired, or was superseded and came back, before it
  left a bundle stays Building for ever (`fic/fi/controller.rs:192`).
  `Converges` names this state, `Wasted`, and excuses nothing else.

Some properties are checked without the disturbances with which they fail:

* `AttemptsLimited` without the expiry of failed package Jobs and without an FE
  that is deleted in the foreground or made anew.
* `FinishedRequestNotRepeated` without whatever makes the artifact another one or
  spoils it (edit, rebuild, tamper as in `v_repeated`, linger), without other FEs
  and deletion in the foreground (recreate, foreground), without ids that stand for
  two requests (annotate, reuse), and without Jobs that expire before the
  controller has seen their end (downtime).  TLC finds a second Job for a finished
  request with each of these nine, alone.
* `DeletedAfterUnpublish` without edits, as follows, and also without rebuild,
  tamper, recreate, annotate and reuse, which have the same effect, and overlap.
  A request to unpublish and delete stays
  on an FE that is edited before its Job ends; the FE is Packaging when the Job
  has run, a new publish is accepted, and the reconcile that starts its Job
  deletes the FE for the earlier unpublish (`fec/unpublish.rs:333`) while the new
  Job may have installed the extension already.  It takes a publish, a deletion,
  an edit and a second publish.
* `DeleteRequestUnpublishes` without edit, rebuild, tamper, recreate, annotate and
  overlap; TLC finds an installed extension left behind with each of them, alone.
  The deletion is decided by `status.publish` alone, as the design document has
  it, and an edit for one makes a request stale whose Job installs its artifact
  all the same.  It says nothing of a publish that failed, which may have
  installed the extension.
* `QuietActiveIsInstalled` without the expiry of Jobs: an unpublish whose Job
  succeeded and expired before its status was written is run again, beside a
  later publish.  The proof below needs more, and says what for.

## Proofs

`FrontendExtension_proofs` proves, from the named assumptions of `FeWorld`
(`MaxAttempts` a positive number, `RetainOld`, `MaxEvents` and `MaxTime`
numbers, the last of them positive, `ValidSources` among `Sources`,
`Targets` a set of truth values, no source, no output of a build and no request
id `None`, and publish and unpublish Jobs with different names) and for sets of
any size:

* **`TypeCorrectness`**: `Spec => []TypeOK`.  `TypeOK` alone is not inductive:
  a reconcile that indexes `pjobs` with the key of its copy of the FE needs
  that copy to be of an FE that existed.  The invariant `TypeInv` adds `Keyed`
  (an FE with a uid has a source and a token), `Prepared` (a reconcile at work
  has a key, and the id of the request whose Job it is about to touch),
  `CallPrepared`, and `BirthsBounded` (creation times have a maximum, so that
  the next one is a number).  One lemma per group of actions.
* **`ArtifactsAreHonest`**: `Spec => []ArtifactHonest`, with `BuildsHonest`:
  what a packager has built but not yet written is built from the source of
  its Job.  It holds although the FE may change between the build and the
  write, since the packager compares before it builds.
* **`OnePackageJob`**: `Spec => []OnePackageJobAtATime`.  The invariant
  `OrderInv` says that of the Jobs of one FE at one key only the last may run
  (`LaterAttemptEndsEarlier`), and that a reconcile that is going to make the
  next one knows the last attempt and that it has ended (`LatestKnown`) at
  every step between the list and the create, although Jobs end, fail, expire
  and are collected meanwhile.  That there is a largest attempt
  (`MaxOfNaturals`) comes from well-foundedness of the naturals.

* **`PackageJobsImplementSeries`**: `Spec => PackageJobsAreSeries`.  Initial
  states map to initial states; each action maps to `Begin`, `End` or `Drop`
  for one Job, or leaves `SeriesOfJobs` alone.  Only `CreatePackageJob` needs
  more than its own text: that the number it takes comes after all attempts of
  this FE and key and that those have ended is `OrderInv`.

* **`NoAttemptAfterTheLast`**: `Spec => AttemptsLimited`, if `OneLife`: package
  Jobs do not expire (`ttl`), the FE is not deleted in the foreground, which
  collects its Jobs while it is there (`foreground`), and no second FE takes its
  name (`recreate`).  `packaging` is such an instance.  The status is written
  some steps after the attempts were counted, by a reconcile whose copy of the
  FE may be older than the status it overwrites.  `LimitInv` says that this does
  no harm: the attempt that a reconcile found to be the latest is there
  (`LatestMade`), and so is the last attempt at the artifact key of every status
  that says Failed of a valid source, the one on the FE and the one about to be
  written (`UsedUp`).  With `LatestKnown`, of `OnePackageJob`, a reconcile about
  to make an attempt would have counted that last one.  Without any of the three
  conditions it is false: TLC finds the further attempt.

`PublishRequests_proofs` builds on it:

* **`JobsMatchTheirRequests`**: `Spec => []PublishJobMatchesRequest`, if
  `NewIdsOnly`: nobody writes the publish annotations by hand or gives the API
  an id it had before (neither `annotate` nor `reuse` is a disturbance).  A
  request has four copies: on its way to the FE, on the FE, in the cache, and in
  the FE the reconcile works on.  `RequestInv` says that copies with one id name
  one digest (`CopiesAgree`), that an id on a copy or in a Job's name is used
  (`IdsUsed`), so that a new id has neither, that a Job has the digest of every
  copy that names one (`JobsMatch`), and that a reconcile that reads or makes
  the Job has found the artifact its request names (`DigestCurrent`).  Without
  the condition it is false: a Job made for an id may meet a later request
  that gives the id another digest.

`FeRest_proofs` proves what the status of an FE is worth at rest, six theorems
from one invariant, for all values of the constants and with every disturbance
there is:

* **`StatusIsCurrent`**, **`ReadyIsDownloadable`**, **`FailedHasReason`**,
  **`PackagingHasJob`**, **`OldArtifactsAreBounded`** and
  **`RequestsAreAnswered`**: `Spec => []P` for the `Quiet...` property of that
  name.  None is inductive: it speaks of the state between two reconciles, and
  what a reconcile has found out may be out of date before it writes it.  The
  invariant is that this matters only if an event is on its way:
  `Undisturbed => OnTheWay(rc)`, where `Undisturbed` says that no change of the
  FE is unseen and no event is queued, and `OnTheWay` says, for each call the
  reconcile can be at, what it has established of the cluster as it is: the
  latest package Job (`Listed`), the artifact (`Found`), the answers to the
  requests (`PublishAnswers`, `UnpublishAnswers`), a status that is true of all
  of them (`Decided`, `Written`), and, at rest, that status on the FE with its
  labels (`InStep`).  Each step of anybody else either puts an event on its
  way, or leaves all that alone (`OthersRest`, `WorldStays`); each step of the
  reconcile leads from one to the next (`ReconcileOnTheWay`).
* The bound on old artifacts needs two things more: creation times tell
  artifacts apart (`BirthsDiffer`), so that at most `RetainOld` are among the
  youngest (`FewYounger`), and there are finitely many (`FinitelyMany`, an
  invariant and no assumption: each packager adds one).
* TLC checked `CacheCurrent`, `BirthsDiffer` and `Undisturbed => OnTheWay(rc)`
  as invariants of the instances of `packaging`, `recreating`, `annotating`,
  `publishing` and `deleting` before they were proved.

`FinishedRequests_proofs` builds on that, and proves what becomes of requests.
Both theorems have a condition on the disturbances of the instance, which
`deleting` satisfies, and both need to know what is in the cluster when nobody
has to do anything, that is `RestInv` of `FeRest_proofs`:

* **`FinishedOnce`**: `Spec => FinishedRequestNotRepeated`, if `Steady`: none of
  the nine disturbances listed under `FinishedRequestNotRepeated` above.  What
  was done is told by a Job that expires and a status that other writes replace;
  the status must have it before the Job goes, and keep it although a reconcile
  may write, or decide by, an older copy of the FE.  `RequestsInv` says, step by
  step: there is one FE, whose copies differ in status and requests only
  (`LifeInv`); its artifact, once there, stays and is the one every reconcile
  works with (`ArtifactInv`); a publish section that speaks of a Job has its
  digest (`HonestPublishes`); an id that the API is about to write is known to
  nobody (`IdsUsed`); with its artifact the FE comes to rest as Ready
  (`ReadyAtRest`); and a request that was carried out has its Job, or is closed
  (`FinishedInv`).  Closed means that the status of the FE, of every copy of
  it and of the write that is under way have the final answer, and that nobody is
  about to make the Job.  That it is closed when the Job expires
  (`ExpiredIsClosed`) is where `RestInv` comes in: Jobs expire when the
  controller has caught up.
* **`DeletionIsAfterUnpublish`**: `Spec => DeletedAfterUnpublish`, if `Careful`:
  `Steady`, and the API accepts no request beside another (`overlap`).
  `DeletionInv` says that a status that reports the end of an unpublish is right
  (`OutcomeInv`, with `JobOutcome` for the Jobs): Succeeded means that it was
  carried out, Failed that it was not and never will be; that an FE that is due
  for deletion does not come to rest (`DeletedAtRest`); and that of an FE that is
  to be deleted after an unpublish, in whatever copy, either the unpublish failed
  for good, or no publish is open, no request is on its way, and once it is
  carried out nothing is installed (`LeaveInv`).  The last must be known of stale
  copies as well: a reconcile deletes by the copy it started with.
* With `overlap`, or with any of edit, rebuild, tamper, recreate, annotate and
  reuse, TLC finds an FE deleted with its extension installed.  With downtime
  or foreground it found none in the instances tried, and linger was not
  exhausted; those three are conditions of this theorem since it rests on
  `RequestsInv`.
* TLC checked `RequestsInv` and `DeletionInv` on the instance of `deleting`
  with four events.

`ActiveRequests_proofs` proves that the status tells the truth about the
registry:

* **`ActiveIsInstalled`**: `Spec => []QuietActiveIsInstalled`, if `Orderly`:
  requests come through the API, with new ids and one at a time (no annotate, no
  reuse, no overlap), Jobs do not expire (ttl), there is one FE (no recreate, no
  linger) and nobody asks for a rebuild or spoils the artifact (no rebuild, no
  tamper).  The FE may be edited and deleted, Jobs and calls may fail and the
  controller may restart at any time.  `publishing` is such an instance.
* The registry is changed by Jobs, the status is written by a reconcile that may
  have read the Job, the FE and its requests long ago, and the retained publish
  section is written over whatever is there.  `PublishedInv` holds while the FE
  is there and not being deleted.  It says what a copy of the FE is worth
  (`CopiesInv`: no newer than the FE, of its source if of its generation, with
  requests that were made for the spec of their generation) and what a
  reconcile has at each of its steps (`ShapeInv`); that the artifact and the
  Jobs are as their makers left them (`ObjectsInv`), a request that the API is
  about to write is new (`IdsInv`), and the Jobs that ended well have a time
  that has passed (`TimesInv`).  A publish request is open, in whichever copy,
  as long as a Job may be made for it; `OpenInv` says what the reconcile that
  would make it has found, and that nothing about the request has changed since.  One that
  waits for its artifact is Pending when the controller has caught up
  (`PendingAtRest`, from `RestInv`).  Of all requests, at most one has a Job
  that runs or may still get one, and it is the last (`ActiveInv`).  Every
  status, on the FE, in a copy or about to be written, says of the Jobs it
  speaks of what is so, and calls a publish active only if it ended after the
  unpublish it knows of (`StatusesInv`); and what the last publish Job has
  installed is there unless an unpublish came later or is under way
  (`RegistryInv`).
* The conditions.  Without ttl it fails as said above, and TLC finds a Ready FE
  at rest that calls active what is not installed with each of rebuild,
  recreate, linger, annotate and overlap, alone.  With tamper or reuse it found
  none within the few events it was given; they are conditions since the proof
  identifies an artifact by its key and a request by its id.
* TLC checked `PublishedInv` before it was proved: on the instance of `publishing` to
  the end, and with failed Jobs and calls and four events to the end; with
  deletion and edits, and with restarts and two attempts, it searched some four
  million states each, without exhausting them.

`FrontendIntegration_proofs` proves, from the assumptions of `FiWorld` (the
first specs are specs, `None` and `Legacy` are none, and an error is not
`None`):

* **`TypeCorrectness`**: `Spec => []TypeOK`, for any sets of specs and events.
  Here
  `TypeOK` is inductive as it stands: a status, a bundle or a Job gets its hash
  from a copy of an FI, or from the Job's own name.

* **`DisabledIsOff`**, **`SucceededIsServed`**, **`FailedHasReason`**: `Spec =>
  []P` for the three `Quiet...` properties.  `RestInv` is built like that of the
  FE: unless a change of the FI is unseen, an event queued or a runner at work
  (`Calm`), what the reconcile has established at its next call is true of the
  Jobs and the bundle (`OnTheWay`).  A status that says Failed needs more, and
  not only at rest, since it outlives the Job it speaks of: it names a spec
  whose Job was made and an error (`FailuresHaveJobs`), and that the Job was
  the FI's own needs that there is one FI only (`OneOwner`).  TLC checked
  `RestInv` on the instance of `integrating` first.

`Migration_proofs` proves, for any number of FIs, any frontends and any number
of events:

* **`TypeCorrectness`**: `Spec => []TypeOK`, where no FI has the name `None`.
  That the intent of an FE is of a generation there was is not inductive: the
  FE may be removed and made anew, from generation 1, while the migrator has
  the generation of the old one in hand.  `Generations` bounds it: each
  generation but the first comes from an event or from a patch of the migrator,
  a run patches an FE once (`PatchesOnce`: what it has done with is not `ToPatch`
  any more), and each run but the first takes an upgrade, which is an event;
  the first finds no FE of its own to patch.  `RunTyped` says that the FIs of
  the list are FIs and that the one in hand is neither on it nor failed.

* **`DeletesAfterHandingOver`**, **`LeavesForeignAlone`**,
  **`SucceedsWhenComplete`**: the three action properties, from one invariant.
  `InHand` says what the migrator knows at each call of the FI it has in hand,
  unless people touched the FE meanwhile: from `patch` on the FE is its own, at
  `intent` it is also the one the upsert returned, at `delete` it asks to be
  published as it is.  `Scanned` says that every FI that was listed
  is still to do, in hand, failed, or gone with its FE left behind; `OldUids`,
  that an FI made anew has another uid than the listed one; `Shapes` is the
  part of the type invariant the others need.

* **`RoutesAreOpen`**: `Spec => []RoutesOpenTheirPages`, and
  **`MigratesEverything`**: `Spec => NothingLost`.  The first holds of every
  input of the renderer with sequences for menus and children (`RouteOpens`); that
  FIs and FEs have such frontends, whoever wrote or patched them, is
  `FrontendsInv`.  For the second, `CarriedInv` says that from the upsert to the
  deletion the FE has the menus and the pages that the FI in hand asks for,
  unless people touched it, *as far as these are not empty*: a merge patch
  does not write an empty list.  An FI with a menu that the webhook lets pass is
  migrated to menus and pages that are not empty (`MigratedHas`), so that nothing
  of an older FE shows through.  TLC checked both parts of the invariant on the
  instance of `migrating`.

`Manifest_proofs` has what these two need of the renderer and the translation, for
menus and pages of any number and shape:

* the bindings of all menus are a `FlattenSeq`, which is whatever satisfies its
  recursive equation.  `JoinsExists` shows that something does, by
  `InductionUpTo`, which has a set for the predicate and rests on least
  numbers, since the library's induction theorems cannot be used; `FlattenSeqHas`, that it has the members of all its sequences;
  `FlattenSeqOfOnes`, that sequences of one member give the sequence of them, which
  is what menus with one placement come to.
* `PageIdsTell`: in a manifest that resolves, bindings with one page id have one
  placement and one page, so that of the rendered pages a route opens only the
  one it means.
* `MigratedBindings`, `MigratedPageOf`, `MigratedResolves` and `MigratedServes`:
  the FE made of an FI has the same bindings; it has a page of each key that is
  bound, once, the first one of that key, with all the placements it is bound in;
  so it renders if the FI does, and serves the same.

Only model-checked: `Converges` of both controllers, `PublishAnswered` and
`ScanEnds`.  Liveness under fairness is out of the prover's reach.

## Not modelled, and the plan

What a next step would take up, in this order:

1. **Two FEs** with one package name: the shared artifact ConfigMap and its
   owner.
2. **Names**: `bounded_name` cuts names to 63 characters; which two may collide.

Not modelled, and why:

* `crates/extension-package-core` (identity, roles, archive): pure functions
  from an FE to files, without a state, a decision or an order that another
  part depends on; its unit tests compare their output.
* Titles, icons, columns and the JSON text of manifests; the contents of
  archives: data that no property tells apart.  A page that two menus of one
  placement share gets one title when it is migrated.
* The webhook's server, TLS and HTTP; its verdict is `Admitted`.  The chart
  leaves it off by default, so that FIs need not be admitted.
* `build-service-client`: one HTTP call, whose outcomes are those of the build
  steps.
* The chart, scripts and xtask: deployment and generated CRDs.
* List, get and download of the API, which change nothing; kubeconfig plumbing.
