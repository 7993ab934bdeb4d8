# TLA+ specifications of crd-bootstrap

crd-bootstrap is a Kubernetes controller that keeps CustomResourceDefinitions up to date. A `Bootstrap`
object names a source (a ConfigMap, a URL, a GitHub or GitLab release, a Helm chart) and a constraint;
the controller polls the source, fetches the manifest of a new version, checks it for breaking changes,
validates it against templates, applies it by server-side apply (to its own or to another cluster), and
records in the status what it applied. On deletion it prunes the CRDs it owns.

Nothing in that is computationally hard. What is hard is that every step is a remote call: upstreams,
users, informers, other Bootstraps and crashes act between any two of them, the record is written by
three patches at the very end, and the next attempt believes that record.

## Inventory

| Part (source) | State it keeps | Operations | Interacts with | Must be true of it |
|---|---|---|---|---|
| Controller (`internal/controller/bootstrap_controller.go`, `apply.go`) | none between calls but the work queue; during one, the object as read and a working copy | `Reconcile`, `reconcileDelete`, the deferred patch, `detectBreakingChanges`, `validateObjects`, `readObjects`, `NewResourceManager` | API server, informers, source chain, target cluster | the record names what is installed; it only rolls forward; breaking updates are blocked; deletion prunes all and only what is owned; nothing is forgotten |
| API type (`api/v1alpha1/bootstrap_types.go`) | spec and status of each Bootstrap | `GetRequeueAfter` | controller, users | the status says what happened |
| Source contract and chain (`pkg/source/source.go`, `cmd/main.go`) | none | `HasUpdate`, `FetchCRD`, handed on until a provider claims the spec | controller, upstreams | the content fetched is that of the version answered |
| ConfigMap, GitHub, GitLab, Helm, URL sources (`pkg/source/*`) | none | the same two, each against its upstream | upstreams | semver comparison, constraint, digest |
| Breaking change detector (`pkg/breaking/detector.go`) | the findings of one comparison | `DetectBreakingChanges` | controller, libopenapi | nothing breaking passes, nothing harmless is blocked |
| HTTP authentication (`pkg/source/auth`, and Helm's own in `helm.go`) | none | `ConstructAuthenticatedClient`, `configureCredentials` | secrets, the shared `http.DefaultClient` | a request has a timeout wherever the code means it to; credentials do not stay on disk |
| Files of an attempt (`bootstrap_controller.go`, `url.go`, `helm.go`) | temporary files and directories | created and removed by defers | all providers | what outlives an attempt is known |
| Charts (`helm.go`) | the bundle being written | `createCrdYaml`, `appendFilesToCrds` | file system | the bundle holds the files of the crds folders |
| Manager (`cmd/main.go`) | leader lease | start-up | controller-runtime | not modelled but for the chain and the shared client: a restart is `Crash` |
| Generated code, chart, Tilt, Makefile, samples, tests | | | | not modelled: no behaviour of their own |

The hard behaviours, each at its line in the `hazards` of PROJECT.json:

- *two calls for one fact*: the upstream moves between `HasUpdate` and `FetchCRD`; a URL is downloaded twice;
- *late record*: the finalizer, the conditions and the status are stored after the CRDs were applied, by
  three patches, and a crash, a failure or a deletion may come first;
- *stale reads*: the object, the installed CRDs and the list of CRDs to prune come from informers, which may
  trail the last patch, and what was read is used many calls later;
- *aliasing*: the map of counters is the one of the status, incremented before anything is applied;
- *shared cluster*: two Bootstraps may define the same CRD and force conflicts against each other;
- *wrong cluster*: comparison and pruning use the local client although another cluster may be the target;
- *scheduling*: only changes of the generation wake the controller; everything else hangs on a timer or a back-off;
- *panics*: two providers and the validation of templates can panic, through the deferred patch;
- *what a call holds*: a client whose timeout another provider may have set, credentials and downloads in
  temporary files, removed by defers that an early return does not reach, and whose own failure is an error
  in four places and lost in a fifth.

## Modules

```
Sources ---- SourceContract ---- MCSourceContract
   |  \                \
   |   Sources_proofs -- SourceContract_proofs
   |                 \-------------------.
   |                                      \
Reconciler -- ReconcilerProperties -- Reconciler_proofs -- Cluster_proofs -- Scheduling_proofs
                 |   \                                    /
                 |    Views (instance of Ledger) --------'
                 |         \
              MCReconciler -- MCViews
Detector ---- Detector_proofs, MCDetector
HelmChart --- Calls ---- MCCalls
   |              \
   HelmChart_proofs -- Calls_proofs
```

**Sources** has no variables. It holds the answers of the providers as operators over the state of an
upstream: `HasUpdate`, `FetchCRD`, the order of the chain (`Chain`, `Handler`), the semver comparison the
four versioned providers repeat (`SemverUpdate`). A version is a natural number, ordered like semver; a
content is a manifest and at once the digest of it. A chart of an HTTP repository is fetched whatever is
published, as helm.go:91 downloads the reference itself, and is empty, as it is never expanded. `Panic` is an outcome of its own: the Helm provider
indexes an empty slice when no version satisfies the constraint, and the GitLab provider closes a nil body
after a failed request.

**SourceContract** is the protocol of the two calls alone: ask, then fetch, with upstreams that release,
withdraw and re-mark versions in between, and an editor who switches the source between two attempts.
All providers take part.

**Reconciler** is the controller with one worker. `pc` is the next remote call of the worker, `work` is the
reconciliation in progress (the object as read, the working copy, what the source answered, the CRDs still
to apply or delete). One action is one remote call with the local computation up to the next:

| `pc` | action | code (`bootstrap_controller.go`) |
|---|---|---|
| idle | `BeginIgnored`, `BeginReconcile`, `BeginDelete`, `BeginFails` (`Get` or `List` fails) | 83-110, 248-268 |
| check | `Check` (`HasUpdate`) | 128-142 |
| fetch | `Fetch` (`MkdirTemp`, `FetchCRD`) | 144-158 |
| inspect | `Inspect` (resource manager, counting, breaking changes, template) | 167-222 |
| apply | `Apply(c)`, `ApplyFails`, `Wait` | 224-245 |
| conditions, metadata, status | `PatchConditions`, `PatchMetadata`, `PatchStatus`: the deferred serial patch | 113-126 |
| prune | `PruneCRD(c)`, `PruneFails(c)`, `DropFinalizer` | 251-283 |
| done | `Finish`: what controller-runtime does with the result | 62-67, 97-102, 245 |

Every error path of `Reconcile` and `reconcileDelete` is there, the failure to remove the temporary directory
(161-164), which turns a success into a retry, included. Each failing call is a disjunct guarded by `Fault` (a
bounded number of failed calls), and sets the condition the code sets there, or none where the code sets none.
A panic (of a provider, or of the validation for a version without a schema) is an error that sets no
condition: the deferred patch runs, and controller-runtime recovers and retries. The environment
creates, edits and deletes objects, moves upstreams, delivers watch events (`Sync`, `SyncCRD`, when
`CacheLag`), fires timers and crashes the process, between any two actions. `crds` is the content and the
owner label of each CRD in the local and in a remote cluster.

**ReconcilerProperties** states what the controller is expected to do. **Detector** follows the loop of
`DetectBreakingChanges` version by version for a CRD that is upgraded for ever; which edits break is a
constant, as libopenapi decides it. `Reconciler` uses the result of the detector as the constant relations
`Breaks` (findings) and `Incomparable` (an error); `Detector` says what they promise.

**Views** adds one history variable to `Reconciler`: what the informer of CRDs showed when the worker looked,
which it does once for a whole bundle (`detectBreakingChanges`) or list (`reconcileDelete`), and for which CRDs
it trailed the API server at that moment. No action depends on it (`ViewNext` is `Next` with `Look`, written out action by action so that TLC counts each;
`ViewsWatch` proves the two the same). The properties about CRDs are stated with it,
so that they say what the code can be held to: a CRD is as it *is* in the cluster, however much later the apply or
the deletion comes, except where the informer had not caught up; there it is as it was shown. With informers that
do not trail, `Item` is the cluster. `BreakingBlocked`, `PruneComplete`, `PruneOnlyOwned` and `ImplementsLedger`
are in this module, and `RollsForward`, in ReconcilerProperties, makes the same exception for the status that an
attempt was handed.

**Ledger** is the abstract specification of the controller: the CRDs on the shelf of each cluster, what every
Bootstrap has on record, copies of both that may be old line by line, and the desk of a clerk: whom he works for,
and what he found in the copies when he looked. Six kinds of entry change shelf and record. A record is made only
of a version later than the one the clerk found, and only while the whole bundle *is* on a shelf; only what the
clerk saw to be of the Bootstrap he closes is taken off; nothing on the local shelf is replaced by what he saw it
cannot be compared with. There is no queue, upstream, phase of an attempt or patch in it. `Views` instantiates it
with `shelf <- crds`, the stored objects as `record`, the informers as `copy` and the job of the worker as `desk`,
and `ImplementsLedger` says that each step of the controller and of its environment is one entry or none.

**HelmChart** has no variables. It is the walk of the Helm provider over the crds folders of a chart: a chart
is a set of paths, the bundle keeps of each file the crds folders it was appended for. `TimesWritten` is the
reference, without recursion: once for every place of the path where `crds` stands.

**Calls** is what the calls of an attempt hold while they run. One worker makes one attempt after another:
`HasUpdate`, `FetchCRD`, and the rest of `Reconcile` as one step (`Finish`). What the calls return is the
subject of `Sources`, so every answer is possible here; what counts is the client of each request and whether
it has a timeout, the secret read anew in each phase, and the temporary files, any removal of which may fail
(`MaxStuck` of them):

| `pc` | action | code |
|---|---|---|
| idle | `Take` | url.go:61, `MkdirTemp("crd-url")` |
| prepare | `Refuse`, `ReadCredentials` (check), `SaveCredentials` (fetch), `Send`, `ReadConfigMap` | authenticated_client.go:16-31, helm.go:110-141, 301-331, 383-410, 431-462 |
| credentials | `SendAuthorised`, `CredentialsFail` | helm.go:399-428, 442-493 |
| waiting | `Respond` (`NextRequest`, `Rejected`, `CallFails`, `Answered`), `Expire` | github.go:137, gitlab.go:184-238, helm.go:328-381, 91-107 |
| working | `Finish` | bootstrap_controller.go:160-165 |

The two credential actions both make a file called config.json. The check reads the credentials straight from the
secret and its file stays empty ("config.json"); the fetch saves them to its file ("credentials", helm.go:460).
`stuck` is the set of files a removal of which failed. A defer whose removal fails makes an error of what was a
success: of the check (url.go:67, helm.go:400), of the fetch (helm.go:86), of the whole attempt
(bootstrap_controller.go:161-164, "not removed"). The exception is helm.go:443: `configureOCICredentials` has no
named result, so the error its defer joins is lost, the fetch goes on, and the attempt may end well with the
registry credentials left on disk (`SendAuthorised`).

`timeout` is the one of `http.DefaultClient`, which `main` hands to all providers: the GitHub and GitLab
providers set it (github.go:122, gitlab.go:122) whenever they check a public release, and it stays set for
everybody else until the process dies. With a secret, oauth2 makes a client of its own, which may or may not
copy that timeout (a choice in the model), and the provider sets it on that one only.

`Rejected` is the return at helm.go:334, before the defer that closes the body: the connection is kept like a
file in `files`, until the process dies. A client with a timeout ends it by itself, so `Rejected` is for those
without. The file that url.go:75 opens and never closes is left to the garbage collector and not modelled.

### Abstractions

- External behaviour is modelled from how the code uses it. The API server: objects with uid, generation,
  finalizer and deletion; the status is a subresource, so a status patch does not change the generation.
  fluxcd's `SerialPatcher`: conditions, metadata and status as three merge patches of what differs, each
  skipped when nothing does, the later ones attempted although an earlier one failed. controller-runtime:
  one worker, one key at a time, a panic recovered into an error, errors retried with back-off.
- One revision is enough to tell what a ConfigMap, a tag or a chart version holds: contents published under
  a version do not change. A page behind a URL may change at any time.
- CRDs change only through the controller; edits by hand, and the drift they cause, are left out. Deleting a
  CRD takes effect at once.
- Messages and timestamps are left out. `Calls` knows files by kind and attempt, and secrets by their keys.
- `Calls` and `Reconciler` are not composed: what a call returns does not depend on how long it took or on the
  files it left, so the product would only multiply states. `Reconciler` assumes that calls return, and
  `Calls` says which may not.
- The clients of Helm and ORAS are external; whether they have a timeout is a choice.
- A failed call changes nothing remotely; a call that succeeded although its answer was lost is covered by
  the crash after it.

## Runs

`tlc -config X.cfg M` with the module and configuration named in PROJECT.json. The instances have three
versions with a manifest each: the second brings a second CRD and fails the templates; the third breaks the
first CRD, has a second one the detector cannot compare, and a version without a schema, for which the
validation panics. So partial applications, breaking updates, failed validations, rollbacks and withdrawn
releases all occur with three versions and two CRDs; a fourth would only repeat one of them.

| Run | Bounds | Checked |
|---|---|---|
| MCSourceContract | 3 upstream changes, all providers, 8 settings | `VersionMatchesContent`, `RollsForward`, `WithinSpec` |
| MCDetector | 2 CRD versions, 3 schemas, any number of upgrades | `VisitedIsSafe`, `SafeUpgrade`, `BlockedForReason`, `Reapplicable` |
| MCFaults | 1 Bootstrap, 3 specs, 3 edits, 1 release, 1 failed call, 1 crash | `StatusIsBacked`, `AlwaysScheduled`, `RollsForward`, `BreakingBlocked`, `PruneComplete` |
| MCShared | 2 Bootstraps with the same CRDs, 3 edits, 1 release, 1 failed call | `AttemptIsInstalled`, `PruneOnlyOwned`, `ImplementsLedger` |
| MCVariety | 4 specs (GitLab, Helm, ConfigMap to a remote cluster, no interval; templates), trailing informers, 2 edits, 1 release, upstreams at the first and the third version and withdrawn ones, counters to 2, fairness | `AlwaysScheduled`, `RecordedIsInstalled`, `DeletionCompletes`, `RollsForward`, `BreakingBlocked`, `PruneComplete`, `ImplementsLedger` |
| MCConverges | 3 specs (GitHub, GitLab, URL), 2 edits, 1 release, 1 failed call, 1 crash, fairness | `RollsForward`, `DeletionCompletes`, `Converges` |
| MCCalls | 7 Bootstraps with 6 kinds of source (an HTTP repository with and without secret), 2 attempts, 1 edit of a secret, 1 crash, 1 failed removal, charts of 6 files and of 3 | `WhoMayHang`, `LeftBehind`, `ConnectionsKept`, `BundleMatchesChart`, `WorkerComesBack` |

MCSourceContract, MCDetector, MCFaults and MCCalls also check the type invariant of their module. MCVariety has
no failed call of its own: withdrawn releases and configmaps make checks and fetches fail and panic, and the
prune list of a trailing informer makes deletions fail.

Three edits are a creation, an edit and a deletion, or a deletion and a second object of the same name. One
release is enough for a rollback, since the first state of the upstream is any. One failed call and one
crash each reach every point of an attempt; a second of either only meets the state of a later attempt,
which starts from the object again. `MaxCount` lets the counters of applied CRDs saturate: the code never
compares them with anything. In MCCalls two attempts (and one more that a crash cuts off) are enough for one
provider to set the timeout the next one uses, and one failed removal reaches every file; the charts have a file under two crds folders, one of a
dependency, one that is no manifest, and a file that is called crds without being a folder.

`CHECK_DEADLOCK FALSE` in the runs of `Reconciler`: without objects, or with only settled ones that do not
poll, the controller rests, and the edits are bounded.

### Fairness

`FairViewSpec` asks (`Fairness`, in Reconciler) for weak fairness of the worker (it is a goroutine; each of its calls has a context and
returns), of every timer, and of every watch event (the API server resends what an informer missed); and for
strong fairness of `Begin(b)`, because the work queue is first in first out while `b` is repeatedly not
startable, another key being worked on. Users, upstreams and crashes are not fair. Under that,
`DeletionCompletes` says a deleted object goes, although list and deletion may fail and a CRD of a stale list
may be gone already, and `Converges` says an update that can be installed is not ignored for ever. A source
that hangs for ever is outside of what this fairness allows; it is the subject of `Calls`.

In `Calls` the worker is weakly fair in everything that is its own or the clock's: it goes on when it can, and
a timeout that is set fires. `Respond` is not fair: no server ever has to answer. `WorkerComesBack` says that
then the worker is idle again and again, unless it waits for a request without a timeout, and `WhoMayHang`
says which ones those can be. One such request holds up every Bootstrap, as the controller has one worker.

### Where documents and code differ

Five runs are expected to find a violation; each checks what a document says of the program:

- **MCDigestPinned**: `URL.FetchCRD` downloads again and does not compare digests, so a page that changes
  between the two downloads is applied under a pinned digest (README.md:20).
- **MCCounted**: a blocked attempt counts CRDs that were never applied (bootstrap_types.go:208), because the
  counters alias the status and are incremented first.
- **MCOrphans**: a Bootstrap deleted during its first attempt has no finalizer yet; it disappears and its
  CRDs stay (README.md:266).
- **MCSameName**: the owner label lacks the namespace; deleting a Bootstrap prunes the CRDs of its namesake.
- **MCRemoteBreaking**: installed CRDs are read from the local cluster whatever the target is, so breaking
  updates reach a remote one (README.md:302).

Other differences met while modelling, which the modules show but no run is kept for:

- README.md:327 says that with `ignoreBreakingChanges` the CRD is applied anyway. An error of the detector is not
  ignored: one CRD that cannot be compared blocks its bundle (`Inspect`).
- helm.go:155 says all YAML files that contain CRDs are found. Every file in a crds folder is appended, README
  and all, and those in a crds folder inside another one twice (`BundleMatchesChart`).
- A failed fetch leaves its temporary directory, each check of an HTTP chart repository leaves a copy of the
  index, and a crash may leave a file of registry credentials. So may an attempt that went well: the error of a
  failed removal at helm.go:443 is assigned to a variable nobody returns, unlike the one at helm.go:400, whose
  function names its result (`LeftBehind`). A secret with a password but no
  username passes the check of an HTTP repository (which sends the password as a bearer token) and fails every
  fetch (which uses both for basic authentication), a directory each time.
- A check of an HTTP repository that gets a bad status leaves its connection open, until the process ends or
  a timeout does it, which the provider does not set but another one may have set (`ConnectionsKept`).
- A CRD version without a schema makes the template validation panic, also under `continueOnValidationError`.
- A check without an update sets Ready to "Successfully applied crd(s)" (135), also after an attempt that failed.
- README.md:257 says a failed validation stops until a user intervenes; the error is returned and retried.
- README.md:297: pruning with `spec.kubeConfig` looks for CRDs in the local cluster, so those of a remote target
  stay (`PruneComplete` is about the local ones), and pointing an up-to-date Bootstrap at another cluster installs
  nothing there.
- README.md:98 says versions only roll forward. The *record* does if the informer shows the last patch; an attempt
  that was handed a stale status may record an earlier one, and only such an attempt may (`RollsForward`). What is
  *installed* does not: CRDs of an attempt that failed after the apply are unknown to the next.
- README.md:266, 303: with a trailing informer, a CRD the informer does not show yet is neither compared nor pruned,
  and one that it shows with its earlier label is pruned for an owner that has lost it (`Item`).
- README.md:144: charts of HTTP repositories are never expanded, so their bundle is empty and recorded as
  applied. `VersionMatchesContent` allows for that.
- helm.go:233 and configmap/source.go:123 say the form of a revision cannot be switched; from a version to a
  URL it can (`RollsForward` allows it), back it cannot (`RollsForward` forbids it).
- source.go:20 says `HasUpdate` answers false when there is nothing to apply; the Helm provider panics.
- bootstrap_controller.go:121 says the observed generation is set when the object is ready or stalled; it is
  set on every return.

## Proofs

TLAPS proves, for any versions, manifests, CRDs, Bootstraps, bounds and upstreams that satisfy the
assumptions of the modules:

- `Detector_proofs`: `LoopInvariant` (versions the loop has passed over without a finding are safe) and from
  it `UpgradesAreSafe`. `SafeUpgrade` is not inductive by itself: the step that installs sees only that
  nothing was found, so what the loop established so far has to be carried along.
- `Sources_proofs`: lemmas about the providers. `VersionedUpdate`: an update of a versioned provider is a
  version the constraint admits, later than the applied one. `VersionedFetch`: what is fetched for a version
  is the manifest published under it.
- `SourceContract_proofs`: `ContentsMatch`, `RecordsRollForward`, `RecordsWithinSpec`, for all providers. They
  rest on the invariant `Answered`: what `HasUpdate` found out about the spec and the record (admitted, later,
  pinned) still holds when `FetchCRD` is called, as neither changes in between; about the upstream, which does
  change, it says nothing, and what the fetch returns is settled by `VersionedFetch` alone.
- `Reconciler_proofs`: `TypeCorrect`, `AttemptsAreInstalled`, `RecordsAreTrue`. `RecordedIsInstalled` is an
  action property about the status patch, which happens four calls after the last apply; the invariant
  `AttemptIsInstalled` carries what was applied through the wait and the first two patches. It holds because
  one worker handles one key at a time: nobody else applies in between. Nothing is assumed, about informers
  or sources: what is installed is the manifest that was *fetched*, and for ConfigMaps, releases and OCI charts
  (`Versioned`) that is the manifest of the revision recorded. For a URL it need not be (the second download
  may bring something else: MCDigestPinned), and for an HTTP chart it is an empty bundle.
  `VersionsRollForward` rests on the invariant `AttemptForward`: what will be recorded is what was read, a digest,
  or a later version than what was read. The spec may go from any kind of source to any other in between, and
  nothing is assumed about informers: if the record goes back, the attempt had read an older one.
- `Detector_proofs`, further: `BlocksHaveReasons` and `InstalledIsReapplicable`, from `FindingsHaveCauses`: each
  finding made so far has a version that accounts for it.
- `Cluster_proofs`: `OnlyOwnedIsPruned`, `NothingIsBroken`, `PruningIsComplete` and `LedgerIsImplemented`, all
  however far the informers trail. They rest on `ViewInv` (`ViewsAreKnown`), which relates what the worker saw at one
  call to the cluster several calls later: a CRD that was not late when it looked is still as it was seen, or was
  written by this worker in this attempt, because nobody else writes CRDs; so a CRD still to be applied does not break
  what is there (`ApplyKnown`), and a CRD still to be pruned was seen with the label of the object being deleted, while
  one that was seen with it is still to be pruned (`PruneKnown`). Assumed only where the code is wrong without:
  `LocalSpecs` (no `kubeConfig`) for the breaking changes, as MCRemoteBreaking shows, and `OwnNames` (no namesakes) for
  the owner label, as MCSameName shows; the completeness of pruning needs neither. The refinement uses
  `AttemptIsInstalled` and `AttemptForward` for the entry of a record, `ViewInv` for the others, and the informers as
  the copies of the ledger; it assumes `OwnNames`, and `VersionedSpecs`, as the ledger enters what the record names,
  which need not be what a URL sent (MCDigestPinned).
- `Scheduling_proofs`: `NobodyIsForgotten` and `StatusesAreBacked`, both however far the informers trail.
  `AlwaysScheduled` says that an object in need is queued, delayed, in work, or that an *event* for it is on its
  way: a difference between informer and API server that the predicate of the watch drops does not count. It is
  not inductive: an object in the hands of the worker must come out of it scheduled, so `SchedulingInv` follows
  the attempt through its three patches (`JobKnown`): whatever ends it returns an error, asks for a timer, or
  has stored a finalizer on an object nobody has edited since. With trailing informers the worker may have been
  shown an old object, so the invariant also says what the informer can show (`InformersKnown`): an earlier
  state of the same object, with a generation that tells every edit, or an object that is gone. One that it
  shows as being deleted is there until the worker drops its finalizer (`StillThere`); and a worker that prunes
  for an object that is gone finds no finalizer on the next one of its name. Nothing is assumed.
  `StatusIsBacked` holds for a single Bootstrap, local and versioned; with two, the other one's deletion may prune
  what this one has recorded. Its invariant `RecordKnown` is about the same late pruning: the next object of the
  name has nothing on record yet, so whatever is pruned backs no status.
- `HelmChart_proofs`: `AppendedFiles`, `BundledFiles` and `TimesBundled`, what the two walks compute for every
  finite chart. The induction theorems of the library take an operator, so the induction over the folders is
  made without one: the folders at which two functions differ, if there are any, have a deepest one
  (`DepthInduction`, from the well-founded order of finite sets), and at that one the recursive equation makes
  them agree. So the equation has one solution, and the closed form is shown to be it.
- `Calls_proofs`: `TypeCorrect`; `BundlesMatch` from `BundleKnown` (the bundle is the one of a chart or of the
  archive, and `BundledFiles` and `TimesBundled` say what is in it); `HangsAreKnown` from `CallsInv` (the client
  of a request in flight has the timeout the code gave it, and the default client has one since the first public
  release check of this process); `LeftoversAreKnown` from `FilesInv` (what the attempt in progress has on disk at
  each point of it, and which of it is there because a removal failed); and `ConnectionsAreKnown` from both: the log only grows, and a request that leaves its
  connection was made without a timeout, so no public release had been looked for. Assumed: nothing but the types
  of the constants, and that charts are finite sets of paths.

The assumptions on constants are named in the modules that declare them (`SourceAssumption`, `SettingsAssumption`,
`ReconcilerAssumption`, `ObjectAssumption`, `InstalledAssumption`, `EntryAssumption`, `DetectorAssumption`,
`CallsAssumption`, `ArchiveAssumption`), and TLC evaluates them in the runs. That every set of versions
has a greatest element (`SourceAssumption`, `SettingsAssumption`) stands for the finiteness of what an upstream publishes.

Only model-checked: the liveness properties `DeletionCompletes`, `Converges` and `WorkerComesBack`, which are
beyond the prover. No theorem assumes anything about `CacheLag`. TLC checks trailing informers in MCVariety; MCFaults
and MCShared have informers that do not trail, since their failures, crashes and two Bootstraps with trailing ones
exceed the time of a run, and that product is left to the theorems.

## Not modelled

- *Manager start-up and leader election*: wiring of controller-runtime. Two managers at once are possible only
  while a lease changes hands, which controller-runtime guards and nothing in this repository handles.
- *Drift*: CRDs edited or deleted by hand. The controller does not look at them until the next version.
- *Generated deep copies, tests, packaging*: no behaviour of their own.

## Plan

What could be added, in this order: the detector inside `Reconciler`, with `Breaks` and `Incomparable` computed
per CRD by its loop; bundles that define a CRD twice; a second manager whose lease has expired.
