----------------------------- MODULE Reconciler -----------------------------
(***************************************************************************)
(* The Bootstrap controller of internal/controller: one worker takes keys  *)
(* from a work queue and reconciles them against the API server, the       *)
(* upstream source and a target cluster.                                   *)
(*                                                                         *)
(* An action is one remote call of the worker together with the local      *)
(* computation up to the next one; users, upstreams, the informer caches   *)
(* and crashes interleave between any two of them.                         *)
(***************************************************************************)
EXTENDS Sources

CONSTANTS
  Bootstraps,     \* namespaced names of Bootstrap objects
  NameOf,         \* metadata.name of each, without its namespace
  CRDNames,       \* names of CustomResourceDefinitions
  Bundle,         \* the CRDs each manifest defines
  Breaks,         \* <<c, m, n>>: going from m to n breaks the schema of c
  Incomparable,   \* <<c, m, n>>: the detector fails on m and n for c
  TemplateFails,  \* the manifests the template of a spec does not validate against
  TemplatePanics, \* those with a version without a schema to validate against
  Specs,          \* the specs users write
  Upstreams,      \* the states the upstreams pass through
  CacheLag,       \* whether the informer caches may trail the API server
  MaxEdits, MaxReleases, MaxFaults, MaxCrashes,  \* bounds on the environment
  MaxCount        \* bound: counters of applied CRDs saturate here

BootstrapSpec ==
  [source   : SUBSET Kinds,
   allowed  : SUBSET Versions,             \* what spec.version.semver admits
   digest   : Contents \cup {Gone},
   interval : BOOLEAN,                     \* FALSE when it is zero
   template : BOOLEAN,
   prune    : BOOLEAN,
   remote   : BOOLEAN,                     \* spec.kubeConfig is set
   continueOnValidationError : BOOLEAN,
   ignoreBreakingChanges     : BOOLEAN]

ASSUME ReconcilerAssumption ==
  /\ Gone \notin Bootstraps
  /\ Bundle \in [Contents -> SUBSET CRDNames]
  /\ Bundle[Empty] = {}
  /\ Breaks \cup Incomparable \subseteq CRDNames \X Contents \X Contents
  /\ \A c \in CRDNames, m \in Contents : <<c, m, m>> \notin Breaks \cup Incomparable
  /\ TemplateFails \cap TemplatePanics = {}
  /\ Specs \subseteq BootstrapSpec
  /\ Upstreams \subseteq Upstream
  /\ CacheLag \in BOOLEAN
  /\ {MaxEdits, MaxReleases, MaxFaults, MaxCrashes, MaxCount} \subseteq Nat
  /\ MaxCount > 0

VARIABLES
  api,       \* Bootstrap objects in the API server
  cache,     \* the same objects in the controller's informer
  crds,      \* CustomResourceDefinitions in the local and the remote cluster
  crdCache,  \* those of the local cluster in the controller's informer
  upstream,  \* what the upstreams hold
  queue,     \* keys ready to be reconciled
  delayed,   \* keys to be queued later: RequeueAfter, or back-off after an error
  pc,        \* the next call of the worker
  work,      \* the reconciliation in progress, Gone when idle
  used       \* how much of each bound the environment has used

vars == <<api, cache, crds, crdCache, upstream, queue, delayed, pc, work, used>>

-----------------------------------------------------------------------------
Reasons == {"Unknown", "Succeeded", "TempFolderFailedToCreate", "CRDFetchFailed",
            "ResourceManagerCreateFailed", "ReadingObjectsToApplyFailed",
            "BreakingChangeDetectionFailed", "BreakingChangeDetected",
            "CRDValidationFailed", "ApplyingCRDSFailed", "WaitingOnObjectsFailed"}

Object == [uid        : Nat,
           generation : Nat,
           deleting   : BOOLEAN,               \* deletionTimestamp is set
           finalizer  : BOOLEAN,
           spec       : Specs,
           ready      : Reasons,               \* reason of the Ready condition
           observed   : Nat,                   \* status.observedGeneration
           attempted  : Revision,              \* status.lastAttemptedRevision
           applied    : Revision,              \* status.lastAppliedRevision
           names      : [CRDNames -> 0..MaxCount],  \* status.lastAppliedCRDNames
           breaking   : SUBSET CRDNames]       \* status.breakingChanges

ASSUME ObjectAssumption == Gone \notin Object

(* A CRD and the Bootstrap that applied it last; the owner label carries   *)
(* only NameOf[by].                                                        *)
Installed == [content : Contents, by : Bootstraps]

ASSUME InstalledAssumption == Gone \notin Installed

Clusters == {"local", "remote"}

(* Of a reconciliation: the object as read, the working copy, what the     *)
(* source answered, the CRDs still to be applied or deleted, the result.   *)
Work == [key      : Bootstraps,
         read     : Object,
         obj      : Object,
         revision : Revision,
         content  : Contents \cup {Gone},
         todo     : SUBSET CRDNames,
         failed   : BOOLEAN]

Steps == {"idle", "check", "fetch", "inspect", "apply", "prune",
          "conditions", "metadata", "status", "done"}

TypeOK ==
  /\ api \in [Bootstraps -> Object \cup {Gone}]
  /\ cache \in [Bootstraps -> Object \cup {Gone}]
  /\ crds \in [Clusters -> [CRDNames -> Installed \cup {Gone}]]
  /\ crdCache \in [CRDNames -> Installed \cup {Gone}]
  /\ upstream \in Upstreams
  /\ queue \subseteq Bootstraps
  /\ delayed \subseteq Bootstraps
  /\ pc \in Steps
  /\ work \in IF pc = "idle" THEN {Gone} ELSE Work
  /\ pc \in {"inspect", "apply"} => work.content \in Contents
  /\ used \in [edits : Nat, releases : Nat, faults : Nat, crashes : Nat]

NewObject(uid, spec) ==
  [uid |-> uid, generation |-> 1, deleting |-> FALSE, finalizer |-> FALSE,
   spec |-> spec, ready |-> "Unknown", observed |-> 0, attempted |-> Gone,
   applied |-> Gone, names |-> [c \in CRDNames |-> 0], breaking |-> {}]

Init ==
  /\ api = [b \in Bootstraps |-> Gone]
  /\ cache = [b \in Bootstraps |-> Gone]
  /\ crds = [k \in Clusters |-> [c \in CRDNames |-> Gone]]
  /\ crdCache = [c \in CRDNames |-> Gone]
  /\ upstream \in Upstreams
  /\ queue = {}
  /\ delayed = {}
  /\ pc = "idle"
  /\ work = Gone
  /\ used = [edits |-> 0, releases |-> 0, faults |-> 0, crashes |-> 0]

-----------------------------------------------------------------------------
(* The API server and the informers.                                       *)

(* A slip: creations and deletions are filtered out as well. *)
MutEventUpdatesOnly(old, new) ==
  IF old = Gone \/ new = Gone THEN FALSE ELSE old.generation # new.generation

(* A slip: updates are. *)
MutEventNoUpdates(old, new) == (old = Gone) # (new = Gone)

(* The events GenerationChangedPredicate lets through; another uid is the  *)
(* deletion of one object and the creation of the next.                    *)
Event(old, new) ==
  \/ (old = Gone) # (new = Gone)
  \/ old # Gone /\ new # Gone /\ (old.uid # new.uid \/ old.generation # new.generation)

Observe(b, o) ==
  /\ cache' = [cache EXCEPT ![b] = o]
  /\ queue' = IF Event(cache[b], o) THEN queue \cup {b} ELSE queue

Store(b, o) ==
  /\ api' = [api EXCEPT ![b] = o]
  /\ IF CacheLag THEN UNCHANGED <<cache, queue>> ELSE Observe(b, o)

StoreCRD(k, c, i) ==
  /\ crds' = [crds EXCEPT ![k][c] = i]
  /\ crdCache' = IF k = "local" /\ ~CacheLag THEN [crdCache EXCEPT ![c] = i] ELSE crdCache

Sync(b) ==
  /\ CacheLag
  /\ cache[b] # api[b]
  /\ Observe(b, api[b])
  /\ UNCHANGED <<api, crds, crdCache, upstream, delayed, pc, work, used>>

SyncCRD(c) ==
  /\ CacheLag
  /\ crdCache[c] # crds["local"][c]
  /\ crdCache' = [crdCache EXCEPT ![c] = crds["local"][c]]
  /\ UNCHANGED <<api, cache, crds, upstream, queue, delayed, pc, work, used>>

-----------------------------------------------------------------------------
(* Users and upstreams.                                                    *)

Edit ==
  /\ used.edits < MaxEdits
  /\ used' = [used EXCEPT !.edits = @ + 1]
  /\ UNCHANGED <<crds, crdCache, upstream, delayed, pc, work>>

Create(b) ==
  /\ api[b] = Gone
  /\ Edit
  /\ \E spec \in Specs : Store(b, NewObject(used.edits + 1, spec))

EditSpec(b) ==
  /\ api[b] # Gone
  /\ Edit
  /\ \E spec \in Specs \ {api[b].spec} :
       Store(b, [api[b] EXCEPT !.spec = spec, !.generation = @ + 1])

(* An object without finalizers goes at once. *)
Delete(b) ==
  /\ api[b] # Gone
  /\ ~api[b].deleting
  /\ Edit
  /\ Store(b, IF api[b].finalizer
              THEN [api[b] EXCEPT !.deleting = TRUE, !.generation = @ + 1]
              ELSE Gone)

Release ==
  /\ used.releases < MaxReleases
  /\ upstream' \in Upstreams \ {upstream}
  /\ used' = [used EXCEPT !.releases = @ + 1]
  /\ UNCHANGED <<api, cache, crds, crdCache, queue, delayed, pc, work>>

-----------------------------------------------------------------------------
(* The worker.                                                             *)

Fault ==
  /\ used.faults < MaxFaults
  /\ used' = [used EXCEPT !.faults = @ + 1]

Target(spec) == IF spec.remote THEN "remote" ELSE "local"

(* Slips: the label selector is forgotten; the status is trusted instead.  *)
MutOwnedAll(b) == {c \in CRDNames : crdCache[c] # Gone}

MutOwnedListed(b) == {c \in CRDNames : crdCache[c] # Gone /\ cache[b].names[c] > 0}

(* The local CRDs whose owner label carries the name of b. *)
Owned(b) == {c \in CRDNames : /\ crdCache[c] # Gone
                              /\ NameOf[crdCache[c].by] = NameOf[b]}

Job(b, read, obj, todo) ==
  [key |-> b, read |-> read, obj |-> obj, revision |-> Gone, content |-> Gone,
   todo |-> todo, failed |-> FALSE]

TimerFires(b) ==
  /\ b \in delayed
  /\ delayed' = delayed \ {b}
  /\ queue' = queue \cup {b}
  /\ UNCHANGED <<api, cache, crds, crdCache, upstream, pc, work, used>>

(* One worker: a key waits until the one before it is done. *)
Take(b) ==
  /\ pc = "idle"
  /\ b \in queue
  /\ queue' = queue \ {b}
  /\ UNCHANGED <<api, cache, crds, crdCache, upstream, delayed, used>>

Ignored(o) == IF o = Gone THEN TRUE ELSE o.deleting /\ ~o.finalizer

BeginIgnored(b) ==
  /\ Take(b)
  /\ Ignored(cache[b])
  /\ UNCHANGED <<pc, work>>

(* The finalizer is added to the working copy only. *)
BeginReconcile(b) ==
  /\ Take(b)
  /\ ~Ignored(cache[b])
  /\ ~cache[b].deleting
  /\ pc' = "check"
  /\ work' = Job(b, cache[b], [cache[b] EXCEPT !.finalizer = TRUE], {})

BeginDelete(b) ==
  /\ Take(b)
  /\ ~Ignored(cache[b])
  /\ cache[b].deleting
  /\ pc' = "prune"
  /\ work' = Job(b, cache[b], [cache[b] EXCEPT !.finalizer = FALSE],
                 IF cache[b].spec.prune THEN Owned(b) ELSE {})

(* Reading the object fails, or listing what a deleted one owns: the error *)
(* is returned before there is anything to patch.                          *)
BeginFails(b) ==
  /\ pc = "idle"
  /\ b \in queue
  /\ queue' = queue \ {b}
  /\ delayed' = delayed \cup {b}
  /\ Fault
  /\ UNCHANGED <<api, cache, crds, crdCache, upstream, pc, work>>

Begin(b) == BeginIgnored(b) \/ BeginReconcile(b) \/ BeginDelete(b) \/ BeginFails(b)

(* Returning runs the deferred patch, whatever is returned. *)
Return(obj, failed) ==
  /\ pc' = "conditions"
  /\ work' = [work EXCEPT !.obj = [obj EXCEPT !.observed = obj.generation],
                          !.failed = failed]

Fail(reason) == Return([work.obj EXCEPT !.ready = reason], TRUE)

Answer == HasUpdate(upstream, work.obj.spec, work.obj.applied)

(* A slip: the revision is recorded as applied where it is attempted. *)
MutCheckRecords ==
  /\ pc = "check"
  /\ \/ /\ Answer.is = "update"
        /\ pc' = "fetch"
        /\ work' = [work EXCEPT !.revision = Answer.revision,
                                !.obj.applied = Answer.revision]
        /\ UNCHANGED used
     \/ /\ Answer.is # "update"
        /\ Return(work.obj, Answer.is # "none")
        /\ UNCHANGED used
  /\ UNCHANGED <<api, cache, crds, crdCache, upstream, queue, delayed>>

Check ==
  /\ pc = "check"
  /\ \/ /\ Answer.is = "update"
        /\ pc' = "fetch"
        /\ work' = [work EXCEPT !.revision = Answer.revision,
                                !.obj.attempted = Answer.revision]
        /\ UNCHANGED used
     \/ /\ Answer.is = "none"
        /\ Return([work.obj EXCEPT !.ready = "Succeeded"], FALSE)
        /\ UNCHANGED used
     \/ /\ Answer.is \in {"error", "panic"}
        /\ Return(work.obj, TRUE)
        /\ UNCHANGED used
     \/ Fault /\ Return(work.obj, TRUE)
  /\ UNCHANGED <<api, cache, crds, crdCache, upstream, queue, delayed>>

Fetched == FetchCRD(upstream, work.obj.spec, work.revision)

(* A slip: the error of the fetch is logged, not returned. *)
MutFetchUnchecked ==
  /\ pc = "fetch"
  /\ \/ /\ pc' = "inspect"
        /\ work' = [work EXCEPT !.content = Fetched]
        /\ UNCHANGED used
     \/ Fault /\ Fail("TempFolderFailedToCreate")
  /\ UNCHANGED <<api, cache, crds, crdCache, upstream, queue, delayed>>

(* A request to GitLab that fails makes the provider panic, not return.    *)
Fetch ==
  /\ pc = "fetch"
  /\ \/ /\ Fetched # Gone
        /\ pc' = "inspect"
        /\ work' = [work EXCEPT !.content = Fetched]
        /\ UNCHANGED used
     \/ /\ Fetched = Gone
        /\ IF FetchPanics(upstream, work.obj.spec, work.revision)
           THEN Return(work.obj, TRUE)
           ELSE Fail("CRDFetchFailed")
        /\ UNCHANGED used
     \/ /\ Fault
        /\ \E reason \in {"TempFolderFailedToCreate", "CRDFetchFailed"} : Fail(reason)
     \/ /\ Fault
        /\ Handler(work.obj.spec.source) = "gitlab"
        /\ Return(work.obj, TRUE)
  /\ UNCHANGED <<api, cache, crds, crdCache, upstream, queue, delayed>>

(* What readObjects keeps of the file: its CustomResourceDefinitions. *)
Objects == Bundle[work.content]

Increment(n) == IF n < MaxCount THEN n + 1 ELSE MaxCount

(* One more application of every CRD of the bundle. *)
Counted == [c \in CRDNames |-> IF c \in Objects THEN Increment(work.read.names[c])
                                                 ELSE work.read.names[c]]

(* `applied' is the map of the status itself unless that one is nil, so    *)
(* counting changes the working copy before anything is applied.           *)
Shared == \E c \in CRDNames : work.read.names[c] > 0

Counting == [work.obj EXCEPT !.names = IF Shared THEN Counted ELSE @]

(* A slip: only CRDs the status lists are compared. *)
MutBreakingListed == {c \in Objects :
                        /\ work.read.names[c] > 0 /\ crdCache[c] # Gone
                        /\ <<c, crdCache[c].content, work.content>> \in Breaks}

(* Against the local cluster as the cache shows it, wherever the target is. *)
Breaking == {c \in Objects :
               /\ crdCache[c] # Gone
               /\ <<c, crdCache[c].content, work.content>> \in Breaks}

(* One object that cannot be compared fails the detection for all. *)
Undecided == \E c \in Objects :
               /\ crdCache[c] # Gone
               /\ <<c, crdCache[c].content, work.content>> \in Incomparable

Blocked == Breaking # {} /\ ~work.obj.spec.ignoreBreakingChanges

Panics == work.obj.spec.template /\ work.content \in TemplatePanics

Invalid == /\ work.obj.spec.template
           /\ work.content \in TemplateFails
           /\ ~work.obj.spec.continueOnValidationError

Inspected == [Counting EXCEPT !.breaking = Breaking]

(* A failed detection is an error even where breaking changes are ignored, *)
(* and a schema that is missing panics even where failures are tolerated.  *)
Inspect ==
  /\ pc = "inspect"
  /\ \/ /\ Undecided
        /\ Return([Counting EXCEPT !.ready = "BreakingChangeDetectionFailed"], TRUE)
        /\ UNCHANGED used
     \/ /\ ~Undecided /\ Blocked
        /\ Return([Inspected EXCEPT !.ready = "BreakingChangeDetected"], TRUE)
        /\ UNCHANGED used
     \/ /\ ~Undecided /\ ~Blocked /\ Panics
        /\ Return(Inspected, TRUE)
        /\ UNCHANGED used
     \/ /\ ~Undecided /\ ~Blocked /\ Invalid
        /\ Return([Inspected EXCEPT !.ready = "CRDValidationFailed"], TRUE)
        /\ UNCHANGED used
     \/ /\ ~Undecided /\ ~Blocked /\ ~Panics /\ ~Invalid
        /\ pc' = "apply"
        /\ work' = [work EXCEPT !.obj = Inspected, !.todo = Objects]
        /\ UNCHANGED used
     \/ /\ Fault
        /\ \E reason \in {"ResourceManagerCreateFailed", "ReadingObjectsToApplyFailed"} :
             Fail(reason)
     \/ /\ Fault
        /\ Return([Counting EXCEPT !.ready = "BreakingChangeDetectionFailed"], TRUE)
  /\ UNCHANGED <<api, cache, crds, crdCache, upstream, queue, delayed>>

(* Server-side apply goes object by object and forces conflicts. *)
Apply(c) ==
  /\ pc = "apply"
  /\ c \in work.todo
  /\ StoreCRD(Target(work.obj.spec), c, [content |-> work.content, by |-> work.key])
  /\ work' = [work EXCEPT !.todo = @ \ {c}]
  /\ UNCHANGED <<api, cache, upstream, queue, delayed, pc, used>>

(* A slip: the error of an apply is logged, not returned. *)
MutApplyFailsLogged ==
  /\ pc = "apply"
  /\ work.todo # {}
  /\ Fault
  /\ work' = [work EXCEPT !.todo = {}]
  /\ UNCHANGED <<api, cache, crds, crdCache, upstream, queue, delayed, pc>>

ApplyFails ==
  /\ pc = "apply"
  /\ work.todo # {}
  /\ Fault
  /\ Fail("ApplyingCRDSFailed")
  /\ UNCHANGED <<api, cache, crds, crdCache, upstream, queue, delayed>>

Done == [work.obj EXCEPT !.names = Counted, !.applied = work.revision,
                         !.ready = "Succeeded"]

(* A slip: nothing waits for the last object to be applied. *)
MutWaitEarly ==
  /\ pc = "apply"
  /\ Return(Done, FALSE)
  /\ UNCHANGED <<api, cache, crds, crdCache, upstream, queue, delayed, used>>

(* Removing the temporary directory may fail once all is done.             *)
Wait ==
  /\ pc = "apply"
  /\ work.todo = {}
  /\ \/ Return(Done, FALSE) /\ UNCHANGED used
     \/ Fault /\ Return(Done, TRUE)
     \/ Fault /\ Fail("WaitingOnObjectsFailed")
  /\ UNCHANGED <<api, cache, crds, crdCache, upstream, queue, delayed>>

-----------------------------------------------------------------------------
(* The serial patcher: three merge patches of what differs between the     *)
(* object as read and the working copy.  A patch that fails does not stop  *)
(* the ones after it.                                                      *)

Merged(field, current, read, obj) ==
  IF obj[field] = read[field] THEN current[field] ELSE obj[field]

Patch(next, needed, patched) ==
  /\ pc' = next
  /\ \/ ~needed /\ UNCHANGED <<api, cache, queue, work, used>>
     \/ /\ needed
        /\ api[work.key] # Gone
        /\ Store(work.key, patched)
        /\ UNCHANGED <<work, used>>
     \/ /\ needed
        /\ api[work.key] = Gone
        /\ work' = [work EXCEPT !.failed = TRUE]
        /\ UNCHANGED <<api, cache, queue, used>>
     \/ /\ needed
        /\ Fault
        /\ work' = [work EXCEPT !.failed = TRUE]
        /\ UNCHANGED <<api, cache, queue>>
  /\ UNCHANGED <<crds, crdCache, upstream, delayed>>

PatchConditions ==
  /\ pc = "conditions"
  /\ Patch("metadata", work.obj.ready # work.read.ready,
           [api[work.key] EXCEPT !.ready = work.obj.ready])

PatchMetadata ==
  /\ pc = "metadata"
  /\ Patch("status", work.obj.finalizer # work.read.finalizer,
           [api[work.key] EXCEPT !.finalizer = work.obj.finalizer])

StatusOf(o) == <<o.observed, o.attempted, o.applied, o.names, o.breaking>>

PatchStatus ==
  LET now == api[work.key]
      new(field) == Merged(field, now, work.read, work.obj)
  IN  /\ pc = "status"
      /\ Patch("done", StatusOf(work.obj) # StatusOf(work.read),
               [now EXCEPT
                  !.observed  = new("observed"),
                  !.attempted = new("attempted"),
                  !.applied   = new("applied"),
                  !.breaking  = new("breaking"),
                  !.names     = [c \in CRDNames |-> Merged(c, @, work.read.names,
                                                           work.obj.names)]])

-----------------------------------------------------------------------------
(* Deletion.                                                               *)

PruneCRD(c) ==
  /\ pc = "prune"
  /\ c \in work.todo
  /\ crds["local"][c] # Gone
  /\ StoreCRD("local", c, Gone)
  /\ work' = [work EXCEPT !.todo = @ \ {c}]
  /\ UNCHANGED <<api, cache, upstream, queue, delayed, pc, used>>

(* Not found is an error like any other. *)
PruneFails(c) ==
  /\ pc = "prune"
  /\ c \in work.todo
  /\ \/ crds["local"][c] = Gone /\ UNCHANGED used
     \/ Fault
  /\ pc' = "done"
  /\ work' = [work EXCEPT !.failed = TRUE]
  /\ UNCHANGED <<api, cache, crds, crdCache, upstream, queue, delayed>>

(* The API server removes a deleted object with its last finalizer. *)
DropFinalizer ==
  LET now == api[work.key]
  IN  /\ pc = "prune"
      /\ work.todo = {}
      /\ Patch("done", TRUE, IF now.deleting THEN Gone ELSE [now EXCEPT !.finalizer = FALSE])

-----------------------------------------------------------------------------
(* Slips: an error is swallowed; the interval is. *)
MutRequeuedInterval == ~work.obj.deleting /\ work.obj.spec.interval

MutRequeuedErrors == work.failed

(* What controller-runtime does with the result of Reconcile. *)
Requeued == work.failed \/ (~work.obj.deleting /\ work.obj.spec.interval)

Finish ==
  /\ pc = "done"
  /\ pc' = "idle"
  /\ work' = Gone
  /\ delayed' = IF Requeued THEN delayed \cup {work.key} ELSE delayed
  /\ UNCHANGED <<api, cache, crds, crdCache, upstream, queue, used>>

(* The process dies and starts again: everything in memory is lost, and    *)
(* the informers list every object anew.                                   *)
Crash ==
  /\ used.crashes < MaxCrashes
  /\ used' = [used EXCEPT !.crashes = @ + 1]
  /\ cache' = api
  /\ crdCache' = crds["local"]
  /\ queue' = {b \in Bootstraps : api[b] # Gone}
  /\ delayed' = {}
  /\ pc' = "idle"
  /\ work' = Gone
  /\ UNCHANGED <<api, crds, upstream>>

-----------------------------------------------------------------------------
Worker == \/ Check \/ Fetch \/ Inspect \/ (\E c \in CRDNames : Apply(c)) \/ ApplyFails \/ Wait
          \/ PatchConditions \/ PatchMetadata \/ PatchStatus
          \/ (\E c \in CRDNames : PruneCRD(c) \/ PruneFails(c)) \/ DropFinalizer
          \/ Finish

Environment == \/ \E b \in Bootstraps : Create(b) \/ EditSpec(b) \/ Delete(b)
               \/ Release
               \/ Crash

Delivery == \/ \E b \in Bootstraps : Sync(b) \/ TimerFires(b)
            \/ \E c \in CRDNames : SyncCRD(c)

Next == Environment \/ Delivery \/ (\E b \in Bootstraps : Begin(b)) \/ Worker

Spec == Init /\ [][Next]_vars

(* The worker never stops, the queue is first in first out, every timer    *)
(* fires and every watch event arrives.  Nothing is asked of users,        *)
(* upstreams and crashes.                                                  *)
Fairness ==
  /\ WF_vars(Worker)
  /\ \A b \in Bootstraps : SF_vars(Begin(b)) /\ WF_vars(TimerFires(b)) /\ WF_vars(Sync(b))
  /\ \A c \in CRDNames : WF_vars(SyncCRD(c))
=============================================================================
