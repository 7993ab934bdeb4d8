-------------------------- MODULE Reconciler_proofs --------------------------
(* Proofs about the Bootstrap controller, for any Bootstraps, CRDs,         *)
(* upstreams, specs and bounds, with caches that lag or not.                *)
EXTENDS ReconcilerProperties, Sources_proofs

-----------------------------------------------------------------------------
(* Helpers keep to their types. *)

LEMMA NewObjectType ==
  ASSUME NEW uid \in Nat, NEW spec \in Specs
  PROVE  NewObject(uid, spec) \in Object
<1>1. 0 \in 0..MaxCount
  BY ReconcilerAssumption
<1>2. [c \in CRDNames |-> 0] \in [CRDNames -> 0..MaxCount]
  BY <1>1
<1> QED
  BY <1>2 DEF NewObject, Object, Reasons, Revision

LEMMA ObserveType ==
  ASSUME TypeOK, NEW b \in Bootstraps, NEW o \in Object \cup {Gone}, Observe(b, o)
  PROVE  /\ cache' \in [Bootstraps -> Object \cup {Gone}]
         /\ queue' \subseteq Bootstraps
  BY DEF TypeOK, Observe

LEMMA StoreType ==
  ASSUME TypeOK, NEW b \in Bootstraps, NEW o \in Object \cup {Gone}, Store(b, o)
  PROVE  /\ api' \in [Bootstraps -> Object \cup {Gone}]
         /\ cache' \in [Bootstraps -> Object \cup {Gone}]
         /\ queue' \subseteq Bootstraps
<1>1. api' \in [Bootstraps -> Object \cup {Gone}]
  BY DEF TypeOK, Store
<1>2. CASE CacheLag
  BY <1>1, <1>2 DEF TypeOK, Store
<1>3. CASE ~CacheLag
  BY <1>1, <1>3, ObserveType DEF Store
<1> QED
  BY <1>2, <1>3

LEMMA StoreCRDType ==
  ASSUME TypeOK, NEW k \in Clusters, NEW c \in CRDNames,
         NEW i \in Installed \cup {Gone}, StoreCRD(k, c, i)
  PROVE  /\ crds' \in [Clusters -> [CRDNames -> Installed \cup {Gone}]]
         /\ crdCache' \in [CRDNames -> Installed \cup {Gone}]
  BY DEF TypeOK, StoreCRD

LEMMA FaultType ==
  ASSUME TypeOK, Fault
  PROVE  used' \in [edits : Nat, releases : Nat, faults : Nat, crashes : Nat]
  BY DEF TypeOK, Fault

LEMMA JobType ==
  ASSUME NEW b \in Bootstraps, NEW read \in Object, NEW obj \in Object,
         NEW todo \in SUBSET CRDNames
  PROVE  Job(b, read, obj, todo) \in Work
  BY DEF Job, Work, Revision

LEMMA ReturnType ==
  ASSUME work \in Work, NEW obj \in Object, NEW failed \in BOOLEAN, Return(obj, failed)
  PROVE  work' \in Work /\ pc' = "conditions"
<1>1. [obj EXCEPT !.observed = obj.generation] \in Object
  BY DEF Object
<1> QED
  BY <1>1 DEF Return, Work

LEMMA FailType ==
  ASSUME work \in Work, NEW reason \in Reasons, Fail(reason)
  PROVE  work' \in Work /\ pc' = "conditions"
<1>1. [work.obj EXCEPT !.ready = reason] \in Object
  BY DEF Work, Object
<1> QED
  BY <1>1, ReturnType DEF Fail

LEMMA SpecsType ==
  ASSUME NEW spec \in Specs
  PROVE  spec.digest \in Contents \cup {Gone}
  BY ReconcilerAssumption DEF BootstrapSpec

LEMMA CountedType ==
  ASSUME work \in Work
  PROVE  Counted \in [CRDNames -> 0..MaxCount]
<1>1. \A n \in 0..MaxCount : Increment(n) \in 0..MaxCount
  BY ReconcilerAssumption DEF Increment
<1>2. \A c \in CRDNames : work.read.names[c] \in 0..MaxCount
  BY DEF Work, Object
<1> QED
  BY <1>1, <1>2 DEF Counted

LEMMA CountingType ==
  ASSUME work \in Work
  PROVE  Counting \in Object /\ Inspected \in Object
<1>1. Counting \in Object
  BY CountedType DEF Counting, Work, Object
<1>2. Breaking \in SUBSET CRDNames
  BY ReconcilerAssumption DEF Breaking
<1> QED
  BY <1>1, <1>2 DEF Inspected, Object

LEMMA PatchType ==
  ASSUME TypeOK, pc # "idle", NEW next \in Steps \ {"idle", "inspect", "apply"},
         NEW needed, NEW patched,
         api[work.key] # Gone => patched \in Object \cup {Gone},
         Patch(next, needed, patched)
  PROVE  TypeOK'
<1> USE DEF TypeOK
<1>1. work \in Work /\ work.key \in Bootstraps
  BY DEF Work
<1>2. [work EXCEPT !.failed = TRUE] \in Work
  BY <1>1 DEF Work
<1>3. pc' = next /\ UNCHANGED <<crds, crdCache, upstream, delayed>>
  BY DEF Patch
<1>4. CASE UNCHANGED <<api, cache, queue, work, used>>
  BY <1>1, <1>3, <1>4
<1>5. CASE /\ api[work.key] # Gone
           /\ Store(work.key, patched)
           /\ UNCHANGED <<work, used>>
  <2>1. patched \in Object \cup {Gone}
    BY <1>5
  <2> QED
    BY <1>1, <1>3, <1>5, <2>1, StoreType
<1>6. CASE /\ work' = [work EXCEPT !.failed = TRUE]
           /\ UNCHANGED <<api, cache, queue, used>>
  BY <1>1, <1>2, <1>3, <1>6
<1>7. CASE /\ Fault
           /\ work' = [work EXCEPT !.failed = TRUE]
           /\ UNCHANGED <<api, cache, queue>>
  BY <1>1, <1>2, <1>3, <1>7, FaultType
<1> QED
  BY <1>4, <1>5, <1>6, <1>7 DEF Patch

-----------------------------------------------------------------------------
(* Type correctness, action by action. *)

LEMMA EnvironmentType ==
  ASSUME TypeOK, Environment \/ Delivery
  PROVE  TypeOK'
<1> USE DEF TypeOK
<1>1. ASSUME NEW b \in Bootstraps, Create(b) PROVE TypeOK'
  <2>1. PICK spec \in Specs : Store(b, NewObject(used.edits + 1, spec))
    BY <1>1 DEF Create
  <2>2. NewObject(used.edits + 1, spec) \in Object
    BY NewObjectType
  <2> QED
    BY <1>1, <2>1, <2>2, StoreType DEF Create, Edit
<1>2. ASSUME NEW b \in Bootstraps, EditSpec(b) PROVE TypeOK'
  <2>1. PICK spec \in Specs :
          Store(b, [api[b] EXCEPT !.spec = spec, !.generation = @ + 1])
    BY <1>2 DEF EditSpec
  <2>2. api[b] \in Object
    BY <1>2 DEF EditSpec
  <2> DEFINE next == api[b].generation + 1
  <2>3. next \in Nat
    BY <2>2 DEF Object
  <2> HIDE DEF next
  <2>4. [api[b] EXCEPT !.spec = spec, !.generation = next] \in Object
    BY <2>2, <2>3 DEF Object
  <2> QED
    BY <1>2, <2>1, <2>4, StoreType DEF EditSpec, Edit, next
<1>3. ASSUME NEW b \in Bootstraps, Delete(b) PROVE TypeOK'
  <2> DEFINE next == api[b].generation + 1
             o == IF api[b].finalizer
                  THEN [api[b] EXCEPT !.deleting = TRUE, !.generation = next]
                  ELSE Gone
  <2>1. api[b] \in Object
    BY <1>3 DEF Delete
  <2>2. Store(b, o)
    BY <1>3 DEF Delete
  <2>3. next \in Nat
    BY <2>1 DEF Object
  <2> HIDE DEF next
  <2>4. o \in Object \cup {Gone}
    BY <2>1, <2>3 DEF Object
  <2> QED
    BY <1>3, <2>2, <2>4, StoreType DEF Delete, Edit
<1>4. CASE Release
  BY <1>4 DEF Release
<1>5. CASE Crash
  BY <1>5 DEF Crash, Clusters, Steps
<1>6. ASSUME NEW b \in Bootstraps, Sync(b) PROVE TypeOK'
  <2>1. api[b] \in Object \cup {Gone}
    OBVIOUS
  <2> QED
    BY <1>6, <2>1, ObserveType DEF Sync
<1>7. ASSUME NEW b \in Bootstraps, TimerFires(b) PROVE TypeOK'
  BY <1>7 DEF TimerFires
<1>8. ASSUME NEW c \in CRDNames, SyncCRD(c) PROVE TypeOK'
  BY <1>8 DEF SyncCRD, Clusters
<1> QED
  BY <1>1, <1>2, <1>3, <1>4, <1>5, <1>6, <1>7, <1>8 DEF Environment, Delivery

LEMMA BeginType ==
  ASSUME TypeOK, NEW b \in Bootstraps, Begin(b)
  PROVE  TypeOK'
<1> USE DEF TypeOK
<1>1. queue' \subseteq Bootstraps
  BY DEF Begin, BeginIgnored, BeginReconcile, BeginDelete, BeginFails, Take
<1>2. CASE BeginIgnored(b)
  BY <1>1, <1>2 DEF BeginIgnored, Take
<1>3. CASE BeginReconcile(b)
  <2>1. cache[b] \in Object
    BY <1>3 DEF BeginReconcile, Ignored
  <2>2. [cache[b] EXCEPT !.finalizer = TRUE] \in Object
    BY <2>1 DEF Object
  <2>3. work' \in Work
    BY <1>3, <2>1, <2>2, JobType DEF BeginReconcile
  <2> QED
    BY <1>1, <1>3, <2>3 DEF BeginReconcile, Take, Steps
<1>4. CASE BeginDelete(b)
  <2>1. cache[b] \in Object
    BY <1>4 DEF BeginDelete, Ignored
  <2>2. [cache[b] EXCEPT !.finalizer = FALSE] \in Object
    BY <2>1 DEF Object
  <2>3. (IF cache[b].spec.prune THEN Owned(b) ELSE {}) \in SUBSET CRDNames
    BY DEF Owned
  <2>4. work' \in Work
    BY <1>4, <2>1, <2>2, <2>3, JobType DEF BeginDelete
  <2> QED
    BY <1>1, <1>4, <2>4 DEF BeginDelete, Take, Steps
<1>5. CASE BeginFails(b)
  BY <1>1, <1>5, FaultType DEF BeginFails
<1> QED
  BY <1>2, <1>3, <1>4, <1>5 DEF Begin

LEMMA CheckType ==
  ASSUME TypeOK, Check
  PROVE  TypeOK'
<1> USE DEF TypeOK
<1>1. work \in Work /\ work.obj \in Object
  BY DEF Check, Work
<1>2. Answer \in Outcome
  <2>1. upstream \in Upstream /\ work.obj.applied \in Revision
    BY <1>1, ReconcilerAssumption DEF Object
  <2>2. work.obj.spec.digest \in Contents \cup {Gone}
    BY <1>1, SpecsType DEF Object
  <2> QED
    BY <2>1, <2>2, HasUpdateType DEF Answer
<1>3. used' \in [edits : Nat, releases : Nat, faults : Nat, crashes : Nat]
  BY FaultType DEF Check
<1>4. CASE /\ pc' = "fetch"
           /\ work' = [work EXCEPT !.revision = Answer.revision,
                                   !.obj.attempted = Answer.revision]
  <2>1. Answer.revision \in Revision
    BY <1>2 DEF Outcome
  <2>2. [work.obj EXCEPT !.attempted = Answer.revision] \in Object
    BY <1>1, <2>1 DEF Object
  <2>3. work' = [work EXCEPT !.revision = Answer.revision,
                             !.obj = [work.obj EXCEPT !.attempted = Answer.revision]]
    BY <1>1, <1>4 DEF Work
  <2>4. work' \in Work
    BY <1>1, <2>1, <2>2, <2>3 DEF Work
  <2> QED
    BY <1>3, <1>4, <2>4 DEF Check, Steps
<1>5. CASE \E o \in Object, failed \in BOOLEAN : Return(o, failed)
  <2>1. work' \in Work /\ pc' = "conditions"
    BY <1>1, <1>5, ReturnType
  <2> QED
    BY <1>3, <2>1 DEF Check, Steps
<1>6. [work.obj EXCEPT !.ready = "Succeeded"] \in Object
  BY <1>1 DEF Object, Reasons
<1> QED
  BY <1>1, <1>4, <1>5, <1>6 DEF Check

LEMMA FetchStepType ==
  ASSUME TypeOK, Fetch
  PROVE  TypeOK'
<1> USE DEF TypeOK
<1>1. work \in Work /\ work.obj \in Object
  BY DEF Fetch, Work
<1>2. Fetched \in Contents \cup {Gone}
  BY FetchType, ReconcilerAssumption DEF Fetched
<1>3. used' \in [edits : Nat, releases : Nat, faults : Nat, crashes : Nat]
  BY FaultType DEF Fetch
<1>4. CASE Fetched # Gone /\ pc' = "inspect" /\ work' = [work EXCEPT !.content = Fetched]
  <2>1. work' \in Work /\ work'.content \in Contents
    BY <1>1, <1>2, <1>4 DEF Work
  <2> QED
    BY <1>3, <1>4, <2>1 DEF Fetch, Steps
<1>5. CASE Return(work.obj, TRUE) \/ \E reason \in Reasons : Fail(reason)
  <2>1. work' \in Work /\ pc' = "conditions"
    BY <1>1, <1>5, ReturnType, FailType
  <2> QED
    BY <1>3, <2>1 DEF Fetch, Steps
<1>6. {"TempFolderFailedToCreate", "CRDFetchFailed"} \subseteq Reasons
  BY DEF Reasons
<1> QED
  BY <1>4, <1>5, <1>6 DEF Fetch

LEMMA InspectType ==
  ASSUME TypeOK, Inspect
  PROVE  TypeOK'
<1> USE DEF TypeOK
<1>1. work \in Work /\ work.content \in Contents
  BY DEF Inspect
<1>2. Counting \in Object /\ Inspected \in Object
  BY <1>1, CountingType
<1>3. used' \in [edits : Nat, releases : Nat, faults : Nat, crashes : Nat]
  BY FaultType DEF Inspect
<1>4. CASE /\ pc' = "apply"
           /\ work' = [work EXCEPT !.obj = Inspected, !.todo = Objects]
  <2>1. Objects \in SUBSET CRDNames
    BY <1>1, ReconcilerAssumption DEF Objects
  <2>2. work' \in Work /\ work'.content \in Contents
    BY <1>1, <1>2, <1>4, <2>1 DEF Work
  <2> QED
    BY <1>3, <1>4, <2>2 DEF Inspect, Steps
<1>5. CASE \/ \E reason \in Reasons : Fail(reason)
           \/ Return(Inspected, TRUE)
           \/ \E o \in {Inspected, Counting}, reason \in Reasons :
                Return([o EXCEPT !.ready = reason], TRUE)
  <2>1. \A o \in {Inspected, Counting}, reason \in Reasons :
          [o EXCEPT !.ready = reason] \in Object
    BY <1>2 DEF Object
  <2>2. work' \in Work /\ pc' = "conditions"
    BY <1>1, <1>2, <1>5, <2>1, ReturnType, FailType
  <2> QED
    BY <1>3, <2>2 DEF Inspect, Steps
<1>6. {"BreakingChangeDetected", "CRDValidationFailed", "ResourceManagerCreateFailed",
       "ReadingObjectsToApplyFailed", "BreakingChangeDetectionFailed"} \subseteq Reasons
  BY DEF Reasons
<1> QED
  BY <1>4, <1>5, <1>6 DEF Inspect

LEMMA ApplyType ==
  ASSUME TypeOK, ApplyFails \/ Wait \/ \E c \in CRDNames : Apply(c)
  PROVE  TypeOK'
<1> USE DEF TypeOK
<1>1. work \in Work /\ work.content \in Contents /\ work.obj \in Object
  BY DEF ApplyFails, Wait, Apply, Work
<1>2. ASSUME NEW c \in CRDNames, Apply(c) PROVE TypeOK'
  <2>1. [content |-> work.content, by |-> work.key] \in Installed
    BY <1>1 DEF Installed, Work
  <2>2. Target(work.obj.spec) \in Clusters
    BY DEF Target, Clusters
  <2>3. work' \in Work /\ work'.content \in Contents
    BY <1>1, <1>2 DEF Apply, Work
  <2> QED
    BY <1>2, <2>1, <2>2, <2>3, StoreCRDType DEF Apply
<1>3. CASE ApplyFails
  <2>1. work' \in Work /\ pc' = "conditions"
    BY <1>1, <1>3, FailType DEF ApplyFails, Reasons
  <2> QED
    BY <1>3, <2>1, FaultType DEF ApplyFails, Steps
<1>4. CASE Wait
  <2>1. Done \in Object
    BY <1>1, CountedType DEF Done, Object, Work, Reasons
  <2>2. work' \in Work /\ pc' = "conditions"
    BY <1>1, <1>4, <2>1, ReturnType, FailType DEF Wait, Reasons
  <2>3. used' \in [edits : Nat, releases : Nat, faults : Nat, crashes : Nat]
    BY <1>4, FaultType DEF Wait
  <2> QED
    BY <1>4, <2>2, <2>3 DEF Wait, Steps
<1> QED
  BY <1>2, <1>3, <1>4

LEMMA PatchStepsType ==
  ASSUME TypeOK, PatchConditions \/ PatchMetadata \/ PatchStatus \/ DropFinalizer
  PROVE  TypeOK'
<1> DEFINE now == api[work.key]
<1>1. pc # "idle" /\ work \in Work /\ work.key \in Bootstraps
  BY DEF TypeOK, PatchConditions, PatchMetadata, PatchStatus, DropFinalizer, Work
<1>2. work.obj \in Object /\ work.read \in Object
  BY <1>1 DEF Work
<1>3. now # Gone => now \in Object
  BY <1>1 DEF TypeOK
<1>4. {"metadata", "status", "done"} \subseteq Steps \ {"idle", "inspect", "apply"}
  BY DEF Steps
<1>5. CASE PatchConditions
  <2>1. now # Gone => [now EXCEPT !.ready = work.obj.ready] \in Object
    BY <1>2, <1>3 DEF Object
  <2> QED
    BY <1>1, <1>4, <1>5, <2>1, PatchType DEF PatchConditions
<1>6. CASE PatchMetadata
  <2>1. now # Gone => [now EXCEPT !.finalizer = work.obj.finalizer] \in Object
    BY <1>2, <1>3 DEF Object
  <2> QED
    BY <1>1, <1>4, <1>6, <2>1, PatchType DEF PatchMetadata
<1>7. CASE PatchStatus
  <2> DEFINE new(field) == Merged(field, now, work.read, work.obj)
             names == [c \in CRDNames |-> Merged(c, now.names, work.read.names,
                                                 work.obj.names)]
             patched == [now EXCEPT !.observed  = new("observed"),
                                    !.attempted = new("attempted"),
                                    !.applied   = new("applied"),
                                    !.breaking  = new("breaking"),
                                    !.names     = names]
  <2>1. ASSUME now # Gone PROVE patched \in Object
    <3>1. now \in Object
      BY <1>3, <2>1
    <3>2. /\ new("observed") \in Nat
          /\ new("attempted") \in Revision
          /\ new("applied") \in Revision
          /\ new("breaking") \in SUBSET CRDNames
      BY <1>2, <3>1 DEF Merged, Object
    <3>3. names \in [CRDNames -> 0..MaxCount]
      BY <1>2, <3>1 DEF Merged, Object
    <3> HIDE DEF names, new
    <3> QED
      BY <3>1, <3>2, <3>3 DEF Object
  <2>2. Patch("done", StatusOf(work.obj) # StatusOf(work.read), patched)
    BY <1>7 DEF PatchStatus
  <2> HIDE DEF patched
  <2> QED
    BY <1>1, <1>4, <2>1, <2>2, PatchType
<1>8. CASE DropFinalizer
  <2> DEFINE patched == IF now.deleting THEN Gone ELSE [now EXCEPT !.finalizer = FALSE]
  <2>1. now # Gone => patched \in Object \cup {Gone}
    BY <1>3 DEF Object
  <2>2. Patch("done", TRUE, patched)
    BY <1>8 DEF DropFinalizer
  <2> HIDE DEF patched
  <2> QED
    BY <1>1, <1>4, <2>1, <2>2, PatchType
<1> QED
  BY <1>5, <1>6, <1>7, <1>8

LEMMA RemainingType ==
  ASSUME TypeOK, Finish \/ \E c \in CRDNames : PruneCRD(c) \/ PruneFails(c)
  PROVE  TypeOK'
<1> USE DEF TypeOK
<1>1. work \in Work /\ work.key \in Bootstraps
  BY DEF Finish, PruneCRD, PruneFails, Work
<1>2. CASE Finish
  BY <1>1, <1>2 DEF Finish, Steps
<1>3. ASSUME NEW c \in CRDNames, PruneCRD(c) PROVE TypeOK'
  <2>1. work' \in Work
    BY <1>1, <1>3 DEF PruneCRD, Work
  <2>2. "local" \in Clusters
    BY DEF Clusters
  <2> QED
    BY <1>3, <2>1, <2>2, StoreCRDType DEF PruneCRD
<1>4. ASSUME NEW c \in CRDNames, PruneFails(c) PROVE TypeOK'
  <2>1. work' \in Work
    BY <1>1, <1>4 DEF PruneFails, Work
  <2>2. used' \in [edits : Nat, releases : Nat, faults : Nat, crashes : Nat]
    BY <1>4, FaultType DEF PruneFails
  <2> QED
    BY <1>4, <2>1, <2>2 DEF PruneFails, Steps
<1> QED
  BY <1>2, <1>3, <1>4

(* The state of the controller and of both clusters stays within its       *)
(* types; in particular a manifest is at hand whenever one is applied.     *)
THEOREM TypeCorrect == Spec => []TypeOK
<1>1. Init => TypeOK
  BY DEF Init, TypeOK, Steps, Clusters
<1>2. TypeOK /\ [Next]_vars => TypeOK'
  <2> SUFFICES ASSUME TypeOK, [Next]_vars PROVE TypeOK'
    OBVIOUS
  <2>1. CASE UNCHANGED vars
    BY <2>1 DEF vars, TypeOK
  <2> QED
    BY <2>1, EnvironmentType, BeginType, CheckType, FetchStepType, InspectType,
       ApplyType, PatchStepsType, RemainingType DEF Next, Worker
<1> QED
  BY <1>1, <1>2, PTL DEF Spec

-----------------------------------------------------------------------------
(* What is recorded is installed. *)

(* The conjuncts of AttemptIsInstalled do not look at anything but crds,   *)
(* pc and work.                                                            *)
LEMMA AttemptFrame ==
  ASSUME AttemptIsInstalled, UNCHANGED <<crds, pc, work>>
  PROVE  AttemptIsInstalled'
  BY DEF AttemptIsInstalled, Objects

(* An attempt that is going to be patched without a new revision.          *)
LEMMA AttemptUnrecorded ==
  ASSUME work \in Work, work.obj.applied = work.read.applied, UNCHANGED crds,
         \E o \in Object, failed \in BOOLEAN :
           o.applied = work.obj.applied /\ Return(o, failed)
  PROVE  AttemptIsInstalled'
<1>1. PICK o \in Object, failed \in BOOLEAN :
        o.applied = work.obj.applied /\ Return(o, failed)
  OBVIOUS
<1>2. pc' = "conditions" /\ work'.obj = [o EXCEPT !.observed = o.generation]
      /\ work'.read = work.read
  BY <1>1 DEF Return, Work
<1>3. work'.obj.applied = work'.read.applied
  BY <1>1, <1>2 DEF Object
<1> QED
  BY <1>2, <1>3 DEF AttemptIsInstalled

LEMMA AttemptFailed ==
  ASSUME work \in Work, work.obj.applied = work.read.applied, UNCHANGED crds,
         NEW reason \in Reasons, Fail(reason)
  PROVE  AttemptIsInstalled'
<1> DEFINE o == [work.obj EXCEPT !.ready = reason]
<1>1. o \in Object /\ o.applied = work.obj.applied
  BY DEF Work, Object
<1>2. Return(o, TRUE)
  BY DEF Fail
<1> HIDE DEF o
<1> QED
  BY <1>1, <1>2, AttemptUnrecorded

LEMMA AttemptPatched ==
  ASSUME TypeOK, AttemptIsInstalled,
         PatchConditions \/ PatchMetadata \/ PatchStatus \/ DropFinalizer
  PROVE  AttemptIsInstalled'
<1>1. work \in Work
  BY DEF TypeOK, PatchConditions, PatchMetadata, PatchStatus, DropFinalizer
<1>2. UNCHANGED crds
  BY DEF PatchConditions, PatchMetadata, PatchStatus, DropFinalizer, Patch
<1>3. work' = work \/ work' = [work EXCEPT !.failed = TRUE]
  BY DEF PatchConditions, PatchMetadata, PatchStatus, DropFinalizer, Patch
<1>4. /\ work'.obj = work.obj /\ work'.read = work.read /\ work'.key = work.key
      /\ work'.content = work.content
  BY <1>1, <1>3 DEF Work
<1>5. \/ pc' = "done"
      \/ pc \in {"conditions", "metadata"} /\ pc' \in {"metadata", "status"}
  BY DEF PatchConditions, PatchMetadata, PatchStatus, DropFinalizer, Patch
<1> QED
  BY <1>2, <1>4, <1>5 DEF AttemptIsInstalled, Objects

LEMMA AttemptStep ==
  ASSUME TypeOK, AttemptIsInstalled, [Next]_vars
  PROVE  AttemptIsInstalled'
<1>1. CASE UNCHANGED <<crds, pc, work>>
  BY <1>1, AttemptFrame
<1>2. CASE Crash
  BY <1>2 DEF Crash, AttemptIsInstalled
<1>3. ASSUME NEW b \in Bootstraps, BeginReconcile(b) \/ BeginDelete(b)
      PROVE  AttemptIsInstalled'
  <2>1. cache[b] \in Object
    BY <1>3 DEF TypeOK, BeginReconcile, BeginDelete, Ignored
  <2>2. \A f \in BOOLEAN : [cache[b] EXCEPT !.finalizer = f].applied = cache[b].applied
    BY <2>1 DEF Object
  <2>3. pc' \in {"check", "prune"} /\ work'.obj.applied = work'.read.applied
    <3>1. CASE BeginReconcile(b)
      <4>1. work'.obj = [cache[b] EXCEPT !.finalizer = TRUE] /\ work'.read = cache[b]
        BY <3>1 DEF BeginReconcile, Job
      <4> QED
        BY <3>1, <4>1, <2>2 DEF BeginReconcile
    <3>2. CASE BeginDelete(b)
      <4>1. work'.obj = [cache[b] EXCEPT !.finalizer = FALSE] /\ work'.read = cache[b]
        BY <3>2 DEF BeginDelete, Job
      <4> QED
        BY <3>2, <4>1, <2>2 DEF BeginDelete
    <3> QED
      BY <1>3, <3>1, <3>2
  <2> QED
    BY <2>3 DEF AttemptIsInstalled
<1>4. CASE Check
  <2>1. work \in Work /\ work.obj \in Object /\ UNCHANGED crds
    BY <1>4 DEF TypeOK, Check, Work
  <2>2. work.obj.applied = work.read.applied
    BY <1>4 DEF Check, AttemptIsInstalled
  <2>3. CASE /\ pc' = "fetch"
             /\ work' = [work EXCEPT !.revision = Answer.revision,
                                     !.obj.attempted = Answer.revision]
    <3>1. work'.obj.applied = work.obj.applied /\ work'.read = work.read
      BY <2>1, <2>3 DEF Work, Object
    <3> QED
      BY <2>2, <2>3, <3>1 DEF AttemptIsInstalled
  <2>4. [work.obj EXCEPT !.ready = "Succeeded"] \in Object
        /\ [work.obj EXCEPT !.ready = "Succeeded"].applied = work.obj.applied
    BY <2>1 DEF Object, Reasons
  <2> QED
    BY <1>4, <2>1, <2>2, <2>3, <2>4, AttemptUnrecorded DEF Check
<1>5. CASE Fetch
  <2>1. work \in Work /\ work.obj \in Object /\ UNCHANGED crds
    BY <1>5 DEF TypeOK, Fetch, Work
  <2>2. work.obj.applied = work.read.applied
    BY <1>5 DEF Fetch, AttemptIsInstalled
  <2>3. CASE Fetched # Gone /\ pc' = "inspect" /\ work' = [work EXCEPT !.content = Fetched]
    <3>1. upstream \in Upstream
      BY ReconcilerAssumption DEF TypeOK
    <3>2. Versioned(work.obj.spec)
            => work.revision \in Versions /\ Fetched = ContentOf[work.revision]
      BY <2>3, <3>1, VersionedFetch DEF Fetched
    <3>3. /\ work'.obj = work.obj /\ work'.read = work.read
          /\ work'.revision = work.revision /\ work'.content = Fetched
      BY <2>1, <2>3 DEF Work
    <3> QED
      BY <2>2, <2>3, <3>2, <3>3 DEF AttemptIsInstalled
  <2> QED
    BY <1>5, <2>1, <2>2, <2>3, AttemptUnrecorded, AttemptFailed DEF Fetch, Reasons
<1>6. CASE Inspect
  <2>1. work \in Work /\ work.obj \in Object /\ UNCHANGED crds
    BY <1>6 DEF TypeOK, Inspect, Work
  <2>2. work.obj.applied = work.read.applied
    BY <1>6 DEF Inspect, AttemptIsInstalled
  <2>3. /\ Counting \in Object /\ Counting.applied = work.obj.applied
        /\ Inspected \in Object /\ Inspected.applied = work.obj.applied
        /\ Inspected.spec = work.obj.spec
    BY <2>1, CountingType DEF Counting, Inspected, Object
  <2>4. CASE /\ pc' = "apply"
             /\ work' = [work EXCEPT !.obj = Inspected, !.todo = Objects]
    <3>1. /\ work'.obj.applied = work.obj.applied /\ work'.read = work.read
          /\ work'.revision = work.revision /\ work'.content = work.content
          /\ work'.todo = Objects /\ work'.obj.spec = work.obj.spec
      BY <2>1, <2>3, <2>4 DEF Work
    <3>2. Versioned(work.obj.spec)
            => work.revision \in Versions /\ work.content = ContentOf[work.revision]
      BY <1>6 DEF Inspect, AttemptIsInstalled
    <3>3. Objects' = Objects
      BY <3>1 DEF Objects
    <3> QED
      BY <2>2, <2>4, <3>1, <3>2, <3>3 DEF AttemptIsInstalled
  <2>5. \A o \in {Counting, Inspected}, reason \in Reasons :
          /\ [o EXCEPT !.ready = reason] \in Object
          /\ [o EXCEPT !.ready = reason].applied = work.obj.applied
    BY <2>3 DEF Object
  <2>6. {"BreakingChangeDetected", "CRDValidationFailed", "ResourceManagerCreateFailed",
         "ReadingObjectsToApplyFailed", "BreakingChangeDetectionFailed"} \subseteq Reasons
    BY DEF Reasons
  <2>7. CASE Return(Inspected, TRUE)
    BY <2>1, <2>2, <2>3, <2>7, AttemptUnrecorded
  <2>8. CASE \E o \in {Counting, Inspected}, reason \in Reasons :
               Return([o EXCEPT !.ready = reason], TRUE)
    BY <2>1, <2>2, <2>5, <2>8, AttemptUnrecorded
  <2>9. CASE \E reason \in Reasons : Fail(reason)
    BY <2>1, <2>2, <2>9, AttemptFailed
  <2> QED
    BY <1>6, <2>4, <2>6, <2>7, <2>8, <2>9 DEF Inspect
<1>7. ASSUME NEW c \in CRDNames, Apply(c) PROVE AttemptIsInstalled'
  <2> DEFINE k == Target(work.obj.spec)
             i == [content |-> work.content, by |-> work.key]
  <2>1. work \in Work /\ k \in Clusters
    BY <1>7 DEF TypeOK, Apply, Target, Clusters
  <2>2. pc' = "apply" /\ work' = [work EXCEPT !.todo = @ \ {c}]
    BY <1>7 DEF Apply
  <2>3. /\ work'.obj = work.obj /\ work'.read = work.read /\ work'.key = work.key
        /\ work'.revision = work.revision /\ work'.content = work.content
        /\ work'.todo = work.todo \ {c}
    BY <2>1, <2>2 DEF Work
  <2>4. crds'[k][c] = i /\ \A d \in CRDNames \ {c} : crds'[k][d] = crds[k][d]
    BY <1>7, <2>1 DEF Apply, StoreCRD, TypeOK
  <2>5. \A d \in Objects \ work.todo : crds[k][d] = i
    BY <1>7 DEF Apply, AttemptIsInstalled
  <2>6. Objects \subseteq CRDNames /\ Objects' = Objects
    BY <1>7, <2>3, ReconcilerAssumption DEF Apply, TypeOK, Objects
  <2>7. \A d \in Objects' \ work'.todo : crds'[k][d] = i
    BY <2>3, <2>4, <2>5, <2>6
  <2>8. /\ work.obj.applied = work.read.applied
        /\ Versioned(work.obj.spec)
             => work.revision \in Versions /\ work.content = ContentOf[work.revision]
    BY <1>7 DEF Apply, AttemptIsInstalled
  <2> QED
    BY <2>2, <2>3, <2>7, <2>8 DEF AttemptIsInstalled
<1>8. CASE ApplyFails
  <2>1. work \in Work /\ work.obj.applied = work.read.applied
    BY <1>8 DEF TypeOK, ApplyFails, AttemptIsInstalled
  <2> QED
    BY <1>8, <2>1, AttemptFailed DEF ApplyFails, Reasons
<1>9. CASE Wait
  <2>1. work \in Work /\ work.obj \in Object /\ UNCHANGED crds
    BY <1>9 DEF TypeOK, Wait, Work
  <2>2. /\ work.obj.applied = work.read.applied
        /\ Versioned(work.obj.spec)
             => work.revision \in Versions /\ work.content = ContentOf[work.revision]
        /\ \A c \in Objects : crds[Target(work.obj.spec)][c]
                                 = [content |-> work.content, by |-> work.key]
    BY <1>9 DEF Wait, AttemptIsInstalled
  <2>3. CASE \E failed \in BOOLEAN : Return(Done, failed)
    <3>1. Done \in Object
      BY <2>1, CountedType DEF Done, Object, Work, Reasons
    <3>2. Done.applied = work.revision /\ Done.spec = work.obj.spec
      BY <2>1 DEF Done, Object
    <3>3. pc' = "conditions" /\ work'.key = work.key /\ work'.content = work.content
          /\ work'.obj = [Done EXCEPT !.observed = Done.generation]
      BY <2>1, <2>3 DEF Return, Work
    <3>4. work'.obj.applied = work.revision /\ work'.obj.spec = work.obj.spec
      BY <3>1, <3>2, <3>3 DEF Object
    <3>5. \A c \in Objects' : crds'[Target(work'.obj.spec)][c]
                               = [content |-> work'.content, by |-> work'.key]
      BY <2>1, <2>2, <3>3, <3>4 DEF Objects
    <3> QED
      BY <2>2, <3>3, <3>4, <3>5 DEF AttemptIsInstalled
  <2>4. CASE Fail("WaitingOnObjectsFailed")
    BY <2>1, <2>2, <2>4, AttemptFailed DEF Reasons
  <2> QED
    BY <1>9, <2>3, <2>4 DEF Wait
<1>10. CASE PatchConditions \/ PatchMetadata \/ PatchStatus \/ DropFinalizer
  BY <1>10, AttemptPatched
<1>11. ASSUME NEW c \in CRDNames, PruneCRD(c) \/ PruneFails(c) PROVE AttemptIsInstalled'
  <2>1. work \in Work
    BY <1>11 DEF TypeOK, PruneCRD, PruneFails
  <2>2. pc' \in {"prune", "done"} /\ work'.obj = work.obj /\ work'.read = work.read
    BY <1>11, <2>1 DEF PruneCRD, PruneFails, Work
  <2>3. work.obj.applied = work.read.applied
    BY <1>11 DEF PruneCRD, PruneFails, AttemptIsInstalled
  <2> QED
    BY <2>2, <2>3 DEF AttemptIsInstalled
<1>12. CASE Finish
  BY <1>12 DEF Finish, AttemptIsInstalled
<1>13. CASE \E b \in Bootstraps : \/ Create(b) \/ EditSpec(b) \/ Delete(b)
                                  \/ BeginIgnored(b) \/ BeginFails(b) \/ Sync(b) \/ TimerFires(b)
  BY <1>1, <1>13 DEF Create, EditSpec, Delete, Edit, BeginIgnored, BeginFails, Take, Sync, TimerFires
<1>14. CASE Release \/ UNCHANGED vars \/ \E c \in CRDNames : SyncCRD(c)
  BY <1>1, <1>14 DEF Release, SyncCRD, vars
<1> QED
  BY <1>2, <1>3, <1>4, <1>5, <1>6, <1>7, <1>8, <1>9, <1>10, <1>11, <1>12, <1>13, <1>14
     DEF Next, Environment, Delivery, Begin, Worker

(* What an attempt has applied so far is installed from the manifest it    *)
(* fetched, for versioned sources that of its revision, until its status   *)
(* is patched.                                                             *)
THEOREM AttemptsAreInstalled == Spec => []AttemptIsInstalled
<1>1. Init => AttemptIsInstalled
  BY DEF Init, AttemptIsInstalled
<1>2. TypeOK /\ AttemptIsInstalled /\ [Next]_vars => AttemptIsInstalled'
  BY AttemptStep
<1> QED
  BY <1>1, <1>2, TypeCorrect, PTL DEF Spec

-----------------------------------------------------------------------------
(* The recorded revision is only ever changed by the status patch.         *)

Kept(b) ==
  api'[b] # Gone => api'[b].applied = IF api[b] = Gone THEN Gone ELSE api[b].applied

LEMMA KeptFrame ==
  ASSUME TypeOK, NEW k \in Bootstraps, NEW o \in Object, api' = [api EXCEPT ![k] = o],
         api[k] # Gone, o.applied = api[k].applied
  PROVE  \A b \in Bootstraps : Kept(b)
  BY DEF TypeOK, Kept

LEMMA KeptElsewhere ==
  ASSUME TypeOK, [Next]_vars, ~PatchStatus
  PROVE  \A b \in Bootstraps : Kept(b)
<1>1. CASE UNCHANGED api
  BY <1>1 DEF Kept
<1>2. CASE \E b \in Bootstraps : Create(b)
  BY <1>2 DEF Create, Store, TypeOK, NewObject, Kept
<1>3. ASSUME NEW b \in Bootstraps, EditSpec(b)
      PROVE  \A d \in Bootstraps : Kept(d)
  <2>1. api[b] \in Object /\ api[b] # Gone
    BY <1>3 DEF EditSpec, TypeOK
  <2> DEFINE next == api[b].generation + 1
  <2>2. PICK spec \in Specs :
          api' = [api EXCEPT ![b] = [api[b] EXCEPT !.spec = spec, !.generation = next]]
    BY <1>3 DEF EditSpec, Store
  <2>3. next \in Nat
    BY <2>1 DEF Object
  <2> HIDE DEF next
  <2>4. /\ [api[b] EXCEPT !.spec = spec, !.generation = next] \in Object
        /\ [api[b] EXCEPT !.spec = spec, !.generation = next].applied = api[b].applied
    BY <2>1, <2>3 DEF Object
  <2> QED
    BY <2>1, <2>2, <2>4, KeptFrame
<1>4. ASSUME NEW b \in Bootstraps, Delete(b)
      PROVE  \A d \in Bootstraps : Kept(d)
  <2>1. api[b] \in Object /\ api[b] # Gone
    BY <1>4 DEF Delete, TypeOK
  <2> DEFINE next == api[b].generation + 1
             o == [api[b] EXCEPT !.deleting = TRUE, !.generation = next]
  <2>2. api' = [api EXCEPT ![b] = o] \/ api' = [api EXCEPT ![b] = Gone]
    BY <1>4 DEF Delete, Store
  <2>3. next \in Nat
    BY <2>1 DEF Object
  <2> HIDE DEF next
  <2>4. o \in Object /\ o.applied = api[b].applied
    BY <2>1, <2>3 DEF Object
  <2> HIDE DEF o
  <2>5. CASE api' = [api EXCEPT ![b] = o]
    BY <2>1, <2>4, <2>5, KeptFrame
  <2>6. CASE api' = [api EXCEPT ![b] = Gone]
    BY <2>6 DEF TypeOK, Kept
  <2> QED
    BY <2>2, <2>5, <2>6
<1>5. CASE PatchConditions \/ PatchMetadata \/ DropFinalizer
  <2> DEFINE now == api[work.key]
  <2>1. work.key \in Bootstraps /\ work.obj \in Object
    BY <1>5 DEF TypeOK, Work, PatchConditions, PatchMetadata, DropFinalizer
  <2>2. \/ UNCHANGED api
        \/ now # Gone /\ api' = [api EXCEPT ![work.key] = [now EXCEPT !.ready = work.obj.ready]]
        \/ now # Gone /\ api' = [api EXCEPT ![work.key] = [now EXCEPT !.finalizer = work.obj.finalizer]]
        \/ now # Gone /\ api' = [api EXCEPT ![work.key] = [now EXCEPT !.finalizer = FALSE]]
        \/ api' = [api EXCEPT ![work.key] = Gone]
    BY <1>5 DEF PatchConditions, PatchMetadata, DropFinalizer, Patch, Store
  <2>3. now # Gone => now \in Object
    BY <2>1 DEF TypeOK
  <2>4. \A r \in Reasons, f \in BOOLEAN :
          now # Gone =>
            /\ [now EXCEPT !.ready = r] \in Object /\ [now EXCEPT !.finalizer = f] \in Object
            /\ [now EXCEPT !.ready = r].applied = now.applied
            /\ [now EXCEPT !.finalizer = f].applied = now.applied
    BY <2>3 DEF Object
  <2>5. work.obj.ready \in Reasons /\ work.obj.finalizer \in BOOLEAN
    BY <2>1 DEF Object
  <2>6. CASE api' = [api EXCEPT ![work.key] = Gone]
    BY <2>1, <2>6 DEF TypeOK, Kept
  <2> QED
    BY <1>1, <2>1, <2>2, <2>4, <2>5, <2>6, KeptFrame
<1> QED
  <2>1. \/ UNCHANGED api
        \/ PatchConditions \/ PatchMetadata \/ DropFinalizer
        \/ \E b \in Bootstraps : Create(b) \/ EditSpec(b) \/ Delete(b)
    BY DEF Next, Environment, Delivery, Begin, Worker, vars, Release, Crash, Sync, TimerFires,
           SyncCRD, BeginIgnored, BeginFails, BeginReconcile, BeginDelete, Take, Check, Fetch, Inspect,
           Apply, ApplyFails, Wait, PruneCRD, PruneFails, Finish
  <2> QED
    BY <1>1, <1>2, <1>3, <1>4, <1>5, <2>1

LEMMA RecordedByPatch ==
  ASSUME TypeOK, PatchStatus, NEW b \in Bootstraps, SameObject(api[b], api'[b])
  PROVE  \/ api'[b].applied = api[b].applied
         \/ /\ pc = "status" /\ b = work.key
            /\ work.obj.applied # work.read.applied
            /\ api'[b].applied = work.obj.applied
<1> DEFINE now == api[work.key]
           new(field) == Merged(field, now, work.read, work.obj)
<1>1. pc = "status" /\ work.key \in Bootstraps /\ work.obj \in Object /\ work.read \in Object
  BY DEF TypeOK, PatchStatus, Work
<1>2. CASE UNCHANGED api
  BY <1>2
<1>3. CASE now # Gone /\ ~UNCHANGED api
  <2>1. PICK names :
          api' = [api EXCEPT ![work.key] =
                    [now EXCEPT !.observed = new("observed"), !.attempted = new("attempted"),
                                !.applied = new("applied"), !.breaking = new("breaking"),
                                !.names = names]]
    BY <1>3 DEF PatchStatus, Patch, Store
  <2>2. now \in Object
    BY <1>1, <1>3 DEF TypeOK
  <2>3. CASE b # work.key
    BY <1>1, <2>1, <2>3 DEF TypeOK
  <2>4. CASE b = work.key
    <3>1. api'[b].applied = new("applied")
      BY <1>1, <2>1, <2>2, <2>4 DEF TypeOK, Object
    <3> QED
      BY <1>1, <2>2, <2>4, <3>1 DEF Merged, Object
  <2> QED
    BY <2>3, <2>4
<1> QED
  BY <1>2, <1>3 DEF PatchStatus, Patch

(* An object's lastAppliedRevision changes only when the whole bundle that *)
(* was fetched, for versioned sources that of the revision recorded, is    *)
(* installed in the attempt's target cluster.                              *)
THEOREM RecordsAreTrue == Spec => RecordedIsInstalled
<1> DEFINE Step ==
             \A b \in Bootstraps :
               SameObject(api[b], api'[b]) =>
                 \/ api'[b].applied = api[b].applied
                 \/ /\ \A c \in Objects : crds[Target(work.obj.spec)][c]
                                           = [content |-> work.content, by |-> b]
                    /\ Versioned(work.obj.spec) => work.content = ContentOf[api'[b].applied]
<1>1. TypeOK /\ AttemptIsInstalled /\ [Next]_vars => Step
  <2> SUFFICES ASSUME TypeOK, AttemptIsInstalled, [Next]_vars,
                      NEW b \in Bootstraps, SameObject(api[b], api'[b]),
                      api'[b].applied # api[b].applied
               PROVE  /\ \A c \in Objects : crds[Target(work.obj.spec)][c]
                                             = [content |-> work.content, by |-> b]
                      /\ Versioned(work.obj.spec) => work.content = ContentOf[api'[b].applied]
    OBVIOUS
  <2>1. PatchStatus
    BY KeptElsewhere DEF Kept, SameObject
  <2>2. /\ pc = "status" /\ b = work.key
        /\ work.obj.applied # work.read.applied
        /\ api'[b].applied = work.obj.applied
    BY <2>1, RecordedByPatch
  <2> QED
    BY <2>2 DEF AttemptIsInstalled
<1>2. TypeOK /\ AttemptIsInstalled /\ [Next]_vars => [Step]_api
  BY <1>1
<1> QED
  BY <1>2, TypeCorrect, AttemptsAreInstalled, PTL DEF Spec, RecordedIsInstalled

-----------------------------------------------------------------------------
(* The record only rolls forward.                                          *)

(* What an update may put in the place of an applied revision: a digest,   *)
(* or, unless that one is a digest, a later version.                       *)
Later(r, applied) ==
  \/ r \in Contents
  \/ r \in Versions /\ applied \notin Contents /\ (applied \in Versions => applied < r)

LEMMA UpdateIsLater ==
  ASSUME NEW up \in Upstream, NEW spec, NEW applied \in Revision,
         spec.digest \in Contents \cup {Gone}, HasUpdate(up, spec, applied).is = "update"
  PROVE  Later(HasUpdate(up, spec, applied).revision, applied)
<1>1. CASE Handler(spec.source) = "url"
  BY <1>1, URLUpdate DEF Later
<1>2. CASE Versioned(spec) \/ Handler(spec.source) = "helm-http"
  BY <1>2, VersionedUpdate DEF Later
<1> QED
  BY <1>1, <1>2, UpdateHandled

(* What the job in progress will record is what it read, or later.         *)
AttemptForward ==
  /\ pc \notin {"idle", "done"} =>
       \/ work.obj.applied = work.read.applied
       \/ Later(work.obj.applied, work.read.applied)
  /\ pc \in {"fetch", "inspect", "apply"} => Later(work.revision, work.read.applied)

LEMMA VersionsOrdered ==
  /\ \A v \in Versions : v <= v
  /\ \A v, w \in Versions : v < w => v <= w
<1>1. Versions \subseteq Nat
  BY SourceAssumption
<1> QED
  BY <1>1

-----------------------------------------------------------------------------
(* A return whose working copy records nothing new. *)
LEMMA ReturnForward ==
  ASSUME TypeOK, pc \notin {"idle", "done"},
         NEW o \in Object, NEW failed \in BOOLEAN, Return(o, failed),
         o.applied = work.read.applied \/ Later(o.applied, work.read.applied)
  PROVE  AttemptForward'
<1>1. work \in Work
  BY DEF TypeOK
<1>2. /\ pc' = "conditions" /\ work'.key = work.key /\ work'.read = work.read
      /\ work'.obj = [o EXCEPT !.observed = o.generation]
  BY <1>1 DEF Return, Work
<1>3. work'.obj.applied = o.applied
  BY <1>2 DEF Object
<1> QED
  BY <1>2, <1>3 DEF AttemptForward

LEMMA FailForward ==
  ASSUME TypeOK, pc \notin {"idle", "done"}, work.obj.applied = work.read.applied,
         NEW reason \in Reasons, Fail(reason)
  PROVE  AttemptForward'
<1> DEFINE o == [work.obj EXCEPT !.ready = reason]
<1>1. work.obj \in Object
  BY DEF TypeOK, Work
<1>2. o \in Object /\ o.applied = work.read.applied
  BY <1>1 DEF Object
<1>3. Return(o, TRUE)
  BY DEF Fail
<1> HIDE DEF o
<1> QED
  BY <1>2, <1>3, ReturnForward

(* A step of the attempt that keeps what it has read and will record. *)
LEMMA ProgressForward ==
  ASSUME AttemptForward, pc \notin {"idle", "done"},
         work'.read = work.read, work'.obj.applied = work.obj.applied,
         pc' \in {"fetch", "inspect", "apply"} => Later(work'.revision, work.read.applied)
  PROVE  AttemptForward'
  BY DEF AttemptForward

LEMMA CheckForward ==
  ASSUME TypeOK, AttemptIsInstalled, AttemptForward, Check
  PROVE  AttemptForward'
<1>1. /\ pc = "check"
      /\ work \in Work /\ work.obj \in Object /\ work.obj.applied = work.read.applied
  BY DEF Check, TypeOK, Work, AttemptIsInstalled
<1>2. CASE /\ Answer.is = "update"
           /\ pc' = "fetch"
           /\ work' = [work EXCEPT !.revision = Answer.revision,
                                   !.obj.attempted = Answer.revision]
  <2>1. /\ work'.read = work.read
        /\ work'.obj.applied = work.obj.applied /\ work'.revision = Answer.revision
    BY <1>1, <1>2 DEF Work, Object
  <2>2. /\ upstream \in Upstream /\ work.obj.applied \in Revision
        /\ work.obj.spec.digest \in Contents \cup {Gone}
    BY <1>1, ReconcilerAssumption DEF TypeOK, Object, BootstrapSpec
  <2>3. Later(Answer.revision, work.obj.applied)
    BY <1>2, <2>2, UpdateIsLater DEF Answer
  <2> QED
    BY <1>1, <1>2, <2>1, <2>3, ProgressForward
<1>3. /\ [work.obj EXCEPT !.ready = "Succeeded"] \in Object
      /\ [work.obj EXCEPT !.ready = "Succeeded"].applied = work.read.applied
  BY <1>1 DEF Object, Reasons
<1>4. CASE Return([work.obj EXCEPT !.ready = "Succeeded"], FALSE)
  BY <1>1, <1>3, <1>4, ReturnForward
<1>5. CASE Return(work.obj, TRUE)
  BY <1>1, <1>5, ReturnForward
<1> QED
  BY <1>2, <1>4, <1>5 DEF Check

LEMMA FetchForward ==
  ASSUME TypeOK, AttemptIsInstalled, AttemptForward, Fetch
  PROVE  AttemptForward'
<1>1. /\ pc = "fetch"
      /\ work \in Work /\ work.obj \in Object /\ work.obj.applied = work.read.applied
  BY DEF Fetch, TypeOK, Work, AttemptIsInstalled
<1>2. CASE work' = [work EXCEPT !.content = Fetched]
  <2>1. /\ work'.read = work.read
        /\ work'.obj = work.obj /\ work'.revision = work.revision
    BY <1>1, <1>2 DEF Work
  <2> QED
    BY <1>1, <2>1, ProgressForward DEF AttemptForward
<1>3. CASE Return(work.obj, TRUE)
  BY <1>1, <1>3, ReturnForward
<1>4. CASE \E reason \in Reasons : Fail(reason)
  BY <1>1, <1>4, FailForward
<1> QED
  BY <1>2, <1>3, <1>4 DEF Fetch, Reasons

LEMMA InspectForward ==
  ASSUME TypeOK, AttemptIsInstalled, AttemptForward, Inspect
  PROVE  AttemptForward'
<1>1. /\ pc = "inspect"
      /\ work \in Work /\ work.obj \in Object /\ work.obj.applied = work.read.applied
  BY DEF Inspect, TypeOK, Work, AttemptIsInstalled
<1>2. /\ Counting \in Object /\ Counting.applied = work.obj.applied
      /\ Inspected \in Object /\ Inspected.applied = work.obj.applied
  BY <1>1, CountingType DEF Counting, Inspected, Object
<1>3. CASE work' = [work EXCEPT !.obj = Inspected, !.todo = Objects]
  <2>1. /\ work'.read = work.read
        /\ work'.obj = Inspected /\ work'.revision = work.revision
    BY <1>1, <1>3 DEF Work
  <2> QED
    BY <1>1, <1>2, <2>1, ProgressForward DEF AttemptForward
<1>4. \A o \in {Counting, Inspected}, reason \in Reasons :
        /\ [o EXCEPT !.ready = reason] \in Object
        /\ [o EXCEPT !.ready = reason].applied = work.read.applied
  BY <1>1, <1>2 DEF Object
<1>5. CASE \E o \in {Counting, Inspected}, reason \in Reasons :
             Return([o EXCEPT !.ready = reason], TRUE)
  BY <1>1, <1>4, <1>5, ReturnForward
<1>6. CASE Return(Inspected, TRUE)
  BY <1>1, <1>2, <1>6, ReturnForward
<1>7. CASE \E reason \in Reasons : Fail(reason)
  BY <1>1, <1>7, FailForward
<1> QED
  BY <1>3, <1>5, <1>6, <1>7 DEF Inspect, Reasons

LEMMA WaitForward ==
  ASSUME TypeOK, AttemptIsInstalled, AttemptForward, Wait
  PROVE  AttemptForward'
<1>1. /\ pc = "apply"
      /\ work \in Work /\ work.obj \in Object /\ work.obj.applied = work.read.applied
      /\ Later(work.revision, work.read.applied)
  BY DEF Wait, TypeOK, Work, AttemptIsInstalled, AttemptForward
<1>2. Done \in Object
  BY <1>1, CountedType DEF Done, Object, Work, Reasons, Revision
<1>3. Done.applied = work.revision
  BY <1>1 DEF Done, Object
<1>4. CASE \E failed \in BOOLEAN : Return(Done, failed)
  BY <1>1, <1>2, <1>3, <1>4, ReturnForward
<1>5. CASE Fail("WaitingOnObjectsFailed")
  BY <1>1, <1>5, FailForward DEF Reasons
<1> QED
  BY <1>4, <1>5 DEF Wait

LEMMA ForwardStep ==
  ASSUME TypeOK, AttemptIsInstalled, AttemptForward, [Next]_vars
  PROVE  AttemptForward'
<1>1. CASE UNCHANGED <<pc, work>>
  BY <1>1 DEF AttemptForward
<1>2. CASE pc' \in {"idle", "done"}
  BY <1>2 DEF AttemptForward
<1>3. ASSUME NEW b \in Bootstraps, BeginReconcile(b) \/ BeginDelete(b)
      PROVE  AttemptForward'
  <2>1. cache[b] \in Object /\ api' = api /\ pc' \in {"check", "prune"}
    BY <1>3 DEF TypeOK, BeginReconcile, BeginDelete, Take, Ignored
  <2>2. /\ work'.key = b /\ work'.read = cache[b]
        /\ \/ work'.obj = [cache[b] EXCEPT !.finalizer = TRUE]
           \/ work'.obj = [cache[b] EXCEPT !.finalizer = FALSE]
    <3>1. CASE BeginReconcile(b)
      BY <3>1 DEF BeginReconcile, Job
    <3>2. CASE BeginDelete(b)
      BY <3>2 DEF BeginDelete, Job
    <3> QED
      BY <1>3, <3>1, <3>2
  <2>3. work'.obj.applied = cache[b].applied
    BY <2>1, <2>2 DEF Object
  <2> QED
    BY <2>1, <2>2, <2>3 DEF AttemptForward
<1>4. CASE ApplyFails
  <2>1. pc = "apply" /\ work.obj.applied = work.read.applied
    BY <1>4 DEF ApplyFails, AttemptIsInstalled
  <2> QED
    BY <1>4, <2>1, FailForward DEF ApplyFails, Reasons
<1>5. CASE \E c \in CRDNames : Apply(c) \/ PruneCRD(c)
  <2>1. /\ pc \in {"apply", "prune"} /\ pc' = pc /\ work \in Work
        /\ \E c \in CRDNames : work' = [work EXCEPT !.todo = @ \ {c}]
    BY <1>5 DEF Apply, PruneCRD, TypeOK
  <2>2. /\ work'.read = work.read
        /\ work'.obj = work.obj /\ work'.revision = work.revision
    BY <2>1 DEF Work
  <2> QED
    BY <2>1, <2>2, ProgressForward DEF AttemptForward
<1>6. CASE PatchConditions \/ PatchMetadata
  <2>1. /\ pc \in {"conditions", "metadata"} /\ pc' \in {"metadata", "status"}
        /\ work \in Work
        /\ work' = work \/ work' = [work EXCEPT !.failed = TRUE]
    BY <1>6 DEF PatchConditions, PatchMetadata, Patch, TypeOK
  <2>2. work'.read = work.read /\ work'.obj = work.obj
    BY <2>1 DEF Work
  <2> QED
    BY <2>1, <2>2, ProgressForward
<1>7. CASE PatchStatus \/ DropFinalizer \/ Finish \/ Crash \/ \E c \in CRDNames : PruneFails(c)
  BY <1>2, <1>7 DEF PatchStatus, DropFinalizer, Patch, Finish, Crash, PruneFails
<1>8. CASE \/ UNCHANGED vars \/ Release \/ \E c \in CRDNames : SyncCRD(c)
           \/ \E b \in Bootstraps : \/ Create(b) \/ EditSpec(b) \/ Delete(b)
                                   \/ BeginIgnored(b) \/ BeginFails(b) \/ Sync(b) \/ TimerFires(b)
  BY <1>1, <1>8 DEF vars, Release, SyncCRD, Create, EditSpec, Delete, Edit, BeginIgnored,
                    BeginFails, Take, Sync, TimerFires
<1> QED
  BY <1>3, <1>4, <1>5, <1>6, <1>7, <1>8, CheckForward, FetchForward, InspectForward, WaitForward
     DEF Next, Environment, Delivery, Begin, Worker

(* In every state the attempt in progress is about to record a digest, or  *)
(* a version later than the one in the status it read.                     *)
THEOREM AttemptsGoForward == Spec => []AttemptForward
<1>1. Init => AttemptForward
  BY DEF Init, AttemptForward
<1>2. TypeOK /\ AttemptIsInstalled /\ AttemptForward /\ [Next]_vars => AttemptForward'
  BY ForwardStep
<1> QED
  BY <1>1, <1>2, TypeCorrect, AttemptsAreInstalled, PTL DEF Spec

(* README.md:98: no step of anybody replaces the recorded version of an    *)
(* object by an earlier one, or a digest by a version: not after failures, *)
(* crashes, edits of the source or withdrawn releases.  An attempt that    *)
(* was handed an older status than the API server's goes forward from that *)
(* one, however far the informer trails.                                   *)
THEOREM VersionsRollForward == Spec => RollsForward
<1>1. ASSUME TypeOK, AttemptForward, [Next]_vars,
             NEW b \in Bootstraps, SameObject(api[b], api'[b])
      PROVE  \/ Forward(api[b].applied, api'[b].applied)
             \/ /\ pc = "status" /\ work.key = b
                /\ work.read.applied # api[b].applied
                /\ Forward(work.read.applied, api'[b].applied)
  <2>1. CASE api'[b].applied = api[b].applied
    BY <2>1, VersionsOrdered DEF Forward
  <2>2. CASE api'[b].applied # api[b].applied
    <3>1. PatchStatus
      BY <1>1, <2>2, KeptElsewhere DEF Kept, SameObject
    <3>2. /\ pc = "status" /\ b = work.key
          /\ work.obj.applied # work.read.applied
          /\ api'[b].applied = work.obj.applied
      BY <1>1, <2>2, <3>1, RecordedByPatch
    <3>3. Later(api'[b].applied, work.read.applied)
      BY <1>1, <3>2 DEF AttemptForward
    <3>4. Forward(work.read.applied, api'[b].applied)
      BY <3>3, VersionsOrdered DEF Later, Forward
    <3> QED
      BY <3>2, <3>4
  <2> QED
    BY <2>1, <2>2
<1>2. TypeOK /\ AttemptForward /\ [Next]_vars =>
        [ \A b \in Bootstraps :
            SameObject(api[b], api'[b]) =>
              \/ Forward(api[b].applied, api'[b].applied)
              \/ /\ pc = "status" /\ work.key = b
                 /\ work.read.applied # api[b].applied
                 /\ Forward(work.read.applied, api'[b].applied) ]_api
  BY <1>1
<1> QED
  BY <1>2, TypeCorrect, AttemptsGoForward, PTL DEF Spec, RollsForward

-----------------------------------------------------------------------------
(* No source is a URL or an HTTP Helm repository: the revision recorded    *)
(* names the manifest that was fetched.                                    *)
VersionedSpecs == \A spec \in Specs : Versioned(spec)

LEMMA AttemptIsPublished ==
  ASSUME VersionedSpecs, AttemptIsInstalled, work.obj \in Object, pc = "status",
         work.obj.applied # work.read.applied
  PROVE  /\ work.obj.applied \in Versions
         /\ \A c \in Bundle[ContentOf[work.obj.applied]] :
               crds[Target(work.obj.spec)][c]
                 = [content |-> ContentOf[work.obj.applied], by |-> work.key]
<1>1. Versioned(work.obj.spec)
  BY DEF VersionedSpecs, Object
<1> QED
  BY <1>1 DEF AttemptIsInstalled, Objects
=============================================================================
