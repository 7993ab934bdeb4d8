--------------------------- MODULE Cluster_proofs ---------------------------
(* What the controller does to the CRDs of a cluster, however far its      *)
(* informers trail behind: what it replaces, what it prunes, and that      *)
(* together with the status it implements the ledger.                      *)
EXTENDS Views, Reconciler_proofs

LocalSpecs == \A spec \in Specs : ~spec.remote

OwnNames == \A b, d \in Bootstraps : NameOf[b] = NameOf[d] => b = d

(* The history variable only watches: the steps are those of Reconciler.   *)
LEMMA ViewsWatch == ViewNext <=> Next /\ Look
<1>1. ViewNext => Next /\ Look
  BY Zenon DEF ViewNext, Next, Environment, Delivery, Begin, Worker
<1>2. ASSUME Environment, Look PROVE ViewNext
  BY <1>2, Zenon DEF ViewNext, Environment
<1>3. ASSUME Delivery, Look PROVE ViewNext
  BY <1>3, Zenon DEF ViewNext, Delivery
<1>4. ASSUME NEW b \in Bootstraps, Begin(b), Look PROVE ViewNext
  BY <1>4, Zenon DEF ViewNext, Begin
<1>5. ASSUME Worker, Look PROVE ViewNext
  BY <1>5, Zenon DEF ViewNext, Worker
<1> QED
  BY <1>1, <1>2, <1>3, <1>4, <1>5 DEF Next

LEMMA ViewsOfSpec == ViewSpec => Spec
<1>1. ViewInit => Init
  BY DEF ViewInit
<1>2. [ViewNext]_<<vars, view>> => [Next]_vars
  BY ViewsWatch
<1> QED
  BY <1>1, <1>2, PTL DEF ViewSpec, Spec

(* An attempt is for an object that was not being deleted when it was read. *)
AttemptKnown == pc \in {"check", "fetch", "inspect", "apply"} => ~work.read.deleting

Replaceable(c) ==
  view.shown[c] # Gone =>
    LET change == <<c, view.shown[c].content, work.content>>
    IN  /\ change \in Breaks => work.obj.spec.ignoreBreakingChanges
        /\ change \notin Incomparable

(* What was compared is, but for the CRDs the informer trailed with, what  *)
(* is there when the last object is applied: only the worker writes CRDs,  *)
(* and each object of a bundle only once.                                  *)
ApplyKnown ==
  pc = "apply" =>
    /\ work.todo \subseteq Objects
    /\ \A c \in work.todo : /\ Replaceable(c)
                            /\ c \notin view.late => crds["local"][c] = view.shown[c]

(* What is left to delete is what the list showed; what it showed of this  *)
(* object's own is either left to delete or gone.                          *)
PruneKnown ==
  pc = "prune" =>
    /\ work.read.deleting
    /\ work.todo # {} => work.read.spec.prune
    /\ \A c \in work.todo : /\ view.shown[c] # Gone
                            /\ NameOf[view.shown[c].by] = NameOf[work.key]
    /\ \A c \in CRDNames \ view.late :
         crds["local"][c] # Gone => crds["local"][c] = view.shown[c]
    /\ work.read.spec.prune =>
         \A c \in CRDNames :
           view.shown[c] # Gone /\ view.shown[c].by = work.key
             => c \in work.todo \/ crds["local"][c] = Gone

ViewInv ==
  /\ view \in [shown : [CRDNames -> Installed \cup {Gone}], late : SUBSET CRDNames]
  /\ pc \notin Acting => view = Unseen
  /\ LocalSpecs => \A c \in CRDNames : crds["remote"][c] = Gone
  /\ AttemptKnown
  /\ ApplyKnown
  /\ PruneKnown

-----------------------------------------------------------------------------
LEMMA CRDsWritten ==
  ASSUME [Next]_vars
  PROVE  \/ UNCHANGED crds
         \/ \E c \in CRDNames : Apply(c) \/ PruneCRD(c)
  BY DEF Next, Environment, Delivery, Begin, Worker, vars, Create, EditSpec, Delete, Edit,
         Release, Crash, Sync, TimerFires, SyncCRD, BeginIgnored, BeginFails, BeginReconcile, BeginDelete,
         Take, Check, Fetch, Inspect, ApplyFails, Wait, PatchConditions, PatchMetadata,
         PatchStatus, Patch, DropFinalizer, PruneFails, Finish

LEMMA ApplyWrites ==
  ASSUME TypeOK, NEW c \in CRDNames, Apply(c)
  PROVE  /\ work \in Work /\ pc = "apply" /\ pc' = "apply" /\ c \in work.todo
         /\ UNCHANGED api
         /\ work'.key = work.key /\ work'.obj = work.obj /\ work'.content = work.content
         /\ work'.todo = work.todo \ {c}
         /\ Target(work.obj.spec) \in Clusters
         /\ crds' = [crds EXCEPT ![Target(work.obj.spec)][c] =
                       [content |-> work.content, by |-> work.key]]
  BY DEF TypeOK, Apply, StoreCRD, Work, Target, Clusters

LEMMA PruneWrites ==
  ASSUME TypeOK, NEW c \in CRDNames, PruneCRD(c)
  PROVE  /\ work \in Work /\ pc = "prune" /\ pc' = "prune" /\ c \in work.todo
         /\ UNCHANGED api
         /\ work'.key = work.key /\ work'.read = work.read
         /\ work'.todo = work.todo \ {c}
         /\ crds["local"][c] # Gone
         /\ crds' = [crds EXCEPT !["local"][c] = Gone]
  BY DEF TypeOK, PruneCRD, StoreCRD, Work, Clusters

LEMMA RemoteEmpty ==
  ASSUME TypeOK, LocalSpecs, [Next]_vars, \A c \in CRDNames : crds["remote"][c] = Gone
  PROVE  \A c \in CRDNames : crds'["remote"][c] = Gone
<1>1. ASSUME NEW c \in CRDNames, Apply(c)
      PROVE  \A d \in CRDNames : crds'["remote"][d] = Gone
  <2>1. Target(work.obj.spec) = "local"
    BY <1>1, ApplyWrites DEF LocalSpecs, Target, Work, Object
  <2> QED
    BY <1>1, <2>1, ApplyWrites DEF TypeOK, Clusters
<1>2. ASSUME NEW c \in CRDNames, PruneCRD(c)
      PROVE  \A d \in CRDNames : crds'["remote"][d] = Gone
  BY <1>2, PruneWrites DEF TypeOK, Clusters
<1> QED
  BY <1>1, <1>2, CRDsWritten

LEMMA LookCases ==
  ASSUME Look
  PROVE  /\ pc' \notin Acting => view' = Unseen
         /\ pc' \in Acting /\ pc' = pc => view' = view
         /\ pc' \in Acting /\ pc' # pc => view' = Seen
  BY DEF Look

LEMMA ViewType ==
  ASSUME TypeOK, ViewInv, Look
  PROVE  /\ view' \in [shown : [CRDNames -> Installed \cup {Gone}], late : SUBSET CRDNames]
         /\ pc' \notin Acting => view' = Unseen
<1>1. /\ Unseen \in [shown : [CRDNames -> Installed \cup {Gone}], late : SUBSET CRDNames]
      /\ Seen \in [shown : [CRDNames -> Installed \cup {Gone}], late : SUBSET CRDNames]
  BY DEF Unseen, Seen, TypeOK
<1> QED
  BY <1>1, LookCases DEF ViewInv

-----------------------------------------------------------------------------
(* The job of the worker. *)

LEMMA JobTaken ==
  ASSUME TypeOK, [Next]_vars, pc = "idle", pc' # "idle"
  PROVE  \E b \in Bootstraps : BeginReconcile(b) \/ BeginDelete(b)
  BY DEF Next, Environment, Delivery, Begin, Worker, vars, Create, EditSpec, Delete, Edit,
         Release, Crash, Sync, TimerFires, SyncCRD, BeginIgnored, BeginFails, Take, Check,
         Fetch, Inspect, Apply, ApplyFails, Wait, PatchConditions, PatchMetadata, PatchStatus,
         PruneCRD, PruneFails, DropFinalizer, Finish

LEMMA JobRead ==
  ASSUME TypeOK, NEW b \in Bootstraps, BeginReconcile(b) \/ BeginDelete(b)
  PROVE  /\ cache[b] \in Object /\ cache[b] # Gone
         /\ pc = "idle" /\ UNCHANGED <<api, cache, crds, crdCache>>
         /\ work'.key = b /\ work'.read = cache[b]
         /\ \/ pc' = "check" /\ ~cache[b].deleting
            \/ /\ pc' = "prune" /\ cache[b].deleting
               /\ work'.todo = IF cache[b].spec.prune THEN Owned(b) ELSE {}
<1>1. CASE BeginReconcile(b)
  BY <1>1 DEF BeginReconcile, Take, Ignored, Job, TypeOK
<1>2. CASE BeginDelete(b)
  BY <1>2 DEF BeginDelete, Take, Ignored, Job, TypeOK
<1> QED
  BY <1>1, <1>2

LEMMA JobKept ==
  ASSUME TypeOK, [Next]_vars, pc # "idle", pc' # "idle"
  PROVE  work'.key = work.key /\ work'.read = work.read
<1>1. work \in Work
  BY DEF TypeOK
<1>2. ASSUME NEW o, NEW failed, Return(o, failed)
      PROVE  work'.key = work.key /\ work'.read = work.read
  BY <1>1, <1>2 DEF Return, Work
<1>3. CASE \E reason : Fail(reason)
  BY <1>2, <1>3 DEF Fail
<1>4. CASE UNCHANGED work
  BY <1>4
<1>5. CASE Check
  BY <1>1, <1>2, <1>5 DEF Check, Work
<1>6. CASE Fetch
  BY <1>1, <1>2, <1>3, <1>6 DEF Fetch, Work
<1>7. CASE Inspect
  BY <1>1, <1>2, <1>3, <1>7 DEF Inspect, Work
<1>8. CASE ApplyFails \/ Wait
  BY <1>2, <1>3, <1>8 DEF ApplyFails, Wait
<1>9. CASE \E c \in CRDNames : Apply(c) \/ PruneCRD(c) \/ PruneFails(c)
  BY <1>1, <1>9 DEF Apply, PruneCRD, PruneFails, Work
<1>10. CASE PatchConditions \/ PatchMetadata \/ PatchStatus \/ DropFinalizer
  <2>1. work' = work \/ work' = [work EXCEPT !.failed = TRUE]
    BY <1>10 DEF PatchConditions, PatchMetadata, PatchStatus, DropFinalizer, Patch
  <2> QED
    BY <1>1, <2>1 DEF Work
<1> QED
  BY <1>4, <1>5, <1>6, <1>7, <1>8, <1>9, <1>10
     DEF Next, Environment, Delivery, Begin, Worker, vars, Create, EditSpec, Delete, Edit,
         Release, Crash, Sync, TimerFires, SyncCRD, BeginIgnored, BeginFails, BeginReconcile,
         BeginDelete, Take, Finish

LEMMA AttemptKnownStep ==
  ASSUME TypeOK, ViewInv, [Next]_vars
  PROVE  AttemptKnown'
<1>1. CASE pc' \notin {"check", "fetch", "inspect", "apply"}
  BY <1>1 DEF AttemptKnown
<1>2. CASE pc = "idle" /\ pc' # "idle"
  BY <1>2, JobTaken, JobRead DEF AttemptKnown
<1>3. CASE pc # "idle" /\ pc' \in {"check", "fetch", "inspect", "apply"}
  <2>1. pc \in {"check", "fetch", "inspect", "apply"}
    BY <1>3 DEF Next, Environment, Delivery, Begin, Worker, vars, Create, EditSpec, Delete,
         Edit, Release, Crash, Sync, TimerFires, SyncCRD, BeginIgnored, BeginFails,
         BeginReconcile, BeginDelete, Take, Check, Fetch, Inspect, Apply, ApplyFails, Wait,
         PatchConditions, PatchMetadata, PatchStatus, Patch, PruneCRD, PruneFails,
         DropFinalizer, Finish
  <2> QED
    BY <1>3, <2>1, JobKept DEF ViewInv, AttemptKnown
<1> QED
  BY <1>1, <1>2, <1>3

-----------------------------------------------------------------------------
LEMMA ApplyStep ==
  ASSUME TypeOK, ViewInv, [Next]_vars, Look
  PROVE  ApplyKnown'
<1>1. CASE pc' # "apply"
  BY <1>1 DEF ApplyKnown
<1>2. CASE UNCHANGED <<pc, work, crds>> /\ pc = "apply"
  <2>1. view' = view
    BY <1>2, LookCases DEF Acting
  <2> QED
    BY <1>2, <2>1 DEF ViewInv, ApplyKnown, Replaceable, Objects
<1>3. ASSUME NEW c \in CRDNames, Apply(c) PROVE ApplyKnown'
  <2>1. \A d \in work'.todo : crds'["local"][d] = crds["local"][d]
    <3>1. PICK k \in Clusters : \E i : crds' = [crds EXCEPT ![k][c] = i]
      BY <1>3, ApplyWrites
    <3>2. \A d \in work'.todo : d \in CRDNames \ {c}
      BY <1>3, ApplyWrites DEF Work
    <3> QED
      BY <3>1, <3>2 DEF TypeOK, Clusters
  <2>2. view' = view
    BY <1>3, ApplyWrites, LookCases DEF Acting
  <2> QED
    BY <1>3, <2>1, <2>2, ApplyWrites DEF ViewInv, ApplyKnown, Replaceable, Objects
<1>4. CASE Inspect /\ pc' = "apply"
  <2>1. /\ pc = "inspect" /\ work \in Work /\ work.obj \in Object
        /\ UNCHANGED <<crds, crdCache>>
        /\ ~Undecided /\ ~Blocked
        /\ work' = [work EXCEPT !.obj = Inspected, !.todo = Objects]
    BY <1>4 DEF Inspect, Return, Fail, TypeOK, Work
  <2>2. Inspected.spec = work.obj.spec
    BY <2>1, CountingType DEF Inspected, Counting, Object
  <2>3. /\ work'.content = work.content /\ work'.todo = Objects
        /\ work'.obj.spec = work.obj.spec
    BY <2>1, <2>2 DEF Work
  <2>4. view' = Seen
    BY <1>4, <2>1, LookCases DEF Acting
  <2>5. /\ view'.shown = crdCache
        /\ \A c \in CRDNames \ view'.late : crds["local"][c] = crdCache[c]
    BY <2>4 DEF Seen
  <2>6. Objects \subseteq CRDNames
    BY <2>1, ReconcilerAssumption DEF TypeOK, Objects
  <2>7. \A c \in Objects : crdCache[c] # Gone =>
          LET change == <<c, crdCache[c].content, work.content>>
          IN  /\ change \in Breaks => work.obj.spec.ignoreBreakingChanges
              /\ change \notin Incomparable
    BY <2>1 DEF Undecided, Blocked, Breaking
  <2>8. \A c \in work'.todo : Replaceable(c)'
    BY <2>3, <2>5, <2>7 DEF Replaceable
  <2> QED
    BY <2>1, <2>3, <2>5, <2>6, <2>8 DEF ApplyKnown, Objects
<1> QED
  BY <1>1, <1>2, <1>3, <1>4
     DEF Next, Environment, Delivery, Begin, Worker, vars, Create, EditSpec, Delete, Edit,
         Release, Crash, Sync, TimerFires, SyncCRD, BeginIgnored, BeginFails, BeginReconcile,
         BeginDelete, Take, Check, Fetch, ApplyFails, Wait, Return, Fail, PatchConditions,
         PatchMetadata, PatchStatus, Patch, DropFinalizer, PruneCRD, PruneFails, Finish

LEMMA PruneStep ==
  ASSUME TypeOK, ViewInv, [Next]_vars, Look
  PROVE  PruneKnown'
<1>1. CASE pc' # "prune"
  BY <1>1 DEF PruneKnown
<1>2. CASE UNCHANGED <<pc, work, crds>> /\ pc = "prune"
  <2>1. view' = view
    BY <1>2, LookCases DEF Acting
  <2> QED
    BY <1>2, <2>1 DEF ViewInv, PruneKnown
<1>3. ASSUME NEW c \in CRDNames, PruneCRD(c) PROVE PruneKnown'
  <2>1. /\ crds'["local"][c] = Gone
        /\ \A d \in CRDNames \ {c} : crds'["local"][d] = crds["local"][d]
        /\ work'.todo \subseteq CRDNames
    BY <1>3, PruneWrites DEF TypeOK, Clusters, Work
  <2>2. view' = view
    BY <1>3, PruneWrites, LookCases DEF Acting
  <2> QED
    BY <1>3, <2>1, <2>2, PruneWrites DEF ViewInv, PruneKnown
<1>4. ASSUME NEW b \in Bootstraps, BeginDelete(b) PROVE PruneKnown'
  <2>1. /\ pc = "idle" /\ pc' = "prune" /\ cache[b].deleting
        /\ UNCHANGED <<crds, crdCache>>
        /\ work'.key = b /\ work'.read = cache[b]
        /\ work'.todo = IF cache[b].spec.prune THEN Owned(b) ELSE {}
    BY <1>4, JobRead DEF BeginDelete
  <2>2. view' = Seen
    BY <2>1, LookCases DEF Acting
  <2>3. /\ view'.shown = crdCache
        /\ \A c \in CRDNames \ view'.late : crds["local"][c] = crdCache[c]
    BY <2>2 DEF Seen
  <2> QED
    BY <2>1, <2>3 DEF PruneKnown, Owned
<1> QED
  BY <1>1, <1>2, <1>3, <1>4
     DEF Next, Environment, Delivery, Begin, Worker, vars, Create, EditSpec, Delete, Edit,
         Release, Crash, Sync, TimerFires, SyncCRD, BeginIgnored, BeginFails, BeginReconcile,
         Take, Check, Fetch, Inspect, Apply, ApplyFails, Wait, Return, Fail, PatchConditions,
         PatchMetadata, PatchStatus, Patch, DropFinalizer, PruneFails, Finish

LEMMA ViewFrame ==
  ASSUME ViewInv, UNCHANGED <<vars, view>>
  PROVE  ViewInv'
  BY DEF ViewInv, vars, AttemptKnown, ApplyKnown, PruneKnown, Replaceable, Objects

(* In every state what the worker saw when it compared or listed the CRDs  *)
(* is what it still acts on, and what the informer had right is still so.  *)
THEOREM ViewsAreKnown == ViewSpec => []ViewInv
<1>1. ViewInit => ViewInv
  <2>1. Unseen \in [shown : [CRDNames -> Installed \cup {Gone}], late : SUBSET CRDNames]
    BY DEF Unseen
  <2> QED
    BY <2>1 DEF ViewInit, Init, ViewInv, AttemptKnown, ApplyKnown, PruneKnown, Clusters
<1>2. TypeOK /\ ViewInv /\ [ViewNext]_<<vars, view>> => ViewInv'
  <2>1. ASSUME TypeOK, ViewInv, ViewNext PROVE ViewInv'
    BY <2>1, ViewsWatch, ViewType, RemoteEmpty, AttemptKnownStep, ApplyStep, PruneStep
       DEF ViewInv
  <2> QED
    BY <2>1, ViewFrame
<1> QED
  BY <1>1, <1>2, ViewsOfSpec, TypeCorrect, PTL DEF ViewSpec

-----------------------------------------------------------------------------
(* README.md:266: as long as no two Bootstraps share a name, nothing but   *)
(* what the deleted Bootstrap itself applied last, as far as it was shown, *)
(* is ever pruned.                                                         *)
THEOREM OnlyOwnedIsPruned ==
  ASSUME OwnNames
  PROVE  ViewSpec => PruneOnlyOwned
<1>1. ASSUME TypeOK, ViewInv, [Next]_vars, NEW c \in CRDNames,
             crds["local"][c] # Gone, crds'["local"][c] = Gone
      PROVE  /\ Item("local", c) # Gone
             /\ Item("local", c).by = work.key
             /\ work.read.deleting /\ work.read.spec.prune
  <2>1. ASSUME NEW d \in CRDNames, Apply(d) PROVE FALSE
    <3>1. [content |-> work.content, by |-> work.key] \in Installed
      BY <1>1, <2>1, ApplyWrites DEF TypeOK, Installed, Work
    <3>2. PICK k \in Clusters :
            crds' = [crds EXCEPT ![k][d] = [content |-> work.content, by |-> work.key]]
      BY <1>1, <2>1, ApplyWrites
    <3> QED
      BY <1>1, <3>1, <3>2, InstalledAssumption DEF TypeOK, Clusters
  <2>2. PICK d \in CRDNames : PruneCRD(d)
    BY <1>1, <2>1, CRDsWritten
  <2>3. pc = "prune" /\ c \in work.todo /\ work.key \in Bootstraps
    BY <1>1, <2>2, PruneWrites DEF TypeOK, Clusters, Work
  <2>4. /\ view.shown[c] # Gone /\ view.shown[c].by \in Bootstraps
        /\ NameOf[view.shown[c].by] = NameOf[work.key]
        /\ work.read.deleting /\ work.read.spec.prune
    BY <1>1, <2>3 DEF ViewInv, PruneKnown, Installed
  <2>5. Item("local", c) = view.shown[c]
    BY <1>1, <2>3 DEF ViewInv, PruneKnown, Item
  <2> QED
    BY <2>3, <2>4, <2>5 DEF OwnNames
<1>2. TypeOK /\ ViewInv /\ [Next]_vars =>
        [ \A c \in CRDNames :
            crds["local"][c] # Gone /\ crds'["local"][c] = Gone
              => /\ Item("local", c) # Gone
                 /\ Item("local", c).by = work.key
                 /\ work.read.deleting /\ work.read.spec.prune ]_crds
  BY <1>1
<1> QED
  BY <1>2, ViewsOfSpec, TypeCorrect, ViewsAreKnown, PTL DEF Spec, PruneOnlyOwned

(* README.md:303: without kubeConfig, no step of anybody replaces a CRD by *)
(* one that breaks it, as far as it was shown, unless the spec in use      *)
(* ignores that, or by one that could not be compared with it.             *)
THEOREM NothingIsBroken ==
  ASSUME LocalSpecs
  PROVE  ViewSpec => BreakingBlocked
<1>1. ASSUME TypeOK, ViewInv, [Next]_vars, NEW k \in Clusters, NEW c \in CRDNames,
             crds[k][c] # Gone, crds'[k][c] # Gone, crds'[k][c] # crds[k][c],
             Item(k, c) # Gone
      PROVE  LET change == <<c, Item(k, c).content, crds'[k][c].content>>
             IN  /\ change \in Breaks => work.obj.spec.ignoreBreakingChanges
                 /\ change \notin Incomparable
  <2>1. ASSUME NEW d \in CRDNames, PruneCRD(d) PROVE FALSE
    BY <1>1, <2>1, PruneWrites DEF TypeOK, Clusters
  <2>2. PICK d \in CRDNames : Apply(d)
    BY <1>1, <2>1, CRDsWritten
  <2>3. Target(work.obj.spec) = "local"
    BY <1>1, <2>2, ApplyWrites DEF LocalSpecs, Target, Work, Object
  <2>4. /\ k = "local" /\ c = d /\ pc = "apply" /\ c \in work.todo
        /\ crds'[k][c].content = work.content
    BY <1>1, <2>2, <2>3, ApplyWrites DEF TypeOK, Clusters
  <2>5. Replaceable(c) /\ Item(k, c) = view.shown[c]
    BY <1>1, <2>4 DEF ViewInv, ApplyKnown, Item
  <2> QED
    BY <1>1, <2>4, <2>5 DEF Replaceable
<1>2. TypeOK /\ ViewInv /\ [Next]_vars =>
        [ \A k \in Clusters, c \in CRDNames :
            (/\ crds[k][c] # Gone /\ crds'[k][c] # Gone /\ crds'[k][c] # crds[k][c]
             /\ Item(k, c) # Gone) =>
              LET change == <<c, Item(k, c).content, crds'[k][c].content>>
              IN  /\ change \in Breaks => work.obj.spec.ignoreBreakingChanges
                  /\ change \notin Incomparable ]_crds
  BY <1>1
<1> QED
  BY <1>2, ViewsOfSpec, TypeCorrect, ViewsAreKnown, PTL DEF Spec, BreakingBlocked

-----------------------------------------------------------------------------
LEMMA ApiWritten ==
  ASSUME [Next]_vars
  PROVE  \/ UNCHANGED api
         \/ PatchConditions \/ PatchMetadata \/ PatchStatus \/ DropFinalizer
         \/ \E b \in Bootstraps : Create(b) \/ EditSpec(b) \/ Delete(b)
  BY DEF Next, Environment, Delivery, Begin, Worker, vars, Release, Crash, Sync, TimerFires,
         SyncCRD, BeginIgnored, BeginFails, BeginReconcile, BeginDelete, Take, Check, Fetch, Inspect,
         Apply, ApplyFails, Wait, PruneCRD, PruneFails, Finish

(* An object with a finalizer is not removed by its users.                 *)
LEMMA FinalizerHolds ==
  ASSUME TypeOK, NEW b \in Bootstraps, api[b] # Gone, api[b].finalizer,
         NEW d \in Bootstraps, Create(d) \/ EditSpec(d) \/ Delete(d)
  PROVE  api'[b] # Gone
<1>1. CASE b # d
  BY <1>1 DEF Create, EditSpec, Delete, Store, TypeOK
<1>2. CASE EditSpec(b)
  <2> DEFINE next == api[b].generation + 1
  <2>1. PICK spec \in Specs :
          api' = [api EXCEPT ![b] = [api[b] EXCEPT !.spec = spec, !.generation = next]]
    BY <1>2 DEF EditSpec, Store
  <2>2. api[b] \in Object /\ next \in Nat
    BY DEF TypeOK, Object
  <2> HIDE DEF next
  <2>3. [api[b] EXCEPT !.spec = spec, !.generation = next] \in Object
    BY <2>2 DEF Object
  <2> QED
    BY <2>1, <2>3, ObjectAssumption DEF TypeOK
<1>3. CASE Delete(b)
  <2> DEFINE next == api[b].generation + 1
  <2>1. api' = [api EXCEPT ![b] = [api[b] EXCEPT !.deleting = TRUE, !.generation = next]]
    BY <1>3 DEF Delete, Store
  <2>2. api[b] \in Object /\ next \in Nat
    BY DEF TypeOK, Object
  <2> HIDE DEF next
  <2>3. [api[b] EXCEPT !.deleting = TRUE, !.generation = next] \in Object
    BY <2>2 DEF Object
  <2> QED
    BY <2>1, <2>3, ObjectAssumption DEF TypeOK
<1> QED
  BY <1>1, <1>2, <1>3 DEF Create

(* README.md:266: when the finalizer of a pruning Bootstrap is dropped, no *)
(* CRD of the local cluster is left that it was the last to apply, as far  *)
(* as it was shown.                                                        *)
THEOREM PruningIsComplete == ViewSpec => PruneComplete
<1>1. ASSUME TypeOK, ViewInv, [Next]_vars, NEW b \in Bootstraps, NEW c \in CRDNames,
             api[b] # Gone, api'[b] = Gone, api[b].finalizer,
             pc = "prune", work.key = b, work.read.spec.prune,
             crds["local"][c] # Gone, Item("local", c) # Gone
      PROVE  Item("local", c).by # b
  <2>1. ~\E d \in Bootstraps : Create(d) \/ EditSpec(d) \/ Delete(d)
    BY <1>1, FinalizerHolds
  <2>2. work.todo = {}
    BY <1>1, <2>1, ApiWritten DEF PatchConditions, PatchMetadata, PatchStatus, DropFinalizer
  <2>3. Item("local", c) = view.shown[c]
    BY <1>1 DEF ViewInv, PruneKnown, Item
  <2> QED
    BY <1>1, <2>2, <2>3 DEF ViewInv, PruneKnown
<1>2. TypeOK /\ ViewInv /\ [Next]_vars =>
        [ \A b \in Bootstraps, c \in CRDNames :
            (/\ api[b] # Gone /\ api'[b] = Gone /\ api[b].finalizer
             /\ pc = "prune" /\ work.key = b /\ work.read.spec.prune
             /\ crds["local"][c] # Gone /\ Item("local", c) # Gone)
              => Item("local", c).by # b ]_api
  BY <1>1
<1> QED
  BY <1>2, ViewsOfSpec, TypeCorrect, ViewsAreKnown, PTL DEF Spec, PruneComplete

-----------------------------------------------------------------------------
(* The ledger: what every step of the controller enters in it.             *)

Entries == [b \in Bootstraps |-> Entered(api[b])]

LEMMA EnteredObject ==
  ASSUME TypeOK, NEW b \in Bootstraps
  PROVE  /\ Entries[b] = Entered(api[b])
         /\ api[b] = Gone => Entries[b] = Gone
         /\ api[b] # Gone =>
              /\ api[b] \in Object
              /\ Entries[b] # Gone
              /\ Entries[b] = [closing |-> api[b].deleting, applied |-> api[b].applied]
<1>1. CASE api[b] = Gone
  BY <1>1 DEF Entries, Entered
<1>2. CASE api[b] # Gone
  <2>1. api[b] \in Object
    BY <1>2 DEF TypeOK
  <2>2. [closing |-> api[b].deleting, applied |-> api[b].applied]
          \in [closing : BOOLEAN, applied : Revision]
    BY <2>1 DEF Object
  <2> QED
    BY <1>2, <2>1, <2>2, EntryAssumption DEF Entries, Entered
<1> QED
  BY <1>1, <1>2

(* An object is stored whose entry is the one it had. *)
LEMMA EntryKept ==
  ASSUME TypeOK, NEW b \in Bootstraps, NEW o, api' = [api EXCEPT ![b] = o],
         Entered(o) = Entered(api[b])
  PROVE  UNCHANGED Entries
<1>1. \A d \in Bootstraps : Entered(api'[d]) = Entered(api[d])
  BY DEF TypeOK
<1> QED
  BY <1>1 DEF Entries

(* An object is stored with a new entry. *)
LEMMA EntryMade ==
  ASSUME TypeOK, NEW b \in Bootstraps, NEW o, api' = [api EXCEPT ![b] = o]
  PROVE  Entries' = [Entries EXCEPT ![b] = Entered(o)]
  BY DEF TypeOK, Entries

(* The actions of the ledger, in terms of the entries. *)
LEMMA LedgerEntries ==
  ASSUME UNCHANGED crds, NEW b \in Bootstraps,
         \/ /\ Entries[b] = Gone
            /\ Entries' = [Entries EXCEPT ![b] = [closing |-> FALSE, applied |-> Gone]]
         \/ /\ Entries[b] # Gone /\ ~Entries[b].closing
            /\ Entries' = [Entries EXCEPT ![b] =
                             [closing |-> TRUE, applied |-> Entries[b].applied]]
         \/ /\ Entries[b] # Gone
            /\ Entries' = [Entries EXCEPT ![b] = Gone]
  PROVE  L!Entry
<1>1. L!Open(b) \/ L!Condemn(b) \/ L!Close(b)
  BY Zenon DEF L!Open, L!Condemn, L!Close, Entries
<1> QED
  BY <1>1 DEF L!Entry

LEMMA UsersEnter ==
  ASSUME TypeOK, UNCHANGED crds, NEW b \in Bootstraps, Create(b) \/ EditSpec(b) \/ Delete(b)
  PROVE  L!Entry \/ UNCHANGED Entries
<1>1. CASE Create(b)
  <2>1. PICK o \in Object : /\ api' = [api EXCEPT ![b] = o]
                            /\ o.deleting = FALSE /\ o.applied = Gone
    <3>1. PICK spec \in Specs : Store(b, NewObject(used.edits + 1, spec))
      BY <1>1 DEF Create
    <3>2. NewObject(used.edits + 1, spec) \in Object
      BY NewObjectType DEF TypeOK
    <3> QED
      BY <3>1, <3>2 DEF Store, NewObject
  <2>2. Entered(o) = [closing |-> FALSE, applied |-> Gone]
    BY <2>1, ObjectAssumption DEF Entered
  <2>3. Entries[b] = Gone
    BY <1>1, EnteredObject DEF Create
  <2>4. Entries' = [Entries EXCEPT ![b] = [closing |-> FALSE, applied |-> Gone]]
    BY <2>1, <2>2, EntryMade
  <2> QED
    BY <2>3, <2>4, LedgerEntries
<1>2. CASE EditSpec(b)
  <2>1. api[b] \in Object /\ api[b] # Gone
    BY <1>2 DEF EditSpec, TypeOK
  <2> DEFINE next == api[b].generation + 1
  <2>2. PICK spec \in Specs :
          api' = [api EXCEPT ![b] = [api[b] EXCEPT !.spec = spec, !.generation = next]]
    BY <1>2 DEF EditSpec, Store
  <2>3. next \in Nat
    BY <2>1 DEF Object
  <2> HIDE DEF next
  <2> DEFINE o == [api[b] EXCEPT !.spec = spec, !.generation = next]
  <2>4. o \in Object /\ o.deleting = api[b].deleting /\ o.applied = api[b].applied
    BY <2>1, <2>3 DEF Object
  <2>5. api' = [api EXCEPT ![b] = o]
    BY <2>2
  <2> HIDE DEF o
  <2>6. Entered(o) = Entered(api[b])
    BY <2>1, <2>4, ObjectAssumption DEF Entered
  <2> QED
    BY <2>5, <2>6, EntryKept
<1>3. CASE Delete(b)
  <2>1. api[b] \in Object /\ api[b] # Gone /\ ~api[b].deleting
    BY <1>3 DEF Delete, TypeOK
  <2>2. Entries[b] # Gone /\ Entries[b] = [closing |-> FALSE, applied |-> api[b].applied]
    BY <2>1, EnteredObject DEF Object
  <2> DEFINE next == api[b].generation + 1
             o == [api[b] EXCEPT !.deleting = TRUE, !.generation = next]
  <2>3. api' = [api EXCEPT ![b] = o] \/ api' = [api EXCEPT ![b] = Gone]
    BY <1>3 DEF Delete, Store
  <2>4. next \in Nat
    BY <2>1 DEF Object
  <2> HIDE DEF next
  <2>5. o \in Object /\ o.deleting = TRUE /\ o.applied = api[b].applied
    BY <2>1, <2>4 DEF Object
  <2> HIDE DEF o
  <2>6. CASE api' = [api EXCEPT ![b] = o]
    <3>1. Entries[b].applied = api[b].applied /\ ~Entries[b].closing
      BY <2>2
    <3>2. Entered(o) = [closing |-> o.deleting, applied |-> o.applied]
      BY <2>5, ObjectAssumption DEF Entered
    <3>3. Entered(o) = [closing |-> TRUE, applied |-> Entries[b].applied]
      BY <2>5, <3>1, <3>2, Zenon
    <3>4. Entries' = [Entries EXCEPT ![b] = [closing |-> TRUE, applied |-> Entries[b].applied]]
      BY <2>6, <3>3, EntryMade
    <3> QED
      BY <2>2, <3>1, <3>4, LedgerEntries
  <2>7. CASE api' = [api EXCEPT ![b] = Gone]
    <3>1. Entries' = [Entries EXCEPT ![b] = Gone]
      BY <2>7, EntryMade DEF Entered
    <3> QED
      BY <2>2, <3>1, LedgerEntries
  <2> QED
    BY <2>3, <2>6, <2>7
<1> QED
  BY <1>1, <1>2, <1>3

LEMMA PatchesEnter ==
  ASSUME TypeOK, UNCHANGED crds, PatchConditions \/ PatchMetadata \/ DropFinalizer
  PROVE  L!Entry \/ UNCHANGED Entries
<1> DEFINE now == api[work.key]
<1>1. work.key \in Bootstraps /\ work.obj \in Object
  BY DEF TypeOK, Work, PatchConditions, PatchMetadata, DropFinalizer
<1>2. \/ UNCHANGED api
      \/ now # Gone /\ api' = [api EXCEPT ![work.key] = [now EXCEPT !.ready = work.obj.ready]]
      \/ now # Gone /\ api' = [api EXCEPT ![work.key] = [now EXCEPT !.finalizer = work.obj.finalizer]]
      \/ now # Gone /\ api' = [api EXCEPT ![work.key] = [now EXCEPT !.finalizer = FALSE]]
      \/ now # Gone /\ api' = [api EXCEPT ![work.key] = Gone]
  BY DEF PatchConditions, PatchMetadata, DropFinalizer, Patch, Store
<1>3. CASE UNCHANGED api
  BY <1>3 DEF Entries
<1>4. CASE now # Gone /\ api' = [api EXCEPT ![work.key] = Gone]
  <2>1. Entries' = [Entries EXCEPT ![work.key] = Gone]
    BY <1>1, <1>4, EntryMade DEF Entered
  <2>2. Entries[work.key] # Gone
    BY <1>1, <1>4, EnteredObject
  <2> QED
    BY <1>1, <2>1, <2>2, LedgerEntries
<1>5. ASSUME now # Gone, NEW o, api' = [api EXCEPT ![work.key] = o],
             \/ o = [now EXCEPT !.ready = work.obj.ready]
             \/ \E f \in BOOLEAN : o = [now EXCEPT !.finalizer = f]
      PROVE  UNCHANGED Entries
  <2>1. now \in Object
    BY <1>1, <1>5 DEF TypeOK
  <2>2. o \in Object /\ o.deleting = now.deleting /\ o.applied = now.applied
    BY <1>1, <1>5, <2>1 DEF Object
  <2>3. Entered(o) = Entered(now)
    BY <1>5, <2>2, ObjectAssumption DEF Entered
  <2> QED
    BY <1>1, <1>5, <2>3, EntryKept
<1>6. work.obj.finalizer \in BOOLEAN
  BY <1>1 DEF Object
<1> QED
  BY <1>2, <1>3, <1>4, <1>5, <1>6

LEMMA StatusPatched ==
  ASSUME TypeOK, PatchStatus
  PROVE  \/ UNCHANGED <<api, cache, queue>>
         \/ \E o \in Object :
              /\ api[work.key] # Gone /\ api' = [api EXCEPT ![work.key] = o]
              /\ Store(work.key, o)
              /\ o.uid = api[work.key].uid /\ o.generation = api[work.key].generation
              /\ o.deleting = api[work.key].deleting
              /\ o.spec = api[work.key].spec /\ o.finalizer = api[work.key].finalizer
              /\ o.applied = Merged("applied", api[work.key], work.read, work.obj)
<1> DEFINE now == api[work.key]
           new(field) == Merged(field, now, work.read, work.obj)
           names == [c \in CRDNames |-> Merged(c, now.names, work.read.names, work.obj.names)]
           o == [now EXCEPT !.observed  = new("observed"),
                            !.attempted = new("attempted"),
                            !.applied   = new("applied"),
                            !.breaking  = new("breaking"),
                            !.names     = names]
<1>1. work.key \in Bootstraps /\ work.obj \in Object /\ work.read \in Object
  BY DEF TypeOK, PatchStatus, Work
<1>2. \/ UNCHANGED <<api, cache, queue>>
      \/ now # Gone /\ api' = [api EXCEPT ![work.key] = o] /\ Store(work.key, o)
  <2>1. Patch("done", StatusOf(work.obj) # StatusOf(work.read), o)
    BY DEF PatchStatus
  <2> HIDE DEF o
  <2> QED
    BY <2>1 DEF Patch, Store
<1>3. ASSUME now # Gone
      PROVE  /\ o \in Object /\ o.uid = now.uid /\ o.generation = now.generation
             /\ o.deleting = now.deleting /\ o.spec = now.spec
             /\ o.finalizer = now.finalizer /\ o.applied = new("applied")
  <2>1. now \in Object
    BY <1>1, <1>3 DEF TypeOK
  <2>2. /\ new("observed") \in Nat
        /\ new("attempted") \in Revision
        /\ new("applied") \in Revision
        /\ new("breaking") \in SUBSET CRDNames
    BY <1>1, <2>1 DEF Merged, Object
  <2>3. names \in [CRDNames -> 0..MaxCount]
    BY <1>1, <2>1 DEF Merged, Object
  <2> HIDE DEF names, new
  <2> QED
    BY <2>1, <2>2, <2>3 DEF Object
<1> HIDE DEF o
<1> QED
  BY <1>2, <1>3

(* What lies on the desk of the clerk: for whom he works, what he has read *)
(* of the record, what he has seen of the shelf.                           *)
LEMMA DeskBusy ==
  ASSUME TypeOK, pc # "idle"
  PROVE  /\ OnDesk.of = work.key /\ OnDesk.of \in Bootstraps /\ OnDesk.of # Gone
         /\ OnDesk.entry.closing = work.read.deleting
         /\ OnDesk.entry.applied = work.read.applied
         /\ OnDesk.shelf = view.shown
<1>1. work.key \in Bootstraps /\ work.read \in Object
  BY DEF TypeOK, Work
<1>2. Entered(work.read) = [closing |-> work.read.deleting, applied |-> work.read.applied]
  BY <1>1, ObjectAssumption DEF Entered
<1> QED
  BY <1>1, <1>2, ReconcilerAssumption DEF OnDesk

(* A record is made of a whole manifest, and of a later version. *)
LEMMA RecordEnters ==
  ASSUME VersionedSpecs, TypeOK, AttemptIsInstalled, AttemptForward, UNCHANGED crds, PatchStatus
  PROVE  L!Entry \/ UNCHANGED Entries
<1> DEFINE b == work.key
           v == work.obj.applied
<1>1. /\ pc = "status" /\ b \in Bootstraps
      /\ work.obj \in Object /\ work.read \in Object
  BY DEF TypeOK, PatchStatus, Work
<1>2. CASE UNCHANGED api
  BY <1>2 DEF Entries
<1>3. ASSUME NEW o \in Object,
             api[b] # Gone, api' = [api EXCEPT ![b] = o], o.deleting = api[b].deleting,
             o.applied = Merged("applied", api[b], work.read, work.obj)
      PROVE  L!Entry \/ UNCHANGED Entries
  <2>1. /\ api[b] \in Object
        /\ Entered(api[b]) = [closing |-> api[b].deleting, applied |-> api[b].applied]
        /\ Entered(o) = [closing |-> api[b].deleting, applied |-> o.applied]
        /\ Entries[b] # Gone
        /\ Entries[b].closing = api[b].deleting /\ Entries[b].applied = api[b].applied
    <3>1. /\ api[b] \in Object /\ Entries[b] # Gone
          /\ Entries[b] = [closing |-> api[b].deleting, applied |-> api[b].applied]
      BY <1>1, <1>3, EnteredObject
    <3>2. Entered(o) = [closing |-> o.deleting, applied |-> o.applied]
      BY ObjectAssumption DEF Entered
    <3> QED
      BY <1>3, <3>1, <3>2 DEF Entered
  <2>2. CASE v = work.read.applied
    <3>1. o.applied = api[b].applied
      BY <1>1, <1>3, <2>1, <2>2 DEF Merged, Object
    <3> QED
      BY <1>1, <1>3, <2>1, <3>1, EntryKept
  <2>3. CASE v # work.read.applied
    <3>1. o.applied = v
      BY <1>1, <1>3, <2>3 DEF Merged, Object
    <3>2. /\ v \in Versions
          /\ OnDesk.entry.applied \in Versions => OnDesk.entry.applied < v
      <4>1. v \in Versions /\ Later(v, work.read.applied)
        BY <1>1, <1>3, <2>3, AttemptIsPublished DEF AttemptForward
      <4> QED
        BY <1>1, <4>1, DeskBusy, SourceAssumption DEF Later
    <3>3. \A c \in Bundle[ContentOf[v]] :
            crds[Target(work.obj.spec)][c] = [content |-> ContentOf[v], by |-> b]
      BY <1>1, <2>3, AttemptIsPublished
    <3>4. Entries' = [Entries EXCEPT ![b] = [closing |-> Entries[b].closing, applied |-> v]]
      <4>1. Entered(o) = [closing |-> Entries[b].closing, applied |-> v]
        BY <2>1, <3>1, Zenon
      <4> QED
        BY <1>1, <1>3, <4>1, EntryMade
    <3>5. Target(work.obj.spec) \in {"local", "remote"}
      BY DEF Target
    <3>6. OnDesk.of = b /\ b # Gone
      BY <1>1, DeskBusy
    <3> HIDE DEF b, v
    <3>7. L!Record(v)
      <4>1. \E k \in {"local", "remote"} : \A c \in Bundle[ContentOf[v]] :
              crds[k][c] = [content |-> ContentOf[v], by |-> b]
        BY <3>3, <3>5
      <4> QED
        BY <2>1, <3>2, <3>4, <3>6, <4>1, Zenon DEF L!Record, Entries
    <3> QED
      BY <3>2, <3>7 DEF L!Entry
  <2> QED
    BY <2>2, <2>3
<1> QED
  BY <1>2, <1>3, StatusPatched

LEMMA CRDsEnter ==
  ASSUME OwnNames, TypeOK, ViewInv, UNCHANGED api,
         NEW c \in CRDNames, Apply(c) \/ PruneCRD(c)
  PROVE  L!Entry
<1>1. UNCHANGED Entries
  BY DEF Entries
<1>2. CASE Apply(c)
  <2> DEFINE k == Target(work.obj.spec)
  <2>1. /\ k \in {"local", "remote"} /\ work.content \in Contents
        /\ c \in Bundle[work.content]
        /\ crds' = [crds EXCEPT ![k][c] = [content |-> work.content, by |-> work.key]]
    BY <1>2, ApplyWrites DEF ViewInv, ApplyKnown, Objects, TypeOK, Work, Clusters
  <2>2. /\ OnDesk.of = work.key /\ OnDesk.of # Gone
        /\ ~OnDesk.entry.closing
        /\ OnDesk.shelf = view.shown
    BY <1>2, ApplyWrites, DeskBusy DEF ViewInv, AttemptKnown
  <2>3. view.shown[c] # Gone
          => <<c, view.shown[c].content, work.content>> \notin Incomparable
    BY <1>2, ApplyWrites DEF ViewInv, ApplyKnown, Replaceable
  <2> HIDE DEF k
  <2>4. L!Install(k, c, work.content)
    BY <1>1, <2>1, <2>2, <2>3, Zenon DEF L!Install, Entries
  <2> QED
    BY <2>1, <2>4 DEF L!Entry
<1>3. CASE PruneCRD(c)
  <2>1. /\ pc = "prune" /\ c \in work.todo /\ work.key \in Bootstraps
        /\ crds' = [crds EXCEPT !["local"][c] = Gone]
    BY <1>3, PruneWrites DEF TypeOK, Work
  <2>2. /\ work.read.deleting /\ view.shown[c] # Gone /\ view.shown[c].by \in Bootstraps
        /\ NameOf[view.shown[c].by] = NameOf[work.key]
    BY <2>1 DEF ViewInv, PruneKnown, Installed
  <2>3. view.shown[c].by = work.key
    BY <2>1, <2>2 DEF OwnNames
  <2>4. /\ OnDesk.of = work.key /\ OnDesk.of # Gone
        /\ OnDesk.entry.closing
        /\ OnDesk.shelf = view.shown
    BY <2>1, <2>2, DeskBusy
  <2>5. L!Remove(c)
    BY <1>1, <2>1, <2>2, <2>3, <2>4, Zenon DEF L!Remove, Entries
  <2> QED
    BY <2>5 DEF L!Entry
<1> QED
  BY <1>2, <1>3

LEMMA EntriesMade ==
  ASSUME VersionedSpecs, OwnNames, TypeOK, ViewInv, AttemptIsInstalled, AttemptForward,
         [Next]_vars
  PROVE  L!Entry \/ UNCHANGED <<crds, Entries>>
<1>1. CASE \E c \in CRDNames : Apply(c) \/ PruneCRD(c)
  <2>1. UNCHANGED api
    BY <1>1 DEF Apply, PruneCRD
  <2> QED
    BY <1>1, <2>1, CRDsEnter
<1>2. CASE UNCHANGED crds
  <2>1. L!Entry \/ UNCHANGED Entries
    <3>1. CASE UNCHANGED api
      BY <3>1 DEF Entries
    <3> QED
      BY <1>2, <3>1, ApiWritten, UsersEnter, PatchesEnter, RecordEnters
  <2> QED
    BY <1>2, <2>1
<1> QED
  BY <1>1, <1>2, CRDsWritten

-----------------------------------------------------------------------------
(* The informers keep copies that are old or up to date. *)

Copy == [shelf |-> crdCache, record |-> [b \in Bootstraps |-> Entered(cache[b])]]

LEMMA StoreCopied ==
  ASSUME TypeOK, NEW b \in Bootstraps, NEW o, Store(b, o)
  PROVE  \A d \in Bootstraps : cache'[d] \in {cache[d], api'[d]}
  BY DEF Store, Observe, TypeOK

LEMMA CacheFollows ==
  ASSUME TypeOK, [Next]_vars
  PROVE  \A d \in Bootstraps : cache'[d] \in {cache[d], api'[d]}
<1>1. CASE UNCHANGED cache
  BY <1>1
<1>2. CASE \E b \in Bootstraps : Create(b) \/ EditSpec(b) \/ Delete(b)
  BY <1>2, StoreCopied DEF Create, EditSpec, Delete
<1>3. CASE PatchConditions \/ PatchMetadata \/ PatchStatus \/ DropFinalizer
  <2>1. work.key \in Bootstraps
    BY <1>3 DEF TypeOK, Work, PatchConditions, PatchMetadata, PatchStatus, DropFinalizer
  <2>2. \/ UNCHANGED cache
        \/ \E o : Store(work.key, o)
    BY <1>3 DEF PatchConditions, PatchMetadata, PatchStatus, DropFinalizer, Patch
  <2> QED
    BY <2>1, <2>2, StoreCopied
<1>4. CASE Crash
  BY <1>4 DEF Crash
<1>5. CASE \E b \in Bootstraps : Sync(b)
  BY <1>5 DEF Sync, Observe, TypeOK
<1> QED
  BY <1>1, <1>2, <1>3, <1>4, <1>5
     DEF Next, Environment, Delivery, Begin, Worker, vars, Release, TimerFires, SyncCRD,
         BeginIgnored, BeginFails, BeginReconcile, BeginDelete, Take, Check, Fetch, Inspect,
         Apply, ApplyFails, Wait, PruneCRD, PruneFails, Finish

LEMMA CRDCacheFollows ==
  ASSUME TypeOK, [Next]_vars
  PROVE  \A c \in CRDNames : crdCache'[c] \in {crdCache[c], crds'["local"][c]}
<1>1. CASE UNCHANGED crdCache
  BY <1>1
<1>2. ASSUME NEW c \in CRDNames, Apply(c) \/ PruneCRD(c)
      PROVE  \A d \in CRDNames : crdCache'[d] \in {crdCache[d], crds'["local"][d]}
  <2>1. PICK k \in Clusters : \E i : StoreCRD(k, c, i)
    BY <1>2 DEF Apply, PruneCRD, Target, Clusters
  <2> QED
    BY <2>1 DEF StoreCRD, TypeOK, Clusters
<1>3. CASE Crash \/ \E c \in CRDNames : SyncCRD(c)
  BY <1>3 DEF Crash, SyncCRD, TypeOK
<1> QED
  BY <1>1, <1>2, <1>3
     DEF Next, Environment, Delivery, Begin, Worker, vars, Create, EditSpec, Delete, Edit,
         Release, Sync, TimerFires, BeginIgnored, BeginFails, BeginReconcile, BeginDelete,
         Take, Check, Fetch, Inspect, ApplyFails, Wait, PatchConditions, PatchMetadata,
         PatchStatus, Patch, DropFinalizer, PruneFails, Finish

LEMMA CopiesFollow ==
  ASSUME TypeOK, TypeOK', [Next]_vars
  PROVE  L!Copied
<1> DEFINE C == {c \in CRDNames : crdCache'[c] = crds'["local"][c]}
           B == {b \in Bootstraps : cache'[b] = api'[b]}
<1>1. crdCache' = [c \in CRDNames |-> IF c \in C THEN crds'["local"][c] ELSE crdCache[c]]
  BY CRDCacheFollows DEF TypeOK
<1>2. [b \in Bootstraps |-> Entered(cache'[b])]
        = [b \in Bootstraps |-> IF b \in B THEN Entries'[b] ELSE Copy.record[b]]
  <2>1. \A b \in Bootstraps :
          Entered(cache'[b]) = IF b \in B THEN Entries'[b] ELSE Copy.record[b]
    <3> TAKE b \in Bootstraps
    <3>1. Entries'[b] = Entered(api'[b]) /\ Copy.record[b] = Entered(cache[b])
      BY DEF Entries, Copy
    <3>2. cache'[b] = api'[b] \/ cache'[b] = cache[b]
      BY CacheFollows
    <3> QED
      BY <3>1, <3>2
  <2> QED
    BY <2>1, Zenon
<1>3. Copy' = [shelf  |-> [c \in CRDNames |-> IF c \in C THEN crds'["local"][c]
                                                         ELSE Copy.shelf[c]],
               record |-> [b \in Bootstraps |-> IF b \in B THEN Entries'[b]
                                                           ELSE Copy.record[b]]]
  <2>1. Copy.shelf = crdCache
    BY DEF Copy
  <2>2. Copy' = [shelf |-> crdCache', record |-> [b \in Bootstraps |-> Entered(cache'[b])]]
    BY Zenon DEF Copy
  <2> HIDE DEF C, B
  <2> QED
    BY <1>1, <1>2, <2>1, <2>2, Zenon
<1>4. C \in SUBSET CRDNames /\ B \in SUBSET Bootstraps
  OBVIOUS
<1> HIDE DEF C, B
<1> QED
  BY <1>3, <1>4, Zenon DEF L!Copied, Copy, Entries

-----------------------------------------------------------------------------
(* The clerk takes up a Bootstrap, looks at a copy of the shelf, is done. *)

LEMMA BlankUnseen == Unseen.shown = L!Blank
  BY DEF Unseen, L!Blank

LEMMA ShelfSeen ==
  ASSUME TypeOK, ViewInv, Look
  PROVE  view' = view \/ view'.shown \in {L!Blank, Copy.shelf}
<1>1. view' \in {view, Unseen, Seen}
  BY LookCases
<1>2. Seen.shown = Copy.shelf
  BY DEF Seen, Copy
<1> QED
  BY <1>1, <1>2, BlankUnseen

LEMMA DeskKept ==
  ASSUME TypeOK, TypeOK', ViewInv, [Next]_vars, Look
  PROVE  L!Looked
<1>1. CASE pc' = "idle"
  <2>1. view' = Unseen
    BY <1>1, LookCases DEF Acting
  <2>2. OnDesk' = [of |-> Gone, entry |-> Gone, shelf |-> L!Blank]
    BY <1>1, <2>1, BlankUnseen DEF OnDesk
  <2> QED
    BY <2>2, Zenon DEF L!Looked, L!Free
<1>2. CASE pc = "idle" /\ pc' # "idle"
  <2>1. PICK b \in Bootstraps : BeginReconcile(b) \/ BeginDelete(b)
    BY <1>2, JobTaken
  <2>2. /\ cache[b] \in Object /\ cache[b] # Gone
        /\ work'.key = b /\ work'.read = cache[b]
    BY <2>1, JobRead
  <2>3. Copy.record[b] = Entered(cache[b]) /\ Copy.record[b] # Gone
    <3>1. Entered(cache[b]) \in [closing : BOOLEAN, applied : Revision]
      BY <2>2 DEF Entered, Object
    <3> QED
      BY <3>1, EntryAssumption DEF Copy
  <2>4. view'.shown \in {L!Blank, Copy.shelf}
    <3>1. CASE view' = view
      BY <1>2, <3>1, BlankUnseen DEF ViewInv, Acting
    <3> QED
      BY <3>1, ShelfSeen
  <2>5. OnDesk' = [of |-> b, entry |-> Copy.record[b], shelf |-> view'.shown]
    BY <1>2, <2>2, <2>3 DEF OnDesk
  <2> QED
    BY <2>3, <2>4, <2>5, Zenon DEF L!Looked, Copy
<1>3. CASE pc # "idle" /\ pc' # "idle"
  <2>1. work'.key = work.key /\ work'.read = work.read
    BY <1>3, JobKept
  <2>2. /\ OnDesk  = [of |-> work.key, entry |-> Entered(work.read), shelf |-> view.shown]
        /\ OnDesk' = [of |-> work.key, entry |-> Entered(work.read), shelf |-> view'.shown]
    BY <1>3, <2>1 DEF OnDesk
  <2>3. OnDesk.of # Gone
    BY <1>3, DeskBusy
  <2>4. CASE view' = view
    BY <2>2, <2>4 DEF L!Looked
  <2>5. CASE view'.shown \in {L!Blank, Copy.shelf}
    <3>1. OnDesk' = [OnDesk EXCEPT !.shelf = view'.shown]
      BY <2>2
    <3> QED
      BY <2>3, <2>5, <3>1, Zenon DEF L!Looked, Copy
  <2> QED
    BY <2>4, <2>5, ShelfSeen
<1> QED
  BY <1>1, <1>2, <1>3

LEMMA LedgerStep ==
  ASSUME VersionedSpecs, OwnNames, TypeOK, TypeOK', ViewInv, AttemptIsInstalled,
         AttemptForward, [ViewNext]_<<vars, view>>
  PROVE  [L!Next]_(L!vars)
<1>1. CASE ViewNext
  <2>1. L!Entry \/ UNCHANGED <<crds, Entries>>
    BY <1>1, ViewsWatch, EntriesMade
  <2>2. L!Copied /\ L!Looked
    BY <1>1, ViewsWatch, CopiesFollow, DeskKept
  <2> QED
    BY <2>1, <2>2 DEF L!Next, Entries
<1>2. CASE UNCHANGED <<vars, view>>
  BY <1>2 DEF vars, L!vars, OnDesk
<1> QED
  BY <1>1, <1>2

(* Whatever fails, crashes, trails or is edited in between, the calls of   *)
(* the controller add up to the ledger: records only of whole manifests    *)
(* and of later versions than the one read, removals only of what was seen *)
(* to be the closing Bootstrap's own, and on the local shelf no            *)
(* replacement of what was seen there and could not be compared.           *)
THEOREM LedgerIsImplemented ==
  ASSUME VersionedSpecs, OwnNames
  PROVE  ViewSpec => ImplementsLedger
<1>1. ViewInit => L!Init
  BY DEF ViewInit, Init, L!Init, L!Blank, L!Free, OnDesk, Unseen, Clusters, Entered
<1>2. /\ TypeOK /\ TypeOK' /\ ViewInv /\ AttemptIsInstalled /\ AttemptForward
      /\ [ViewNext]_<<vars, view>>
      => [L!Next]_(L!vars)
  BY LedgerStep
<1> QED
  BY <1>1, <1>2, ViewsOfSpec, TypeCorrect, ViewsAreKnown, AttemptsAreInstalled,
     AttemptsGoForward, PTL DEF ViewSpec, ImplementsLedger, L!Spec
=============================================================================
