-------------------------------- MODULE Views -------------------------------
(***************************************************************************)
(* What the controller may do to the CRDs of a cluster, given what its     *)
(* informer showed it when it looked: detectBreakingChanges compares       *)
(* the whole bundle, and reconcileDelete lists what is owned, once, long   *)
(* before the last object is applied or deleted.  A history variable keeps *)
(* what was seen then; no action of Reconciler depends on it.              *)
(***************************************************************************)
EXTENDS ReconcilerProperties

VARIABLE view  \* shown: the CRDs as the informer had them at that moment;
               \* late: those of which it trailed the API server then

Unseen == [shown |-> [c \in CRDNames |-> Gone], late |-> {}]

Seen == [shown |-> crdCache,
         late  |-> {c \in CRDNames : crdCache[c] # crds["local"][c]}]

(* The worker looks on entering one of these steps, and only then. *)
Acting == {"apply", "prune"}

Look == view' = CASE pc' \notin Acting            -> Unseen
                  [] pc' \in Acting /\ pc = pc'   -> view
                  [] pc' \in Acting /\ pc # pc'   -> Seen

ViewInit == Init /\ view = Unseen

(* A step of Reconciler, and what the worker sees in it: each action on a  *)
(* line of its own, so that TLC tells how often it is taken.               *)
ViewNext ==
  \/ \E b \in Bootstraps :
       \/ Create(b) /\ Look
       \/ EditSpec(b) /\ Look
       \/ Delete(b) /\ Look
       \/ Sync(b) /\ Look
       \/ TimerFires(b) /\ Look
       \/ BeginIgnored(b) /\ Look
       \/ BeginReconcile(b) /\ Look
       \/ BeginDelete(b) /\ Look
       \/ BeginFails(b) /\ Look
  \/ \E c \in CRDNames :
       \/ SyncCRD(c) /\ Look
       \/ Apply(c) /\ Look
       \/ PruneCRD(c) /\ Look
       \/ PruneFails(c) /\ Look
  \/ Release /\ Look
  \/ Crash /\ Look
  \/ Check /\ Look
  \/ Fetch /\ Look
  \/ Inspect /\ Look
  \/ ApplyFails /\ Look
  \/ Wait /\ Look
  \/ PatchConditions /\ Look
  \/ PatchMetadata /\ Look
  \/ PatchStatus /\ Look
  \/ DropFinalizer /\ Look
  \/ Finish /\ Look

ViewSpec == ViewInit /\ [][ViewNext]_<<vars, view>>

FairViewSpec == ViewSpec /\ Fairness

(* What the properties hold the worker to: a CRD as it is, except one the  *)
(* informer had not caught up with: that one as it was shown.              *)
Item(k, c) == IF k = "local" /\ c \in view.late THEN view.shown[c] ELSE crds[k][c]

-----------------------------------------------------------------------------
(* README.md:303: an installed CRD is never replaced by one that breaks it *)
(* unless the Bootstrap ignores breaking changes, and never by one it      *)
(* cannot be compared with; the check is made for the whole bundle long    *)
(* before its last object is applied.                                      *)
BreakingBlocked ==
  [][ \A k \in Clusters, c \in CRDNames :
        (/\ crds[k][c] # Gone /\ crds'[k][c] # Gone /\ crds'[k][c] # crds[k][c]
         /\ Item(k, c) # Gone) =>
          LET change == <<c, Item(k, c).content, crds'[k][c].content>>
          IN  /\ change \in Breaks => work.obj.spec.ignoreBreakingChanges
              /\ change \notin Incomparable ]_crds

(* README.md:266: when the finalizer of a pruning Bootstrap is dropped, no *)
(* CRD of the local cluster that it applied last is left, whatever failed  *)
(* on the way, other than one the informer did not show as its own.        *)
PruneComplete ==
  [][ \A b \in Bootstraps, c \in CRDNames :
        (/\ api[b] # Gone /\ api'[b] = Gone /\ api[b].finalizer
         /\ pc = "prune" /\ work.key = b /\ work.read.spec.prune
         /\ crds["local"][c] # Gone /\ Item("local", c) # Gone)
          => Item("local", c).by # b ]_api

(* README.md:266: only CRDs "that belong to it and were applied by it" go: *)
(* those of a Bootstrap that was being deleted and prunes.                 *)
PruneOnlyOwned ==
  [][ \A c \in CRDNames :
        crds["local"][c] # Gone /\ crds'["local"][c] = Gone
          => /\ Item("local", c) # Gone
             /\ Item("local", c).by = work.key
             /\ work.read.deleting /\ work.read.spec.prune ]_crds

-----------------------------------------------------------------------------
(* What the API server shows of a Bootstrap to a reader of the ledger.     *)
Entered(o) == IF o = Gone THEN Gone
              ELSE [closing |-> o.deleting, applied |-> o.applied]

ASSUME EntryAssumption == Gone \notin [closing : BOOLEAN, applied : Revision]

OnDesk == IF pc = "idle"
          THEN [of |-> Gone, entry |-> Gone, shelf |-> view.shown]
          ELSE [of |-> work.key, entry |-> Entered(work.read), shelf |-> view.shown]

L == INSTANCE Ledger
       WITH shelf  <- crds,
            record <- [b \in Bootstraps |-> Entered(api[b])],
            copy   <- [shelf  |-> crdCache,
                       record |-> [b \in Bootstraps |-> Entered(cache[b])]],
            desk   <- OnDesk

(* The controller implements the ledger (for sources that are versioned    *)
(* and Bootstraps with names of their own): every call it makes, and every *)
(* one of users between, is one entry in it or none, justified by what the *)
(* informers had shown.                                                    *)
ImplementsLedger == L!Spec
=============================================================================
