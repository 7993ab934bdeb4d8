------------------------ MODULE ReconcilerProperties ------------------------
(* What the Bootstrap controller is expected to do, over module Reconciler. *)
EXTENDS Reconciler

(* The manifest a revision names: a digest names its own.  *)
Named(r) == IF r \in Versions THEN ContentOf[r] ELSE r

SameObject(old, new) == IF old = Gone \/ new = Gone THEN FALSE ELSE old.uid = new.uid

-----------------------------------------------------------------------------
(* lastAppliedRevision is recorded only when every CRD of the manifest     *)
(* that was fetched is installed from it, by this Bootstrap, in the        *)
(* cluster the attempt targets: not after a partial apply, a failed wait,  *)
(* or a failed patch that is caught up later.  Where sources are versioned *)
(* it is the manifest of the revision recorded; a URL may serve another    *)
(* page than it answered for, and an HTTP chart none.                      *)
RecordedIsInstalled ==
  [][ \A b \in Bootstraps :
        SameObject(api[b], api'[b]) =>
          \/ api'[b].applied = api[b].applied
          \/ /\ \A c \in Objects : crds[Target(work.obj.spec)][c]
                                    = [content |-> work.content, by |-> b]
             /\ Versioned(work.obj.spec) => work.content = ContentOf[api'[b].applied] ]_api

(* Why: what an attempt has applied so far is installed from the manifest  *)
(* it fetched, that of its revision, and stays so until its status is      *)
(* patched, whatever other Bootstraps, users and upstreams do.             *)
AttemptIsInstalled ==
  LET Applied(c) == crds[Target(work.obj.spec)][c] = [content |-> work.content, by |-> work.key]
      Published(r) == r \in Versions /\ work.content = ContentOf[r]
  IN  /\ pc \in {"check", "fetch", "inspect", "apply", "prune"}
           => work.obj.applied = work.read.applied
      /\ pc \in {"inspect", "apply"} /\ Versioned(work.obj.spec) => Published(work.revision)
      /\ pc = "apply" => \A c \in Objects \ work.todo : Applied(c)
      /\ pc \in {"conditions", "metadata", "status"} =>
           \/ work.obj.applied = work.read.applied
           \/ /\ \A c \in Objects : Applied(c)
              /\ Versioned(work.obj.spec) => Published(work.obj.applied)

(* A version only rolls forward, and a digest is never replaced by one.    *)
Forward(old, new) ==
  /\ old \in Versions => new \in Contents \/ (new \in Versions /\ old <= new)
  /\ old \in Contents => new \in Contents

(* README.md:98: the recorded version of an object rolls forward; where it *)
(* does not, the attempt was handed an older status by the informer, and   *)
(* has gone forward from that one.                                         *)
RollsForward ==
  [][ \A b \in Bootstraps :
        SameObject(api[b], api'[b]) =>
          \/ Forward(api[b].applied, api'[b].applied)
          \/ /\ pc = "status" /\ work.key = b
             /\ work.read.applied # api[b].applied
             /\ Forward(work.read.applied, api'[b].applied) ]_api

(* No object that still needs the controller is forgotten: one that polls, *)
(* one that waits for its deletion, one whose finalizer was never stored.  *)
(* It is queued, waits for a timer, is being reconciled, or an event for   *)
(* it is still to come (the results of Reconcile, SetupWithManager:65).    *)
Needs(b) ==
  IF api[b] = Gone THEN FALSE
  ELSE api[b].spec.interval \/ api[b].deleting \/ ~api[b].finalizer

Scheduled(b) ==
  \/ b \in queue \cup delayed
  \/ pc # "idle" /\ work.key = b
  \/ Event(cache[b], api[b])

AlwaysScheduled == \A b \in Bootstraps : Needs(b) => Scheduled(b)

(* While a Bootstrap lives, the CRDs of the revision its status shows as   *)
(* applied exist in the local cluster (for Bootstraps that keep to it and  *)
(* share no CRD).                                                          *)
StatusIsBacked ==
  \A b \in Bootstraps :
    LET o == api[b] IN
      (IF o = Gone THEN FALSE ELSE ~o.deleting /\ o.applied # Gone)
        => \A c \in Bundle[Named(o.applied)] : crds["local"][c] # Gone

-----------------------------------------------------------------------------
(* Once the environment leaves a deleted object alone, it goes: every      *)
(* error on the way is retried and a CRD already gone does not wedge it.   *)
DeletionCompletes ==
  \A b \in Bootstraps :
    (IF api[b] = Gone THEN FALSE ELSE api[b].deleting) ~> (api[b] = Gone)

(* An update that can be installed is not ignored for ever.                *)
Installable(b) ==
  IF api[b] = Gone THEN FALSE
  ELSE LET o == api[b]
           answer == HasUpdate(upstream, o.spec, o.applied)
           content == FetchCRD(upstream, o.spec, answer.revision)
       IN  /\ ~o.deleting /\ o.spec.interval
           /\ answer.is = "update" /\ answer.revision # o.applied
           /\ content # Gone
           /\ \/ ~o.spec.template
              \/ /\ content \notin TemplatePanics
                 /\ content \notin TemplateFails \/ o.spec.continueOnValidationError
           /\ \A c \in Bundle[content] : crds["local"][c] # Gone =>
                LET change == <<c, crds["local"][c].content, content>>
                IN  /\ change \notin Incomparable
                    /\ change \notin Breaks \/ o.spec.ignoreBreakingChanges

Converges == \A b \in Bootstraps : []<>~Installable(b)

-----------------------------------------------------------------------------
(* Promises of the documentation that the code does not keep.              *)

(* bootstrap_types.go:208: the counters hold the applied CRDs "and the     *)
(* number of times they were applied".  The map is shared with the status  *)
(* and counted before anything is applied.                                 *)
CountedWasApplied ==
  \A b \in Bootstraps, c \in CRDNames :
    (IF api[b] = Gone THEN FALSE ELSE api[b].names[c] > 0)
      => \E k \in Clusters : crds[k][c] # Gone

(* README.md:266: once a Bootstrap (here: a pruning one) is deleted, the   *)
(* CRDs it applied go.  The finalizer is stored only after they came.      *)
NoOrphans ==
  pc = "idle" /\ queue \cup delayed = {} => \A k \in Clusters, c \in CRDNames :
    IF crds[k][c] = Gone THEN TRUE ELSE api[crds[k][c].by] # Gone
=============================================================================
