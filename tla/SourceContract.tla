-------------------------- MODULE SourceContract --------------------------
(***************************************************************************)
(* The protocol between a reconciliation and its source provider: ask      *)
(* HasUpdate, then ask FetchCRD for the revision it answered.  Upstreams   *)
(* move between the two calls, and an editor may point the Bootstrap at    *)
(* another source between two attempts.  Everything the controller does    *)
(* around the two calls is left to module Reconciler.                      *)
(***************************************************************************)
EXTENDS Sources

CONSTANTS
  Settings,     \* the values of spec.source and spec.version in play
  MaxReleases   \* bound: how often the upstreams change

ASSUME SettingsAssumption ==
  /\ Settings \subseteq [source  : SUBSET Kinds,
                         allowed : SUBSET Versions,
                         digest  : Contents \cup {Gone}]
  /\ MaxReleases \in Nat

VARIABLES
  upstream,    \* what the upstreams hold now
  releases,    \* how often they have changed
  spec,        \* spec.source and spec.version
  asking,      \* TRUE between the two calls of one attempt
  answer,      \* the outcome of the last HasUpdate
  applied,     \* status.lastAppliedRevision
  installed    \* the manifest applied last

vars == <<upstream, releases, spec, asking, answer, applied, installed>>

TypeOK ==
  /\ upstream \in Upstream
  /\ releases \in 0..MaxReleases
  /\ spec \in Settings
  /\ asking \in BOOLEAN
  /\ answer \in Outcome
  /\ applied \in Revision
  /\ installed \in Contents \cup {Gone}

Init ==
  /\ upstream \in {u \in Upstream : u.published = {} /\ u.latest = Gone}
  /\ releases = 0
  /\ spec \in Settings
  /\ asking = FALSE
  /\ answer = None(Gone)
  /\ applied = Gone
  /\ installed = Gone

-----------------------------------------------------------------------------
(* The configmap is edited, or deleted. *)
EditConfigMap ==
  /\ releases < MaxReleases
  /\ \E v \in Versions \cup {Gone} : upstream' = [upstream EXCEPT !.configmap = v]
  /\ releases' = releases + 1
  /\ UNCHANGED <<spec, asking, answer, applied, installed>>

(* The page behind the URL serves something else. *)
EditPage ==
  /\ releases < MaxReleases
  /\ \E m \in Contents \cup {Gone} : upstream' = [upstream EXCEPT !.page = m]
  /\ releases' = releases + 1
  /\ UNCHANGED <<spec, asking, answer, applied, installed>>

(* A version is released; any release may be the one marked as latest. *)
Release ==
  /\ releases < MaxReleases
  /\ \E v \in Versions \ upstream.published :
       \E l \in upstream.published \cup {v} :
         upstream' = [upstream EXCEPT !.published = @ \cup {v}, !.latest = l]
  /\ releases' = releases + 1
  /\ UNCHANGED <<spec, asking, answer, applied, installed>>

(* A release is withdrawn; an earlier one becomes the latest. *)
Withdraw ==
  /\ releases < MaxReleases
  /\ \E v \in upstream.published :
       LET left == upstream.published \ {v}
       IN  \E l \in IF left = {} THEN {Gone} ELSE left :
             upstream' = [upstream EXCEPT !.published = left, !.latest = l]
  /\ releases' = releases + 1
  /\ UNCHANGED <<spec, asking, answer, applied, installed>>

(* An attempt works on the object it read, so an edit waits for the next. *)
Reconfigure ==
  /\ ~asking
  /\ spec' \in Settings \ {spec}
  /\ UNCHANGED <<upstream, releases, asking, answer, applied, installed>>

Ask ==
  /\ ~asking
  /\ answer' = HasUpdate(upstream, spec, applied)
  /\ asking' = (answer'.is = "update")
  /\ UNCHANGED <<upstream, releases, spec, applied, installed>>

(* A slip: revision and content change places. *)
MutFetchAndApplySwapped ==
  /\ asking
  /\ FetchCRD(upstream, spec, answer.revision) # Gone
  /\ installed' = answer.revision
  /\ applied' = FetchCRD(upstream, spec, answer.revision)
  /\ asking' = FALSE
  /\ UNCHANGED <<upstream, releases, spec, answer>>

FetchAndApply ==
  LET content == FetchCRD(upstream, spec, answer.revision)
  IN  /\ asking
      /\ content # Gone
      /\ installed' = content
      /\ applied' = answer.revision
      /\ asking' = FALSE
      /\ UNCHANGED <<upstream, releases, spec, answer>>

FetchFails ==
  /\ asking
  /\ FetchCRD(upstream, spec, answer.revision) = Gone
  /\ asking' = FALSE
  /\ UNCHANGED <<upstream, releases, spec, answer, applied, installed>>

Next == \/ EditConfigMap \/ EditPage \/ Release \/ Withdraw \/ Reconfigure
        \/ Ask \/ FetchAndApply \/ FetchFails

Spec == Init /\ [][Next]_vars
-----------------------------------------------------------------------------
(* The manifest that was applied is the one published under the version    *)
(* recorded for it, although the upstream may move between HasUpdate and   *)
(* FetchCRD (configmap/source.go:63 compares, a release is fetched by its  *)
(* tag).  At worst it is empty: the CRDs of HTTP charts are never found.   *)
VersionMatchesContent ==
  applied \in Versions => installed \in {ContentOf[applied], Empty}

(* "It only rolls forward": no later poll replaces a version by an earlier *)
(* one, whatever was withdrawn and however often the source was switched,  *)
(* and a Bootstrap that has applied a digest never goes back to versions.  *)
RollsForward ==
  [][ /\ applied \in Versions => \/ applied' \in Contents
                                 \/ applied' \in Versions /\ applied <= applied'
      /\ applied \in Contents => applied' \in Contents ]_applied

(* Whatever is recorded as applied satisfies the constraint, or is the     *)
(* digest, of the spec the attempt worked on: the constraint is tested at  *)
(* HasUpdate and the result recorded only after FetchCRD.                  *)
WithinSpec ==
  [][ IF Handler(spec.source) = "url"
      THEN spec.digest \in {Gone, applied'}
      ELSE applied' \in spec.allowed ]_applied

-----------------------------------------------------------------------------
(* README.md:20: with a digest, only the content that corresponds to the   *)
(* digest is applied.  URL.FetchCRD downloads again and does not compare.  *)
DigestPinned ==
  [][ Handler(spec.source) = "url" /\ spec.digest # Gone
        => installed' = spec.digest ]_installed
=============================================================================
