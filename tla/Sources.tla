------------------------------ MODULE Sources ------------------------------
(***************************************************************************)
(* The source providers of pkg/source: what HasUpdate and FetchCRD answer  *)
(* for a spec, the last applied revision and the state of the upstream.    *)
(* Both are queries, so this is a module of operators and has no state.    *)
(*                                                                         *)
(* A version stands for a semver string and is ordered like one; a content *)
(* stands for a manifest and for the sha256 digest of it.                  *)
(***************************************************************************)
EXTENDS Naturals

CONSTANTS
  Versions,    \* the versions an upstream may ever publish
  Contents,    \* the manifests an upstream may ever serve
  ContentOf,   \* the manifest published under each version
  Empty,       \* the manifest that holds no object at all
  Gone         \* stands for what does not exist, and for the empty string

ASSUME SourceAssumption ==
  /\ Versions \subseteq Nat
  /\ \A S \in SUBSET Versions : S # {} => \E v \in S : \A w \in S : w <= v
  /\ ContentOf \in [Versions -> Contents]
  /\ Empty \in Contents
  /\ Gone \notin Versions \cup Contents
  /\ Versions \cap Contents = {}

Revision == Versions \cup Contents \cup {Gone}

(***************************************************************************)
(* What the upstreams hold.  One upstream of each kind is enough: a        *)
(* Bootstrap names exactly one, and sharing it only adds interleavings.    *)
(***************************************************************************)
Upstream == [configmap : Versions \cup {Gone},  \* data["version"], Gone when absent
             latest    : Versions \cup {Gone},  \* the release marked as latest
             published : SUBSET Versions,       \* releases, chart versions
             page      : Contents \cup {Gone}]  \* what the URL serves

(***************************************************************************)
(* cmd/main.go builds the chain of responsibility; each provider passes    *)
(* the call on unless its own field of spec.source is set.  The two kinds  *)
(* of Helm repository share the first provider.                            *)
(***************************************************************************)
Chain == <<"helm-oci", "helm-http", "configmap", "gitlab", "github", "url">>
Kinds == {Chain[i] : i \in 1..6}

Handler(source) ==
  IF source = {} THEN Gone
  ELSE Chain[CHOOSE i \in 1..6 : /\ Chain[i] \in source
                                 /\ \A j \in 1..(i - 1) : Chain[j] \notin source]

(***************************************************************************)
(* The outcome of a check.  A panic unwinds through the deferred calls of  *)
(* the caller instead of returning to it.                                  *)
(***************************************************************************)
Outcome == [is : {"update", "none", "error", "panic"}, revision : Revision]

Update(r) == [is |-> "update", revision |-> r]
None(r)   == [is |-> "none",   revision |-> r]
Error     == [is |-> "error",  revision |-> Gone]
Panic     == [is |-> "panic",  revision |-> Gone]

(* Slips: any other version counts as an update; the constraint is ignored; *)
(* a record that is no version counts as none.                              *)
MutSemverUpdateBackwards(latest, allowed, applied) ==
  CASE latest \notin allowed                    -> None(applied)
    [] latest \in allowed /\ applied = Gone     -> Update(latest)
    [] latest \in allowed /\ applied \in Contents -> Error
    [] latest \in allowed /\ applied \in Versions ->
         IF latest = applied THEN None(applied) ELSE Update(latest)

MutSemverUpdateUnconstrained(latest, allowed, applied) ==
  CASE applied = Gone       -> Update(latest)
    [] applied \in Contents -> Error
    [] applied \in Versions -> IF latest <= applied THEN None(applied) ELSE Update(latest)

MutSemverUpdateForgets(latest, allowed, applied) ==
  CASE latest \notin allowed                          -> None(applied)
    [] latest \in allowed /\ applied \notin Versions -> Update(latest)
    [] latest \in allowed /\ applied \in Versions    ->
         IF latest <= applied THEN None(applied) ELSE Update(latest)

(***************************************************************************)
(* The comparison all four versioned providers repeat.                     *)
(***************************************************************************)
SemverUpdate(latest, allowed, applied) ==
  CASE latest \notin allowed                    -> None(applied)
    [] latest \in allowed /\ applied = Gone     -> Update(latest)
    [] latest \in allowed /\ applied \in Contents -> Error
    [] latest \in allowed /\ applied \in Versions ->
         IF latest <= applied THEN None(applied) ELSE Update(latest)

ConfigMapHasUpdate(up, allowed, applied) ==
  IF up.configmap = Gone THEN Error
  ELSE SemverUpdate(up.configmap, allowed, applied)

GitHubHasUpdate(up, allowed, applied) ==
  IF up.latest = Gone THEN Error
  ELSE SemverUpdate(up.latest, allowed, applied)

(* A failed request leaves a nil body whose deferred Close panics. *)
GitLabHasUpdate(up, allowed, applied) ==
  IF up.latest = Gone THEN Panic
  ELSE SemverUpdate(up.latest, allowed, applied)

HelmLatest(versions, allowed) ==
  LET satisfying == versions \cap allowed
  IN  CHOOSE v \in satisfying : \A w \in satisfying : w <= v

(* getLatestVersion indexes an empty slice when no version satisfies. *)
HelmHasUpdate(up, allowed, applied) ==
  CASE up.published = {} -> Error
    [] up.published # {} /\ up.published \cap allowed = {} -> Panic
    [] up.published \cap allowed # {} ->
         SemverUpdate(HelmLatest(up.published, allowed), allowed, applied)

(* The digest of what the page serves now; a pinned digest always applies. *)
URLHasUpdate(up, digest, applied) ==
  CASE up.page = Gone -> Error
    [] up.page # Gone /\ digest # Gone ->
         IF up.page = digest THEN Update(digest) ELSE None(Gone)
    [] up.page # Gone /\ digest = Gone ->
         IF up.page = applied THEN None(applied) ELSE Update(up.page)

HasUpdate(up, spec, applied) ==
  LET kind == Handler(spec.source)
  IN  CASE kind \in {"helm-oci", "helm-http"} -> HelmHasUpdate(up, spec.allowed, applied)
        [] kind = "configmap" -> ConfigMapHasUpdate(up, spec.allowed, applied)
        [] kind = "gitlab"    -> GitLabHasUpdate(up, spec.allowed, applied)
        [] kind = "github"    -> GitHubHasUpdate(up, spec.allowed, applied)
        [] kind = "url"       -> URLHasUpdate(up, spec.digest, applied)
        [] OTHER              -> Error

(***************************************************************************)
(* What FetchCRD leaves in the file it names: Gone when it returns an      *)
(* error or, for GitLab, panics.                                           *)
(***************************************************************************)
(* A slip: the version read by the second Get is not compared. *)
MutConfigMapFetchUnchecked(up, revision) ==
  IF up.configmap \in Versions THEN ContentOf[up.configmap] ELSE Gone

ConfigMapFetch(up, revision) ==
  IF up.configmap = revision /\ revision \in Versions THEN ContentOf[revision] ELSE Gone

ReleaseFetch(up, revision) ==
  IF revision \in up.published THEN ContentOf[revision] ELSE Gone

(* What is downloaded for an HTTP repository is what its own URL serves,   *)
(* whatever is published there, and only the archive of an OCI chart is    *)
(* expanded before it is searched for a crds folder: the bundle is empty.  *)
HelmFetch(up, kind, revision) ==
  IF kind = "helm-http" THEN Empty ELSE ReleaseFetch(up, revision)

(* The revision is not used: whatever is served now is downloaded again. *)
URLFetch(up) == up.page

FetchCRD(up, spec, revision) ==
  LET kind == Handler(spec.source)
  IN  CASE kind \in {"helm-oci", "helm-http"} -> HelmFetch(up, kind, revision)
        [] kind = "configmap"             -> ConfigMapFetch(up, revision)
        [] kind \in {"gitlab", "github"}  -> ReleaseFetch(up, revision)
        [] kind = "url"                   -> URLFetch(up)
        [] OTHER                          -> Gone

FetchPanics(up, spec, revision) ==
  Handler(spec.source) = "gitlab" /\ FetchCRD(up, spec, revision) = Gone

(* The providers whose revisions are versions and whose fetch goes by the  *)
(* version asked for.                                                      *)
Versioned(spec) == Handler(spec.source) \in {"helm-oci", "configmap", "gitlab", "github"}
=============================================================================
