--------------------------- MODULE Sources_proofs ---------------------------
(* What the source providers answer, for any upstream and any spec. *)
EXTENDS Sources, TLAPS

LEMMA SemverUpdateType ==
  ASSUME NEW latest \in Versions, NEW allowed, NEW applied \in Revision
  PROVE  SemverUpdate(latest, allowed, applied) \in Outcome
<1>1. None(applied) \in Outcome /\ Update(latest) \in Outcome /\ Error \in Outcome
  BY DEF None, Update, Error, Outcome, Revision
<1>2. \/ latest \notin allowed
      \/ latest \in allowed /\ applied = Gone
      \/ latest \in allowed /\ applied \in Contents
      \/ latest \in allowed /\ applied \in Versions
  BY DEF Revision
<1>3. SemverUpdate(latest, allowed, applied) \in {None(applied), Update(latest), Error}
  BY <1>2 DEF SemverUpdate
<1> QED
  BY <1>1, <1>3

(* An update of a versioned provider is a version the constraint admits,   *)
(* later than the one applied before: the step RollsForward rests on.      *)
LEMMA SemverUpdateForward ==
  ASSUME NEW latest \in Versions, NEW allowed, NEW applied \in Revision,
         SemverUpdate(latest, allowed, applied).is = "update"
  PROVE  /\ SemverUpdate(latest, allowed, applied).revision = latest
         /\ latest \in allowed
         /\ applied \in Versions => applied < latest
         /\ applied \notin Contents
<1> USE SourceAssumption
<1>1. None(applied).is # "update" /\ Error.is # "update"
  BY DEF None, Error
<1>2. latest \in allowed
  BY <1>1 DEF SemverUpdate
<1>3. CASE applied = Gone
  BY <1>2, <1>3 DEF SemverUpdate, Update
<1>4. CASE applied \in Contents
  <2>1. applied # Gone /\ applied \notin Versions
    BY <1>4
  <2>2. SemverUpdate(latest, allowed, applied) = Error
    BY <1>2, <1>4, <2>1 DEF SemverUpdate
  <2> QED
    BY <2>2, <1>1
<1>5. CASE applied \in Versions
  <2>1. applied # Gone /\ applied \notin Contents
    BY <1>5
  <2>2. SemverUpdate(latest, allowed, applied)
          = IF latest <= applied THEN None(applied) ELSE Update(latest)
    BY <1>2, <1>5, <2>1 DEF SemverUpdate
  <2>3. ~(latest <= applied)
    BY <2>2, <1>1
  <2>4. applied < latest
    BY <2>3, <1>5
  <2>5. Update(latest).revision = latest
    BY DEF Update
  <2> QED
    BY <2>1, <2>2, <2>3, <2>4, <2>5, <1>2
<1> QED
  BY <1>3, <1>4, <1>5 DEF Revision

(* The latest admissible version exists whenever one is admissible. *)
LEMMA HelmLatestType ==
  ASSUME NEW versions \in SUBSET Versions, NEW allowed, versions \cap allowed # {}
  PROVE  HelmLatest(versions, allowed) \in versions \cap allowed
<1>1. \E v \in versions \cap allowed : \A w \in versions \cap allowed : w <= v
  BY SourceAssumption
<1> QED
  BY <1>1 DEF HelmLatest

(* Every answer is of the declared form. *)
LEMMA HasUpdateType ==
  ASSUME NEW up \in Upstream, NEW spec, NEW applied \in Revision,
         spec.digest \in Contents \cup {Gone}
  PROVE  HasUpdate(up, spec, applied) \in Outcome
<1> DEFINE kind == Handler(spec.source)
           answer == HasUpdate(up, spec, applied)
<1>1. Error \in Outcome /\ Panic \in Outcome
  BY DEF Error, Panic, Outcome, Revision
<1>2. \A r \in Revision : Update(r) \in Outcome /\ None(r) \in Outcome
  BY DEF Update, None, Outcome
<1>3. /\ up.configmap \in Versions \cup {Gone} /\ up.latest \in Versions \cup {Gone}
      /\ up.published \in SUBSET Versions /\ up.page \in Contents \cup {Gone}
  BY DEF Upstream
<1>4. ConfigMapHasUpdate(up, spec.allowed, applied) \in Outcome
  BY <1>1, <1>3, SemverUpdateType DEF ConfigMapHasUpdate
<1>5. GitHubHasUpdate(up, spec.allowed, applied) \in Outcome
  BY <1>1, <1>3, SemverUpdateType DEF GitHubHasUpdate
<1>6. GitLabHasUpdate(up, spec.allowed, applied) \in Outcome
  BY <1>1, <1>3, SemverUpdateType DEF GitLabHasUpdate
<1>7. HelmHasUpdate(up, spec.allowed, applied) \in Outcome
  <2>1. CASE up.published = {}
    BY <2>1, <1>1 DEF HelmHasUpdate
  <2>2. CASE up.published # {} /\ up.published \cap spec.allowed = {}
    BY <2>2, <1>1 DEF HelmHasUpdate
  <2>3. CASE up.published \cap spec.allowed # {}
    <3>1. HelmLatest(up.published, spec.allowed) \in Versions
      BY <2>3, <1>3, HelmLatestType
    <3>2. SemverUpdate(HelmLatest(up.published, spec.allowed), spec.allowed, applied) \in Outcome
      BY <3>1, SemverUpdateType
    <3> QED
      BY <2>3, <3>2 DEF HelmHasUpdate
  <2> QED
    BY <2>1, <2>2, <2>3
<1>8. URLHasUpdate(up, spec.digest, applied) \in Outcome
  <2>1. up.page \in Revision /\ spec.digest \in Revision /\ Gone \in Revision
    BY <1>3 DEF Revision
  <2>2. URLHasUpdate(up, spec.digest, applied)
          \in {Error, Update(spec.digest), None(Gone), None(applied), Update(up.page)}
    BY DEF URLHasUpdate
  <2> QED
    BY <2>1, <2>2, <1>1, <1>2
<1>9. answer \in {HelmHasUpdate(up, spec.allowed, applied),
                  ConfigMapHasUpdate(up, spec.allowed, applied),
                  GitLabHasUpdate(up, spec.allowed, applied),
                  GitHubHasUpdate(up, spec.allowed, applied),
                  URLHasUpdate(up, spec.digest, applied), Error}
  BY DEF HasUpdate
<1> QED
  BY <1>1, <1>4, <1>5, <1>6, <1>7, <1>8, <1>9

LEMMA FetchType ==
  ASSUME NEW up \in Upstream, NEW spec, NEW revision
  PROVE  FetchCRD(up, spec, revision) \in Contents \cup {Gone}
<1> USE SourceAssumption
<1>1. up.page \in Contents \cup {Gone} /\ up.published \in SUBSET Versions
  BY DEF Upstream
<1>2. ReleaseFetch(up, revision) \in Contents \cup {Gone}
  BY <1>1 DEF ReleaseFetch
<1>3. ConfigMapFetch(up, revision) \in Contents \cup {Gone}
  BY DEF ConfigMapFetch
<1>4. \A kind : HelmFetch(up, kind, revision) \in Contents \cup {Gone}
  BY <1>2 DEF HelmFetch
<1>5. \/ \E kind : FetchCRD(up, spec, revision) = HelmFetch(up, kind, revision)
      \/ FetchCRD(up, spec, revision)
           \in {ConfigMapFetch(up, revision), ReleaseFetch(up, revision), up.page, Gone}
  BY DEF FetchCRD, URLFetch
<1> QED
  BY <1>1, <1>2, <1>3, <1>4, <1>5

-----------------------------------------------------------------------------
(* An update of a provider of releases or charts is a version, later than  *)
(* the one applied.                                                        *)
LEMMA VersionedUpdate ==
  ASSUME NEW up \in Upstream, NEW spec, NEW applied \in Revision,
         Versioned(spec) \/ Handler(spec.source) = "helm-http",
         HasUpdate(up, spec, applied).is = "update"
  PROVE  /\ HasUpdate(up, spec, applied).revision \in Versions \cap spec.allowed
         /\ applied \in Versions => applied < HasUpdate(up, spec, applied).revision
         /\ applied \notin Contents
<1> DEFINE answer == HasUpdate(up, spec, applied)
<1>1. /\ up.configmap \in Versions \cup {Gone} /\ up.latest \in Versions \cup {Gone}
      /\ up.published \in SUBSET Versions
  BY DEF Upstream
<1>2. Error.is # "update" /\ Panic.is # "update"
  BY DEF Error, Panic
<1>3. \E latest \in Versions : answer = SemverUpdate(latest, spec.allowed, applied)
  <2>1. CASE Handler(spec.source) \in {"helm-oci", "helm-http"}
    <3>1. answer = HelmHasUpdate(up, spec.allowed, applied)
      BY <2>1 DEF HasUpdate
    <3>2. up.published \cap spec.allowed # {}
      BY <3>1, <1>2 DEF HelmHasUpdate
    <3>3. HelmLatest(up.published, spec.allowed) \in Versions
      BY <3>2, <1>1, HelmLatestType
    <3>4. up.published # {}
      BY <3>2
    <3> QED
      BY <3>1, <3>2, <3>3, <3>4 DEF HelmHasUpdate
  <2>2. CASE Handler(spec.source) = "configmap"
    <3>1. answer = ConfigMapHasUpdate(up, spec.allowed, applied)
      BY <2>2 DEF HasUpdate
    <3> QED
      BY <3>1, <1>1, <1>2 DEF ConfigMapHasUpdate
  <2>3. CASE Handler(spec.source) = "gitlab"
    <3>1. answer = GitLabHasUpdate(up, spec.allowed, applied)
      BY <2>3 DEF HasUpdate
    <3> QED
      BY <3>1, <1>1, <1>2 DEF GitLabHasUpdate
  <2>4. CASE Handler(spec.source) = "github"
    <3>1. answer = GitHubHasUpdate(up, spec.allowed, applied)
      BY <2>4 DEF HasUpdate
    <3> QED
      BY <3>1, <1>1, <1>2 DEF GitHubHasUpdate
  <2> QED
    BY <2>1, <2>2, <2>3, <2>4 DEF Versioned
<1> QED
  BY <1>3, SemverUpdateForward

(* What they fetch for a version is the manifest published under it.       *)
LEMMA VersionedFetch ==
  ASSUME NEW up \in Upstream, NEW spec, NEW revision, Versioned(spec),
         FetchCRD(up, spec, revision) # Gone
  PROVE  revision \in Versions /\ FetchCRD(up, spec, revision) = ContentOf[revision]
<1>1. up.published \in SUBSET Versions
  BY DEF Upstream
<1>2. CASE Handler(spec.source) = "helm-oci"
  <2>1. FetchCRD(up, spec, revision) = HelmFetch(up, "helm-oci", revision)
    BY <1>2 DEF FetchCRD
  <2> QED
    BY <2>1, <1>1 DEF HelmFetch, ReleaseFetch
<1>3. CASE Handler(spec.source) = "configmap"
  <2>1. FetchCRD(up, spec, revision) = ConfigMapFetch(up, revision)
    BY <1>3 DEF FetchCRD
  <2> QED
    BY <2>1 DEF ConfigMapFetch
<1>4. CASE Handler(spec.source) \in {"gitlab", "github"}
  <2>1. FetchCRD(up, spec, revision) = ReleaseFetch(up, revision)
    BY <1>4 DEF FetchCRD
  <2> QED
    BY <2>1, <1>1 DEF ReleaseFetch
<1> QED
  BY <1>2, <1>3, <1>4 DEF Versioned

(* The bundle of an HTTP chart is empty.                                   *)
LEMMA HTTPChartFetch ==
  ASSUME NEW up \in Upstream, NEW spec, NEW revision,
         Handler(spec.source) = "helm-http", FetchCRD(up, spec, revision) # Gone
  PROVE  FetchCRD(up, spec, revision) = Empty
<1>1. FetchCRD(up, spec, revision) = HelmFetch(up, "helm-http", revision)
  BY DEF FetchCRD
<1> QED
  BY <1>1 DEF HelmFetch, ReleaseFetch

(* An update of a URL is a digest, the pinned one if there is one.         *)
LEMMA URLUpdate ==
  ASSUME NEW up \in Upstream, NEW spec, NEW applied \in Revision,
         spec.digest \in Contents \cup {Gone},
         Handler(spec.source) = "url", HasUpdate(up, spec, applied).is = "update"
  PROVE  /\ HasUpdate(up, spec, applied).revision \in Contents
         /\ spec.digest \in {Gone, HasUpdate(up, spec, applied).revision}
<1> DEFINE answer == HasUpdate(up, spec, applied)
<1>1. up.page \in Contents \cup {Gone}
  BY DEF Upstream
<1>2. answer = URLHasUpdate(up, spec.digest, applied)
  BY DEF HasUpdate
<1>3. Error.is # "update" /\ \A r : None(r).is # "update"
  BY DEF Error, None
<1>4. up.page # Gone
  BY <1>2, <1>3 DEF URLHasUpdate
<1>5. CASE spec.digest # Gone
  <2>1. answer = Update(spec.digest)
    BY <1>2, <1>3, <1>4, <1>5 DEF URLHasUpdate
  <2> QED
    BY <2>1, <1>5 DEF Update
<1>6. CASE spec.digest = Gone
  <2>1. answer = Update(up.page)
    BY <1>2, <1>3, <1>4, <1>6 DEF URLHasUpdate
  <2> QED
    BY <2>1, <1>1, <1>4, <1>6 DEF Update
<1> QED
  BY <1>5, <1>6

(* Only a spec that names a source is answered with an update.             *)
LEMMA UpdateHandled ==
  ASSUME NEW up, NEW spec, NEW applied, HasUpdate(up, spec, applied).is = "update"
  PROVE  Versioned(spec) \/ Handler(spec.source) \in {"helm-http", "url"}
<1>1. Error.is # "update"
  BY DEF Error
<1> QED
  BY <1>1 DEF HasUpdate, Versioned
=============================================================================
