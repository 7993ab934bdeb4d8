------------------------ MODULE SourceContract_proofs ------------------------
(* Proofs about the protocol of HasUpdate and FetchCRD, for all providers,  *)
(* any settings and any number of changes of the upstreams.                 *)
EXTENDS SourceContract, Sources_proofs

LEMMA SettingType ==
  ASSUME NEW s \in Settings
  PROVE  s.allowed \in SUBSET Versions /\ s.digest \in Contents \cup {Gone}
  BY SettingsAssumption

-----------------------------------------------------------------------------
(* The type invariant of module SourceContract.                            *)
THEOREM TypeCorrect == Spec => []TypeOK
<1> USE DEF TypeOK
<1>1. Init => TypeOK
  <2>1. Gone \in Revision /\ None(Gone) \in Outcome
    BY DEF Revision, None, Outcome
  <2>2. 0 \in 0..MaxReleases
    BY SettingsAssumption
  <2>3. ASSUME Init PROVE upstream \in Upstream /\ spec \in Settings
    BY <2>3 DEF Init
  <2> QED
    BY <2>1, <2>2, <2>3 DEF Init
<1>2. TypeOK /\ [Next]_vars => TypeOK'
  <2> SUFFICES ASSUME TypeOK, [Next]_vars PROVE TypeOK'
    OBVIOUS
  <2>0. releases < MaxReleases => releases + 1 \in 0..MaxReleases
    BY SettingsAssumption
  <2>1. CASE EditConfigMap
    BY <2>0, <2>1 DEF EditConfigMap, Upstream
  <2>2. CASE EditPage
    BY <2>0, <2>2 DEF EditPage, Upstream
  <2>3. CASE Release
    <3>1. PICK v \in Versions \ upstream.published :
            \E l \in upstream.published \cup {v} :
              upstream' = [upstream EXCEPT !.published = @ \cup {v}, !.latest = l]
      BY <2>3 DEF Release
    <3>2. upstream.published \cup {v} \in SUBSET Versions
      BY <3>1 DEF Upstream
    <3>3. upstream' \in Upstream
      BY <3>1, <3>2 DEF Upstream
    <3> QED
      BY <2>0, <2>3, <3>3 DEF Release
  <2>4. CASE Withdraw
    BY <2>0, <2>4 DEF Withdraw, Upstream
  <2>5. CASE Reconfigure
    BY <2>5 DEF Reconfigure
  <2>6. CASE Ask
    <3>1. HasUpdate(upstream, spec, applied) \in Outcome
      BY SettingType, HasUpdateType
    <3> QED
      BY <2>6, <3>1 DEF Ask
  <2>7. CASE FetchAndApply
    <3>1. FetchCRD(upstream, spec, answer.revision) \in Contents \cup {Gone}
      BY FetchType
    <3>2. answer.revision \in Revision
      BY DEF Outcome
    <3> QED
      BY <2>7, <3>1, <3>2 DEF FetchAndApply
  <2>8. CASE FetchFails
    BY <2>8 DEF FetchFails
  <2>9. CASE UNCHANGED vars
    BY <2>9 DEF vars
  <2> QED
    BY <2>1, <2>2, <2>3, <2>4, <2>5, <2>6, <2>7, <2>8, <2>9 DEF Next
<1> QED
  BY <1>1, <1>2, PTL DEF Spec

-----------------------------------------------------------------------------
(* What FetchAndApply may rely on: between the two calls neither the spec  *)
(* nor the record changes, so what HasUpdate found about them still holds, *)
(* whatever the upstreams do.                                              *)
Answered ==
  asking =>
    /\ answer.is = "update"
    /\ IF Handler(spec.source) = "url"
       THEN answer.revision \in Contents /\ spec.digest \in {Gone, answer.revision}
       ELSE /\ Versioned(spec) \/ Handler(spec.source) = "helm-http"
            /\ answer.revision \in Versions \cap spec.allowed
            /\ applied \in Versions => applied < answer.revision
            /\ applied \notin Contents

LEMMA AskAnswers ==
  ASSUME TypeOK, Ask
  PROVE  Answered'
<1> DEFINE a == HasUpdate(upstream, spec, applied)
<1>1. answer' = a /\ asking' = (a.is = "update") /\ UNCHANGED <<spec, applied>>
  BY DEF Ask
<1>2. SUFFICES ASSUME a.is = "update" PROVE Answered'
  BY <1>1 DEF Answered
<1>3. upstream \in Upstream /\ applied \in Revision /\ spec.digest \in Contents \cup {Gone}
  BY SettingType DEF TypeOK
<1>4. CASE Handler(spec.source) = "url"
  <2>1. a.revision \in Contents /\ spec.digest \in {Gone, a.revision}
    BY <1>2, <1>3, <1>4, URLUpdate
  <2> QED
    BY <1>1, <1>2, <1>4, <2>1 DEF Answered
<1>5. CASE Handler(spec.source) # "url"
  <2>1. Versioned(spec) \/ Handler(spec.source) = "helm-http"
    BY <1>2, <1>5, UpdateHandled
  <2>2. /\ a.revision \in Versions \cap spec.allowed
        /\ applied \in Versions => applied < a.revision
        /\ applied \notin Contents
    BY <1>2, <1>3, <2>1, VersionedUpdate
  <2> QED
    BY <1>1, <1>2, <1>5, <2>1, <2>2 DEF Answered, Versioned
<1> QED
  BY <1>4, <1>5

LEMMA AnswersStand == Spec => []Answered
<1>1. Init => Answered
  BY DEF Init, Answered
<1>2. TypeOK /\ Answered /\ [Next]_vars => Answered'
  <2> SUFFICES ASSUME TypeOK, Answered, [Next]_vars PROVE Answered'
    OBVIOUS
  <2>1. CASE EditConfigMap \/ EditPage \/ Release \/ Withdraw \/ UNCHANGED vars
    <3>1. UNCHANGED <<spec, asking, answer, applied>>
      BY <2>1 DEF EditConfigMap, EditPage, Release, Withdraw, vars
    <3> QED
      BY <3>1 DEF Answered, Versioned
  <2>2. CASE Reconfigure
    BY <2>2 DEF Reconfigure, Answered
  <2>3. CASE Ask
    BY <2>3, AskAnswers
  <2>4. CASE FetchAndApply \/ FetchFails
    BY <2>4 DEF FetchAndApply, FetchFails, Answered
  <2> QED
    BY <2>1, <2>2, <2>3, <2>4 DEF Next
<1> QED
  BY <1>1, <1>2, TypeCorrect, PTL DEF Spec

-----------------------------------------------------------------------------
(* The manifest applied under a version is the one published under it, or  *)
(* the empty one of an HTTP chart, however upstreams move between the two  *)
(* calls and however often the source is switched.                         *)
THEOREM ContentsMatch == Spec => []VersionMatchesContent
<1>1. Init => VersionMatchesContent
  BY SourceAssumption DEF Init, VersionMatchesContent
<1>2. TypeOK /\ Answered /\ VersionMatchesContent /\ [Next]_vars => VersionMatchesContent'
  <2> SUFFICES ASSUME TypeOK, Answered, VersionMatchesContent, [Next]_vars
               PROVE  VersionMatchesContent'
    OBVIOUS
  <2>1. CASE UNCHANGED <<applied, installed>>
    BY <2>1 DEF VersionMatchesContent
  <2>2. CASE FetchAndApply
    <3> DEFINE content == FetchCRD(upstream, spec, answer.revision)
    <3>1. /\ upstream \in Upstream /\ asking /\ content # Gone
          /\ applied' = answer.revision /\ installed' = content
      BY <2>2 DEF FetchAndApply, TypeOK
    <3>2. CASE Handler(spec.source) = "url"
      <4>1. applied' \notin Versions
        BY <3>1, <3>2, SourceAssumption DEF Answered
      <4> QED
        BY <4>1 DEF VersionMatchesContent
    <3>3. CASE Handler(spec.source) = "helm-http"
      <4>1. content = Empty
        BY <3>1, <3>3, HTTPChartFetch
      <4> QED
        BY <3>1, <4>1 DEF VersionMatchesContent
    <3>4. CASE Versioned(spec)
      <4>1. content = ContentOf[answer.revision]
        BY <3>1, <3>4, VersionedFetch
      <4> QED
        BY <3>1, <4>1 DEF VersionMatchesContent
    <3> QED
      BY <3>1, <3>2, <3>3, <3>4 DEF Answered
  <2> QED
    BY <2>1, <2>2 DEF Next, EditConfigMap, EditPage, Release, Withdraw, Reconfigure,
                      Ask, FetchFails, vars
<1> QED
  BY <1>1, <1>2, TypeCorrect, AnswersStand, PTL DEF Spec

-----------------------------------------------------------------------------
(* Only FetchAndApply changes the record. *)
LEMMA RecordSteps ==
  ASSUME [Next]_vars, applied' # applied
  PROVE  FetchAndApply
  BY DEF Next, EditConfigMap, EditPage, Release, Withdraw, Reconfigure, Ask, FetchFails, vars

(* No later poll replaces a version by an earlier one, and a Bootstrap     *)
(* that has applied a digest never goes back to versions.                  *)
THEOREM RecordsRollForward == Spec => RollsForward
<1> DEFINE Forward == /\ applied \in Versions => \/ applied' \in Contents
                                                 \/ applied' \in Versions /\ applied <= applied'
                      /\ applied \in Contents => applied' \in Contents
<1>1. TypeOK /\ Answered /\ [Next]_vars => [Forward]_applied
  <2> SUFFICES ASSUME TypeOK, Answered, [Next]_vars, applied' # applied
               PROVE  Forward
    OBVIOUS
  <2>1. asking /\ applied' = answer.revision
    BY RecordSteps DEF FetchAndApply
  <2>2. CASE Handler(spec.source) = "url"
    BY <2>1, <2>2 DEF Answered
  <2>3. CASE Handler(spec.source) # "url"
    <3>1. /\ applied' \in Versions /\ applied \notin Contents
          /\ applied \in Versions => applied < applied'
      BY <2>1, <2>3 DEF Answered
    <3>2. applied \in Versions => applied \in Nat /\ applied' \in Nat
      BY <3>1, SourceAssumption
    <3>3. applied \in Versions => applied <= applied'
      BY <3>1, <3>2
    <3> QED
      BY <3>1, <3>3
  <2> QED
    BY <2>2, <2>3
<1> QED
  BY <1>1, TypeCorrect, AnswersStand, PTL DEF Spec, RollsForward

(* What is recorded satisfies the constraint, or is the digest, of the     *)
(* spec the attempt worked on.                                             *)
THEOREM RecordsWithinSpec == Spec => WithinSpec
<1> DEFINE Within == IF Handler(spec.source) = "url"
                     THEN spec.digest \in {Gone, applied'}
                     ELSE applied' \in spec.allowed
<1>1. Answered /\ [Next]_vars => [Within]_applied
  <2> SUFFICES ASSUME Answered, [Next]_vars, applied' # applied
               PROVE  Within
    OBVIOUS
  <2>1. asking /\ applied' = answer.revision
    BY RecordSteps DEF FetchAndApply
  <2> QED
    BY <2>1 DEF Answered
<1> QED
  BY <1>1, AnswersStand, PTL DEF Spec, WithinSpec
=============================================================================
