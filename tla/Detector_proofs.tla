-------------------------- MODULE Detector_proofs --------------------------
(* Proofs about Detector, for any versions, schemas and breaking edits. *)
EXTENDS Detector, TLAPS

(* Every step keeps the state within its types. *)
THEOREM TypeCorrect == Spec => []TypeOK
<1>1. Init => TypeOK
  BY DEF Init, TypeOK
<1>2. TypeOK /\ [Next]_vars => TypeOK'
  <2> SUFFICES ASSUME TypeOK, [Next]_vars PROVE TypeOK'
    OBVIOUS
  <2> USE DEF TypeOK
  <2>1. CASE Propose
    BY <2>1 DEF Propose
  <2>2. CASE Upgrade
    BY <2>2 DEF Upgrade
  <2>3. CASE Block
    BY <2>3 DEF Block
  <2>4. CASE \E v \in Names : \/ SkipWithoutSchema(v) \/ Removed(v) \/ Same(v)
                              \/ Compare(v) \/ CompareFails(v)
    BY <2>4 DEF SkipWithoutSchema, Removed, Same, Compare, CompareFails, Turn
  <2>5. CASE UNCHANGED vars
    BY <2>5 DEF vars
  <2> QED
    BY <2>1, <2>2, <2>3, <2>4, <2>5 DEF Next
<1> QED
  BY <1>1, <1>2, PTL DEF Spec

(* What the loop has passed over without a finding is safe to replace: the *)
(* inductive invariant behind SafeUpgrade.                                 *)
THEOREM LoopInvariant == Spec => []VisitedIsSafe
<1>1. Init => VisitedIsSafe
  BY DEF Init, VisitedIsSafe
<1>2. TypeOK /\ VisitedIsSafe /\ [Next]_vars => VisitedIsSafe'
  <2> SUFFICES ASSUME TypeOK, VisitedIsSafe, [Next]_vars PROVE VisitedIsSafe'
    OBVIOUS
  <2> USE DEF VisitedIsSafe
  <2>1. CASE Propose
    <3>1. \A v \in Names \ todo' : ~HasSchema(installed', v)
      BY <2>1, DetectorAssumption DEF Propose, HasSchema
    <3> QED
      BY <3>1
  <2>2. CASE Upgrade
    BY <2>2 DEF Upgrade
  <2>3. CASE Block
    BY <2>3 DEF Block
  <2>4. ASSUME NEW v \in Names, SkipWithoutSchema(v) PROVE VisitedIsSafe'
    BY <2>4 DEF SkipWithoutSchema, Turn, HasSchema
  <2>5. ASSUME NEW v \in Names, Removed(v) PROVE VisitedIsSafe'
    BY <2>5 DEF Removed, Turn, HasSchema
  <2>6. ASSUME NEW v \in Names, Same(v) PROVE VisitedIsSafe'
    BY <2>6, DetectorAssumption DEF Same, Turn, HasSchema
  <2>7. ASSUME NEW v \in Names, Compare(v) PROVE VisitedIsSafe'
    BY <2>7 DEF Compare, Turn, HasSchema
  <2>8. ASSUME NEW v \in Names, CompareFails(v) PROVE VisitedIsSafe'
    BY <2>8 DEF CompareFails, Turn
  <2>9. CASE UNCHANGED vars
    BY <2>9 DEF vars, HasSchema
  <2> QED
    BY <2>1, <2>2, <2>3, <2>4, <2>5, <2>6, <2>7, <2>8, <2>9 DEF Next
<1> QED
  BY <1>1, <1>2, TypeCorrect, PTL DEF Spec

(* No upgrade the detector lets through loses a version or changes one in  *)
(* a breaking way.                                                         *)
THEOREM UpgradesAreSafe == Spec => SafeUpgrade
<1>1. TypeOK /\ VisitedIsSafe /\ [Next]_vars =>
        [ \A v \in Names : HasSchema(installed, v) =>
            /\ HasSchema(installed', v)
            /\ <<installed[v], installed'[v]>> \notin BreakingEdit ]_installed
  <2> SUFFICES ASSUME TypeOK, VisitedIsSafe, [Next]_vars, installed' # installed,
                      NEW v \in Names, HasSchema(installed, v)
               PROVE  /\ HasSchema(installed', v)
                      /\ <<installed[v], installed'[v]>> \notin BreakingEdit
    OBVIOUS
  <2>1. Upgrade
    BY DEF Next, vars, Propose, Block, SkipWithoutSchema, Removed, Same, Compare,
           CompareFails, Turn
  <2> QED
    BY <2>1 DEF Upgrade, VisitedIsSafe, HasSchema
<1> QED
  BY <1>1, TypeCorrect, LoopInvariant, PTL DEF Spec, SafeUpgrade

(* A finding has a cause, and a failure has two CRDs that differ.          *)
Cause(v) == /\ HasSchema(installed, v)
            /\ \/ ~HasSchema(proposed, v)
               \/ <<installed[v], proposed[v]>> \in BreakingEdit

FindingsHaveCauses ==
  /\ state \in {"comparing", "blocked"} => \A v \in breaking : Cause(v)
  /\ state = "blocked" => breaking # {}
  /\ state = "failed" => proposed # installed

LEMMA FindingsStep ==
  ASSUME TypeOK, FindingsHaveCauses, [Next]_vars
  PROVE  FindingsHaveCauses'
<1> USE DEF FindingsHaveCauses, Cause
<1>1. CASE Propose
  BY <1>1 DEF Propose
<1>2. CASE Upgrade \/ Block
  BY <1>2 DEF Upgrade, Block, HasSchema
<1>3. ASSUME NEW v \in Names, SkipWithoutSchema(v) \/ Same(v) PROVE FindingsHaveCauses'
  BY <1>3 DEF SkipWithoutSchema, Same, Turn, HasSchema
<1>4. ASSUME NEW v \in Names, Removed(v) \/ Compare(v) PROVE FindingsHaveCauses'
  BY <1>4 DEF Removed, Compare, Turn, HasSchema
<1>5. ASSUME NEW v \in Names, CompareFails(v) PROVE FindingsHaveCauses'
  BY <1>5 DEF CompareFails, Turn
<1>6. CASE UNCHANGED vars
  BY <1>6 DEF vars, HasSchema
<1> QED
  BY <1>1, <1>2, <1>3, <1>4, <1>5, <1>6 DEF Next

LEMMA FindingsKnown == Spec => []FindingsHaveCauses
<1>1. Init => FindingsHaveCauses
  BY DEF Init, FindingsHaveCauses
<1> QED
  BY <1>1, FindingsStep, TypeCorrect, PTL DEF Spec

(* Nothing is blocked without a version that was removed or broken.        *)
THEOREM BlocksHaveReasons == Spec => []BlockedForReason
<1>1. TypeOK /\ FindingsHaveCauses => BlockedForReason
  BY DEF TypeOK, FindingsHaveCauses, Cause, BlockedForReason
<1> QED
  BY <1>1, TypeCorrect, FindingsKnown, PTL

(* What is installed is never blocked, and never fails to be compared with *)
(* itself.                                                                 *)
THEOREM InstalledIsReapplicable == Spec => []Reapplicable
<1>1. TypeOK /\ FindingsHaveCauses => Reapplicable
  <2> SUFFICES ASSUME TypeOK, FindingsHaveCauses, proposed = installed
               PROVE  state \in {"idle", "comparing"}
    BY DEF Reapplicable
  <2>1. \A v \in Names : ~Cause(v)
    BY DetectorAssumption DEF Cause, HasSchema
  <2> QED
    BY <2>1 DEF TypeOK, FindingsHaveCauses
<1> QED
  BY <1>1, TypeCorrect, FindingsKnown, PTL
=============================================================================
