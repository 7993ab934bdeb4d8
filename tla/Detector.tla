------------------------------ MODULE Detector ------------------------------
(***************************************************************************)
(* pkg/breaking: whether a new CRD breaks the one it replaces.  The loop   *)
(* of DetectBreakingChanges is followed version by version, for a CRD that *)
(* is upgraded again and again as long as nothing is found (the gate of    *)
(* Reconcile without ignoreBreakingChanges).                               *)
(*                                                                         *)
(* What libopenapi makes of two schemas is external and a parameter.       *)
(***************************************************************************)
CONSTANTS
  Names,         \* names of versions, like v1alpha1
  Schemas,       \* OpenAPI schemas
  BreakingEdit,  \* <<s, t>>: libopenapi lists a breaking change from s to t
  Unbuildable,   \* schemas no model can be built from
  NoSchema,      \* a version without a schema
  Absent         \* no such version in the CRD

ASSUME DetectorAssumption ==
  /\ BreakingEdit \subseteq Schemas \X Schemas
  /\ \A s \in Schemas : <<s, s>> \notin BreakingEdit
  /\ Unbuildable \subseteq Schemas
  /\ {NoSchema, Absent} \cap Schemas = {}

CRD == [Names -> Schemas \cup {NoSchema, Absent}]

VARIABLES
  installed,  \* the CRD in the cluster
  proposed,   \* the CRD of the bundle
  todo,       \* the versions of the installed one the loop has not reached
  breaking,   \* the versions findings were reported for
  state       \* "idle", "comparing", "failed" or "blocked"

vars == <<installed, proposed, todo, breaking, state>>

TypeOK ==
  /\ installed \in CRD
  /\ proposed \in CRD
  /\ todo \subseteq Names
  /\ breaking \subseteq Names
  /\ state \in {"idle", "comparing", "failed", "blocked"}

Init ==
  /\ installed \in CRD
  /\ proposed = installed
  /\ todo = {}
  /\ breaking = {}
  /\ state = "idle"

HasSchema(crd, v) == crd[v] \in Schemas

(* A new attempt: its bundle holds any CRD. *)
Propose ==
  /\ state # "comparing"
  /\ proposed' \in CRD
  /\ todo' = {v \in Names : installed[v] # Absent}
  /\ breaking' = {}
  /\ state' = "comparing"
  /\ UNCHANGED installed

Turn(v) ==
  /\ state = "comparing"
  /\ v \in todo
  /\ todo' = todo \ {v}
  /\ UNCHANGED <<installed, proposed>>

SkipWithoutSchema(v) ==
  /\ Turn(v)
  /\ ~HasSchema(installed, v)
  /\ UNCHANGED <<breaking, state>>

(* Slips: a removed version goes unnoticed; its schema is recorded. *)
MutRemovedUnnoticed(v) ==
  Turn(v) /\ HasSchema(installed, v) /\ ~HasSchema(proposed, v) /\ UNCHANGED <<breaking, state>>

MutRemovedSchema(v) ==
  /\ Turn(v) /\ HasSchema(installed, v) /\ ~HasSchema(proposed, v)
  /\ breaking' = breaking \cup {installed[v]}
  /\ UNCHANGED state

Removed(v) ==
  /\ Turn(v)
  /\ HasSchema(installed, v) /\ ~HasSchema(proposed, v)
  /\ breaking' = breaking \cup {v}
  /\ UNCHANGED state

(* A slip: no shortcut for equal schemas, so both are built. *)
MutSameBuilt(v) ==
  /\ Turn(v) /\ HasSchema(installed, v) /\ proposed[v] = installed[v]
  /\ state' = IF installed[v] \in Unbuildable THEN "failed" ELSE state
  /\ UNCHANGED breaking

Same(v) ==
  /\ Turn(v)
  /\ HasSchema(installed, v) /\ proposed[v] = installed[v]
  /\ UNCHANGED <<breaking, state>>

(* A slip: every change counts, breaking or not. *)
MutCompareAny(v) ==
  /\ Turn(v) /\ HasSchema(installed, v) /\ HasSchema(proposed, v)
  /\ proposed[v] # installed[v]
  /\ {installed[v], proposed[v]} \cap Unbuildable = {}
  /\ breaking' = breaking \cup {v}
  /\ UNCHANGED state

Compare(v) ==
  /\ Turn(v)
  /\ HasSchema(installed, v) /\ HasSchema(proposed, v)
  /\ proposed[v] # installed[v]
  /\ {installed[v], proposed[v]} \cap Unbuildable = {}
  /\ breaking' = IF <<installed[v], proposed[v]>> \in BreakingEdit
                 THEN breaking \cup {v} ELSE breaking
  /\ UNCHANGED state

(* A slip: a version that cannot be compared is passed over. *)
MutCompareFailsOpen(v) ==
  /\ Turn(v) /\ HasSchema(installed, v) /\ HasSchema(proposed, v)
  /\ {installed[v], proposed[v]} \cap Unbuildable # {}
  /\ UNCHANGED <<breaking, state>>

(* An error abandons what was found so far. *)
CompareFails(v) ==
  /\ Turn(v)
  /\ HasSchema(installed, v) /\ HasSchema(proposed, v)
  /\ proposed[v] # installed[v]
  /\ {installed[v], proposed[v]} \cap Unbuildable # {}
  /\ breaking' = {}
  /\ state' = "failed"

(* The gate of Reconcile: nothing found, so the CRD is applied. *)
Upgrade ==
  /\ state = "comparing"
  /\ todo = {}
  /\ breaking = {}
  /\ installed' = proposed
  /\ state' = "idle"
  /\ UNCHANGED <<proposed, todo, breaking>>

Block ==
  /\ state = "comparing"
  /\ todo = {}
  /\ breaking # {}
  /\ state' = "blocked"
  /\ UNCHANGED <<installed, proposed, todo, breaking>>

Next ==
  \/ Propose \/ Upgrade \/ Block
  \/ \E v \in Names : \/ SkipWithoutSchema(v) \/ Removed(v) \/ Same(v)
                      \/ Compare(v) \/ CompareFails(v)

Spec == Init /\ [][Next]_vars
-----------------------------------------------------------------------------
(* No upgrade loses a version that had a schema, or changes one in a       *)
(* breaking way, whatever order versions are visited in and whichever of   *)
(* them cannot be compared (README.md:303).                                *)
SafeUpgrade ==
  [][ \A v \in Names : HasSchema(installed, v) =>
        /\ HasSchema(installed', v)
        /\ <<installed[v], installed'[v]>> \notin BreakingEdit ]_installed

(* A CRD is blocked only for a reason: a version was removed or changed in *)
(* a breaking way.  In particular the installed CRD itself is never        *)
(* blocked, even if no model can be built from its schemas.                *)
BlockedForReason ==
  state = "blocked" =>
    \E v \in Names : /\ HasSchema(installed, v)
                     /\ \/ ~HasSchema(proposed, v)
                        \/ <<installed[v], proposed[v]>> \in BreakingEdit

(* The installed CRD can always be proposed again (every RequeueAfter with *)
(* a pinned digest does): the check neither fails nor blocks on it.        *)
Reapplicable == proposed = installed => state \in {"idle", "comparing"}

(* What the loop has established about the versions it is done with. *)
VisitedIsSafe ==
  state = "comparing" =>
    \A v \in Names \ todo : HasSchema(installed, v) =>
      \/ v \in breaking
      \/ /\ HasSchema(proposed, v)
         /\ <<installed[v], proposed[v]>> \notin BreakingEdit
=============================================================================
