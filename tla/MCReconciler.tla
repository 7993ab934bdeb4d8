---------------------------- MODULE MCReconciler ----------------------------
(* Instances of Reconciler for TLC. *)
EXTENDS ReconcilerProperties, TLC

CONSTANTS a, b,            \* Bootstraps
          c1, c2,          \* CRDs
          m1, m2, m3, empty  \* manifests

One == {a}
Two == {a, b}
DistinctNames == (a :> "a") @@ (b :> "b")
SameName      == (a :> "n") @@ (b :> "n")

(* The second version brings c2 and fails templates; the third breaks c1,  *)
(* has a c2 no detector can read, and makes the template check panic.      *)
MCVersions  == 1..3
MCContents  == {m1, m2, m3, empty}
MCContentOf == (1 :> m1) @@ (2 :> m2) @@ (3 :> m3)
MCBundle    == (m1 :> {c1}) @@ (m2 :> {c1, c2}) @@ (m3 :> {c1, c2}) @@ (empty :> {})
MCBreaks    == {<<c1, m1, m3>>, <<c1, m2, m3>>}
MCIncomparable  == {<<c2, m2, m3>>}
MCTemplateFails  == {m2}
MCTemplatePanics == {m3}

Plain == [source |-> {"github"}, allowed |-> 1..3, digest |-> Gone,
          interval |-> TRUE, template |-> FALSE, prune |-> TRUE, remote |-> FALSE,
          continueOnValidationError |-> FALSE, ignoreBreakingChanges |-> FALSE]

At(v) == [configmap |-> v, latest |-> v, published |-> 1..v, page |-> MCContentOf[v]]

Forcing   == [Plain EXCEPT !.ignoreBreakingChanges = TRUE]
Keeping   == [Plain EXCEPT !.prune = FALSE, !.interval = FALSE]
Testing   == [Plain EXCEPT !.template = TRUE]
Lenient   == [Testing EXCEPT !.continueOnValidationError = TRUE]
FromURL   == [Plain EXCEPT !.source = {"url"}]
FromGitLab == [Lenient EXCEPT !.source = {"gitlab"}]
FromHelm  == [Testing EXCEPT !.source = {"helm-oci"}, !.allowed = 1..2]
FromMap   == [Forcing EXCEPT !.source = {"configmap"}, !.remote = TRUE, !.prune = FALSE]
Remote    == [Plain EXCEPT !.remote = TRUE]

Withdrawn == [configmap |-> Gone, latest |-> Gone, published |-> {}, page |-> Gone]

PlainSpecs    == {Plain}
CoreSpecs     == {Plain, Forcing, Keeping}
CoreUpstreams == {At(1), At(2), At(3)}

SharedSpecs     == {Plain, [Plain EXCEPT !.allowed = {1}, !.interval = FALSE]}
SharedUpstreams == {At(1), At(2)}

VarietySpecs     == {FromGitLab, FromHelm, FromMap, Keeping}
VarietyUpstreams == {At(1), At(3), Withdrawn}

LiveSpecs   == {Plain, FromURL, FromGitLab}
CountSpecs  == {[Plain EXCEPT !.prune = FALSE]}
RemoteSpecs == {Remote}
=============================================================================
