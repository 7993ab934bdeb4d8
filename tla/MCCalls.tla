------------------------------ MODULE MCCalls ------------------------------
(* An instance of Calls for TLC: every kind of source, with a secret where *)
(* that makes a difference, and charts with all sorts of crds folders.     *)
EXTENDS Calls, TLC

CONSTANTS privateHub, lab, page, registry, repository, mirror, map

MCBootstraps == {privateHub, lab, page, registry, repository, mirror, map}

MCKindOf == (privateHub :> "github") @@ (lab :> "gitlab")
              @@ (page :> "url") @@ (registry :> "helm-oci")
              @@ (repository :> "helm-http") @@ (mirror :> "helm-http")
              @@ (map :> "configmap")

MCSecretRef == {privateHub, registry, repository}

MCArchive == <<"chart.tgz">>

(* A file below two crds folders, one of a dependency, one that is not in  *)
(* such a folder, a file called crds, and one no manifest.                 *)
ChartFiles == {<<"chart", "crds", "a.yaml">>,
               <<"chart", "crds", "README.md">>,
               <<"chart", "crds", "old", "crds", "b.yaml">>,
               <<"chart", "charts", "dep", "crds", "c.yaml">>,
               <<"chart", "templates", "d.yaml">>,
               <<"chart", "templates", "crds">>}

(* All of them, and what is left without the crds folder at the top. *)
MCCharts == {ChartFiles, {f \in ChartFiles : f[2] # "crds"}}
=============================================================================
