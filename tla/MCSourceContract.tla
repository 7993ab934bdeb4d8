-------------------------- MODULE MCSourceContract -------------------------
(* Instances of SourceContract for TLC: three versions, each with a        *)
(* manifest of its own, and the empty manifest.                            *)
EXTENDS SourceContract, TLC

CONSTANTS m1, m2, m3, empty

MCVersions  == 1..3
MCContents  == {m1, m2, m3, empty}
MCContentOf == (1 :> m1) @@ (2 :> m2) @@ (3 :> m3)

From(kind, allowed, digest) == [source |-> {kind}, allowed |-> allowed, digest |-> digest]

(* Every provider, with wide and narrow constraints, a free and a pinned   *)
(* URL, and a spec in which two sources are set at once.                   *)
Providers ==
  { From("configmap", 1..3, Gone), From("helm-oci", 2..3, Gone),
    From("helm-http", 1..3, Gone),
    From("gitlab", 1..2, Gone), From("github", 1..3, Gone),
    From("url", 1..3, Gone), From("url", 1..3, m2),
    [source |-> {"configmap", "url"}, allowed |-> 1..2, digest |-> Gone] }

PinnedURL == { From("url", {}, m2) }
=============================================================================
