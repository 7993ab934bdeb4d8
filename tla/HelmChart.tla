----------------------------- MODULE HelmChart -----------------------------
(***************************************************************************)
(* What the Helm provider writes to crds.yaml.  A chart is the set of the  *)
(* files in it, and a file is its path: a sequence of names.  Of each file *)
(* the folders are kept for which it is appended; a walk visits a folder   *)
(* once.  The order of the files in crds.yaml is left out.                 *)
(***************************************************************************)
EXTENDS Naturals, FiniteSets, Sequences

CONSTANT Archive   \* the downloaded chart as a file

ASSUME ArchiveAssumption == Archive \in Seq(STRING) /\ Len(Archive) = 1

Folder(path) == SubSeq(path, 1, Len(path) - 1)

(* Every folder of the chart, the one it was downloaded to included. *)
Folders(chart) == {<<>>} \cup UNION {{SubSeq(f, 1, i) : i \in 0..(Len(f) - 1)} : f \in chart}

IsCrds(folder) == IF folder = <<>> THEN FALSE ELSE folder[Len(folder)] = "crds"

Subfolders(chart, folder) == {d \in Folders(chart) : d # <<>> /\ Folder(d) = folder}

(* The inner walk: whatever lies below the folder is appended. *)
AppendFilesToCrds(chart, root) ==
  LET appended[d \in Folders(chart)] ==
        {f \in chart : Folder(f) = d}
          \cup UNION {appended[e] : e \in Subfolders(chart, d)}
  IN  appended[root]

(* A slip: the walk does not enter the crds folder it has just appended    *)
(* (filepath.SkipDir).                                                     *)
MutCreateCrdYamlSkips(chart) ==
  LET walk[d \in Folders(chart)] ==
        IF IsCrds(d) THEN [f \in chart |-> IF f \in AppendFilesToCrds(chart, d) THEN {d} ELSE {}]
        ELSE [f \in chart |-> UNION {walk[e][f] : e \in Subfolders(chart, d)}]
  IN  walk[<<>>]

(* The outer walk: a crds folder is appended, and then entered like any    *)
(* other, so what lies in a crds folder inside it is appended once more.   *)
CreateCrdYaml(chart) ==
  LET walk[d \in Folders(chart)] ==
        LET here == IF IsCrds(d) THEN AppendFilesToCrds(chart, d) ELSE {}
        IN  [f \in chart |-> (IF f \in here THEN {d} ELSE {})
                               \cup UNION {walk[e][f] : e \in Subfolders(chart, d)}]
  IN  walk[<<>>]

(* Only the archive of an OCI chart is expanded before the walk. *)
Unpacked(kind, chart) == IF kind = "helm-oci" THEN chart ELSE {Archive}

(* Without recursion: as often as there are crds folders above the file. *)
TimesWritten(file) == Cardinality({i \in 1..(Len(file) - 1) : file[i] = "crds"})
=============================================================================
