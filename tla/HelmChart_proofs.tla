-------------------------- MODULE HelmChart_proofs --------------------------
(* What the two walks over a chart compute, for every finite chart.  The   *)
(* recursion is over the folders, from the deepest up; induction over them *)
(* is by the well-founded order of finite sets.                            *)
EXTENDS HelmChart, WellFoundedInduction, FiniteSetTheorems, SequenceTheorems, TLAPS

(* A chart as Helm unpacks it. *)
Unpackable(chart) == IsFiniteSet(chart) /\ \A f \in chart : f \in Seq(STRING) /\ f # <<>>

(* Whether r is folder d or one below it. *)
Within(d, r) == Len(d) <= Len(r) /\ SubSeq(r, 1, Len(d)) = d

-----------------------------------------------------------------------------
(* Every set of naturals that is not empty has a least element. *)
LEMMA LeastNatural ==
  ASSUME NEW T \in SUBSET Nat, T # {}
  PROVE  \E x \in T : \A y \in T : x <= y
<1> DEFINE Initial == {1..n : n \in T}
<1>1. Initial \subseteq FiniteSubsetsOf(Nat)
  <2>1. \A n \in T : IsFiniteSet(1..n)
    BY FS_Interval
  <2> QED
    BY <2>1 DEF FiniteSubsetsOf
<1>2. PICK s \in Initial : \A t \in Initial : ~(<<t, s>> \in StrictSubsetOrdering(Nat))
  <2>1. Initial # {}
    OBVIOUS
  <2> HIDE DEF Initial
  <2> QED
    BY <1>1, <2>1, WFMin, FS_StrictSubsetOrderingWellFounded
<1>3. PICK x \in T : s = 1..x
  BY <1>2
<1>4. ASSUME NEW y \in T, y < x PROVE FALSE
  <2>1. /\ 1..y \in Initial /\ 1..y \in SUBSET Nat /\ 1..x \in SUBSET Nat
        /\ 1..y \subseteq 1..x /\ x \in 1..x /\ x \notin 1..y
    BY <1>4
  <2> QED
    BY <1>2, <1>3, <2>1 DEF StrictSubsetOrdering
<1> QED
  BY <1>4

(* The files of a finite chart are not arbitrarily deep.                   *)
LEMMA BoundedDepth ==
  ASSUME NEW chart, IsFiniteSet(chart), NEW depth \in [chart -> Nat]
  PROVE  \E n \in Nat : \A f \in chart : depth[f] <= n
<1> DEFINE Bounded(T) == \E n \in Nat : \A f \in T : depth[f] <= n
           Bad == {T \in SUBSET chart : ~Bounded(T)}
<1>1. SUFFICES ASSUME Bad # {} PROVE FALSE
  <2>1. chart \in SUBSET chart
    OBVIOUS
  <2> QED
    BY <2>1
<1>2. PICK T \in Bad : \A U \in Bad : ~(<<U, T>> \in StrictSubsetOrdering(chart))
  <2>1. Bad \subseteq FiniteSubsetsOf(chart)
    BY FS_FiniteSubsetsOfFinite
  <2> HIDE DEF Bad
  <2> QED
    BY <1>1, <2>1, WFMin, FS_StrictSubsetOrderingWellFounded
<1>3. PICK f \in T : TRUE
  BY <1>2
<1>4. T \ {f} \notin Bad
  BY <1>2, <1>3 DEF StrictSubsetOrdering
<1>5. PICK n \in Nat : \A g \in T \ {f} : depth[g] <= n
  BY <1>2, <1>4
<1>6. depth[f] \in Nat
  BY <1>2, <1>3
<1>7. CASE depth[f] <= n
  BY <1>2, <1>5, <1>7
<1>8. CASE n <= depth[f]
  <2>1. \A g \in T : depth[g] <= depth[f]
    BY <1>2, <1>5, <1>6, <1>8
  <2> QED
    BY <1>2, <1>6, <2>1
<1> QED
  BY <1>5, <1>6, <1>7, <1>8

-----------------------------------------------------------------------------
(* Folders.                                                                *)
LEMMA Prefix ==
  ASSUME NEW f \in Seq(STRING), NEW i \in 0..Len(f)
  PROVE  /\ SubSeq(f, 1, i) \in Seq(STRING)
         /\ Len(SubSeq(f, 1, i)) = i
         /\ \A j \in 1..i : SubSeq(f, 1, i)[j] = f[j]
<1>1. \A j \in 1..i : f[j] \in STRING
  BY ElementOfSeq, LenProperties
<1> QED
  BY <1>1, SubSeqProperties, LenProperties

LEMMA PrefixOfPrefix ==
  ASSUME NEW f \in Seq(STRING), NEW i \in 0..Len(f), NEW j \in 0..i
  PROVE  SubSeq(SubSeq(f, 1, i), 1, j) = SubSeq(f, 1, j)
<1>1. j \in 0..Len(f) /\ Len(f) \in Nat
  BY LenProperties
<1>2. SubSeq(f, 1, i) \in Seq(STRING) /\ Len(SubSeq(f, 1, i)) = i
  BY Prefix
<1> DEFINE p == SubSeq(f, 1, i)
           s == SubSeq(p, 1, j)
           t == SubSeq(f, 1, j)
<1>3. s \in Seq(STRING) /\ Len(s) = j /\ \A n \in 1..j : s[n] = p[n]
  <2>1. j \in 0..Len(p)
    BY <1>2
  <2> HIDE DEF p
  <2> QED
    BY <1>2, <2>1, Prefix DEF p
<1>4. t \in Seq(STRING) /\ Len(t) = j /\ \A n \in 1..j : t[n] = f[n] /\ p[n] = f[n]
  BY <1>1, Prefix
<1> HIDE DEF s, t, p
<1> QED
  BY <1>3, <1>4, SeqEqual DEF s, t, p

LEMMA FoldersAreSequences ==
  ASSUME NEW chart, Unpackable(chart), NEW d \in Folders(chart)
  PROVE  d \in Seq(STRING) /\ Len(d) \in Nat
<1>1. CASE d = <<>>
  BY <1>1, EmptySeq
<1>2. CASE d # <<>>
  <2>1. PICK f \in chart : \E i \in 0..(Len(f) - 1) : d = SubSeq(f, 1, i)
    BY <1>2 DEF Folders
  <2>2. f \in Seq(STRING) /\ Len(f) \in Nat
    BY LenProperties DEF Unpackable
  <2> QED
    BY <2>1, <2>2, Prefix, LenProperties
<1> QED
  BY <1>1, <1>2

(* Whatever is a prefix of a folder is one. *)
LEMMA FoldersClosed ==
  ASSUME NEW chart, Unpackable(chart), NEW r \in Folders(chart), NEW i \in 0..Len(r)
  PROVE  SubSeq(r, 1, i) \in Folders(chart)
<1>1. CASE r = <<>>
  <2>1. i = 0
    BY <1>1, EmptySeq
  <2> QED
    BY <2>1, SubSeqEmpty DEF Folders
<1>2. CASE r # <<>>
  <2>1. PICK f \in chart : \E n \in 0..(Len(f) - 1) : r = SubSeq(f, 1, n)
    BY <1>2 DEF Folders
  <2>2. PICK n \in 0..(Len(f) - 1) : r = SubSeq(f, 1, n)
    BY <2>1
  <2>3. f \in Seq(STRING) /\ Len(f) \in Nat /\ n \in 0..Len(f)
    BY LenProperties DEF Unpackable
  <2>4. Len(r) = n
    BY <2>2, <2>3, Prefix
  <2>5. SubSeq(r, 1, i) = SubSeq(f, 1, i) /\ i \in 0..(Len(f) - 1)
    BY <2>2, <2>3, <2>4, PrefixOfPrefix
  <2> QED
    BY <2>5 DEF Folders
<1> QED
  BY <1>1, <1>2

LEMMA FileFolder ==
  ASSUME NEW chart, Unpackable(chart), NEW f \in chart
  PROVE  Folder(f) \in Folders(chart) /\ Len(Folder(f)) = Len(f) - 1
<1>1. f \in Seq(STRING) /\ Len(f) \in Nat /\ Len(f) # 0
  BY LenProperties, EmptySeq DEF Unpackable
<1>2. Len(f) - 1 \in 0..(Len(f) - 1) /\ Len(f) - 1 \in 0..Len(f)
  BY <1>1
<1>3. Len(Folder(f)) = Len(f) - 1
  BY <1>1, <1>2, Prefix DEF Folder
<1>4. Folder(f) \in {SubSeq(f, 1, i) : i \in 0..(Len(f) - 1)}
  BY <1>2 DEF Folder
<1> QED
  BY <1>3, <1>4 DEF Folders

LEMMA SubfolderIsDeeper ==
  ASSUME NEW chart, Unpackable(chart), NEW d \in Folders(chart), NEW e \in Subfolders(chart, d)
  PROVE  Len(e) = Len(d) + 1 /\ SubSeq(e, 1, Len(d)) = d
<1>1. e \in Seq(STRING) /\ e \in Folders(chart) /\ e # <<>> /\ Folder(e) = d
  BY FoldersAreSequences DEF Subfolders
<1>2. Len(e) \in Nat \ {0}
  BY <1>1, EmptySeq
<1>3. Len(e) - 1 \in 0..Len(e)
  BY <1>2
<1>4. Len(d) = Len(e) - 1
  BY <1>1, <1>3, Prefix DEF Folder
<1> QED
  BY <1>1, <1>2, <1>4 DEF Folder

(* A folder lies within d if it is d, or lies within a subfolder of d.     *)
LEMMA WithinStep ==
  ASSUME NEW chart, Unpackable(chart), NEW d \in Folders(chart), NEW r \in Folders(chart)
  PROVE  Within(d, r) <=> r = d \/ \E e \in Subfolders(chart, d) : Within(e, r)
<1>1. d \in Seq(STRING) /\ r \in Seq(STRING) /\ Len(d) \in Nat /\ Len(r) \in Nat
  BY FoldersAreSequences
<1>2. r = d => Within(d, r)
  BY <1>1, SubSeqFull DEF Within
<1>3. ASSUME NEW e \in Subfolders(chart, d), Within(e, r) PROVE Within(d, r)
  <2>1. Len(e) = Len(d) + 1 /\ SubSeq(e, 1, Len(d)) = d
    BY SubfolderIsDeeper
  <2>2. Len(e) \in 0..Len(r) /\ Len(d) \in 0..Len(e)
    BY <1>1, <1>3, <2>1 DEF Within
  <2>3. SubSeq(SubSeq(r, 1, Len(e)), 1, Len(d)) = SubSeq(r, 1, Len(d))
    BY <1>1, <2>2, PrefixOfPrefix
  <2> QED
    BY <1>1, <1>3, <2>1, <2>2, <2>3 DEF Within
<1>4. ASSUME Within(d, r), r # d PROVE \E e \in Subfolders(chart, d) : Within(e, r)
  <2> DEFINE e == SubSeq(r, 1, Len(d) + 1)
  <2>1. Len(d) # Len(r)
    BY <1>1, <1>4, SubSeqFull DEF Within
  <2>2. Len(d) + 1 \in 0..Len(r) /\ Len(d) \in 0..(Len(d) + 1)
    BY <1>1, <1>4, <2>1 DEF Within
  <2>3. e \in Folders(chart) /\ e \in Seq(STRING) /\ Len(e) = Len(d) + 1
    BY <1>1, <2>2, FoldersClosed, Prefix
  <2>4. SubSeq(e, 1, Len(d)) = d
    BY <1>1, <1>4, <2>2, PrefixOfPrefix DEF Within
  <2> HIDE DEF e
  <2>5. e # <<>> /\ Folder(e) = d
    BY <1>1, <2>3, <2>4, EmptySeq DEF Folder
  <2>6. Within(e, r)
    BY <1>1, <2>2, <2>3 DEF Within, e
  <2> QED
    BY <2>3, <2>5, <2>6 DEF Subfolders
<1> QED
  BY <1>2, <1>3, <1>4

-----------------------------------------------------------------------------
(* Two functions on the folders that agree on a folder whenever they agree *)
(* on its subfolders are the same: the deepest folder on which they differ *)
(* could not.                                                              *)
LEMMA DepthInduction ==
  ASSUME NEW chart, Unpackable(chart), NEW g, NEW h,
         \A d \in Folders(chart) :
           (\A e \in Subfolders(chart, d) : g[e] = h[e]) => g[d] = h[d]
  PROVE  \A d \in Folders(chart) : g[d] = h[d]
<1> DEFINE depth == [f \in chart |-> Len(f)]
           Differ == {d \in Folders(chart) : g[d] # h[d]}
<1>1. SUFFICES ASSUME Differ # {} PROVE FALSE
  OBVIOUS
<1>2. PICK n \in Nat : \A d \in Folders(chart) : Len(d) <= n
  <2>1. depth \in [chart -> Nat]
    BY LenProperties DEF Unpackable
  <2>2. PICK n \in Nat : \A f \in chart : Len(f) <= n
    <3> HIDE DEF depth
    <3>1. PICK n \in Nat : \A f \in chart : depth[f] <= n
      BY <2>1, BoundedDepth DEF Unpackable
    <3> QED
      BY <3>1 DEF depth
  <2>3. ASSUME NEW d \in Folders(chart), d # <<>> PROVE Len(d) <= n
    <3>1. PICK f \in chart : \E i \in 0..(Len(f) - 1) : d = SubSeq(f, 1, i)
      BY <2>3 DEF Folders
    <3>2. PICK i \in 0..(Len(f) - 1) : d = SubSeq(f, 1, i)
      BY <3>1
    <3>3. f \in Seq(STRING) /\ Len(f) \in Nat /\ i \in 0..Len(f)
      BY LenProperties DEF Unpackable
    <3>4. Len(d) = i
      BY <3>2, <3>3, Prefix
    <3> QED
      BY <2>2, <3>3, <3>4
  <2> QED
    BY <2>2, <2>3, EmptySeq
<1>3. PICK d \in Differ : \A e \in Differ : Len(e) <= Len(d)
  <2> DEFINE Heights == {n - Len(d) : d \in Differ}
  <2>1. \A d \in Folders(chart) : Len(d) \in Nat
    BY FoldersAreSequences
  <2>2. Heights \in SUBSET Nat
    BY <1>2, <2>1
  <2>3. Heights # {}
    BY <1>1
  <2>4. PICK x \in Heights : \A y \in Heights : x <= y
    <3> HIDE DEF Heights
    <3> QED
      BY <2>2, <2>3, LeastNatural
  <2>5. PICK d \in Differ : x = n - Len(d)
    BY <2>4
  <2>6. ASSUME NEW e \in Differ PROVE Len(e) <= Len(d)
    <3>1. n - Len(d) <= n - Len(e)
      BY <2>4, <2>5
    <3> QED
      BY <2>1, <3>1
  <2> QED
    BY <2>6
<1>4. ASSUME NEW e \in Subfolders(chart, d) PROVE g[e] = h[e]
  <2>1. Len(e) = Len(d) + 1 /\ e \in Folders(chart) /\ Len(d) \in Nat
    BY SubfolderIsDeeper, FoldersAreSequences DEF Subfolders
  <2> QED
    BY <1>3, <2>1
<1> QED
  BY <1>3, <1>4

-----------------------------------------------------------------------------
(* appendFilesToCrds: the inner walk appends exactly what lies in the      *)
(* folder or in one below it.                                              *)
THEOREM AppendedFiles ==
  ASSUME NEW chart, Unpackable(chart), NEW root \in Folders(chart)
  PROVE  AppendFilesToCrds(chart, root) = {f \in chart : Within(root, Folder(f))}
<1> DEFINE Step(a) == [d \in Folders(chart) |->
                         {f \in chart : Folder(f) = d}
                           \cup UNION {a[e] : e \in Subfolders(chart, d)}]
           appended == CHOOSE a : a = Step(a)
           closed == [d \in Folders(chart) |-> {f \in chart : Within(d, Folder(f))}]
<1>1. \A d \in Folders(chart) : \A e \in Subfolders(chart, d) : e \in Folders(chart)
  BY DEF Subfolders
<1>2. closed = Step(closed)
  <2>1. ASSUME NEW d \in Folders(chart)
        PROVE  {f \in chart : Within(d, Folder(f))}
                 = {f \in chart : Folder(f) = d}
                     \cup UNION {closed[e] : e \in Subfolders(chart, d)}
    <3>1. \A f \in chart : Within(d, Folder(f))
            <=> Folder(f) = d \/ \E e \in Subfolders(chart, d) : Within(e, Folder(f))
      BY WithinStep, FileFolder
    <3>2. \A e \in Subfolders(chart, d) : closed[e] = {f \in chart : Within(e, Folder(f))}
      BY <1>1
    <3> HIDE DEF closed
    <3> QED
      BY <3>1, <3>2
  <2> QED
    BY <2>1
<1>3. appended = Step(appended)
  BY <1>2
<1>4. \A d \in Folders(chart) : appended[d] = closed[d]
  <2>1. ASSUME NEW d \in Folders(chart), \A e \in Subfolders(chart, d) : appended[e] = closed[e]
        PROVE  appended[d] = closed[d]
    <3> HIDE DEF appended, closed
    <3>1. /\ appended[d] = {f \in chart : Folder(f) = d}
                            \cup UNION {appended[e] : e \in Subfolders(chart, d)}
          /\ closed[d] = {f \in chart : Folder(f) = d}
                          \cup UNION {closed[e] : e \in Subfolders(chart, d)}
      BY <1>2, <1>3
    <3> QED
      BY <2>1, <3>1
  <2> HIDE DEF appended, closed
  <2> QED
    BY <2>1, DepthInduction
<1>5. AppendFilesToCrds(chart, root) = appended[root]
  BY DEF AppendFilesToCrds
<1> QED
  BY <1>4, <1>5

(* The crds folders a file lies under, at whatever depth. *)
CrdsAbove(chart, f) == {r \in Folders(chart) : IsCrds(r) /\ Within(r, Folder(f))}

(* createCrdYaml: the outer walk appends each file once for every crds     *)
(* folder above it, however they are nested.                               *)
THEOREM BundledFiles ==
  ASSUME NEW chart, Unpackable(chart)
  PROVE  CreateCrdYaml(chart) = [f \in chart |-> CrdsAbove(chart, f)]
<1> DEFINE Here(d) == IF IsCrds(d) THEN AppendFilesToCrds(chart, d) ELSE {}
           Step(w) == [d \in Folders(chart) |->
                         [f \in chart |-> (IF f \in Here(d) THEN {d} ELSE {})
                                            \cup UNION {w[e][f] : e \in Subfolders(chart, d)}]]
           walk == CHOOSE w : w = Step(w)
           Below(d, f) == {r \in CrdsAbove(chart, f) : Within(d, r)}
           closed == [d \in Folders(chart) |-> [f \in chart |-> Below(d, f)]]
<1>1. \A d \in Folders(chart) : \A e \in Subfolders(chart, d) : e \in Folders(chart)
  BY DEF Subfolders
<1>2. closed = Step(closed)
  <2>1. ASSUME NEW d \in Folders(chart), NEW f \in chart
        PROVE  Below(d, f) = (IF f \in Here(d) THEN {d} ELSE {})
                               \cup UNION {closed[e][f] : e \in Subfolders(chart, d)}
    <3>1. f \in Here(d) <=> d \in CrdsAbove(chart, f)
      BY AppendedFiles DEF CrdsAbove
    <3>2. \A r \in Folders(chart) :
            Within(d, r) <=> r = d \/ \E e \in Subfolders(chart, d) : Within(e, r)
      BY WithinStep
    <3>3. \A e \in Subfolders(chart, d) : closed[e][f] = Below(e, f)
      BY <1>1
    <3> HIDE DEF closed, Here
    <3> QED
      BY <3>1, <3>2, <3>3 DEF CrdsAbove
  <2> HIDE DEF Below, Here
  <2> QED
    BY <2>1
<1>3. walk = Step(walk)
  BY <1>2
<1>4. \A d \in Folders(chart) : walk[d] = closed[d]
  <2>1. ASSUME NEW d \in Folders(chart), \A e \in Subfolders(chart, d) : walk[e] = closed[e]
        PROVE  walk[d] = closed[d]
    <3> HIDE DEF walk, closed, Here
    <3>1. /\ walk[d] = [f \in chart |-> (IF f \in Here(d) THEN {d} ELSE {})
                                           \cup UNION {walk[e][f] : e \in Subfolders(chart, d)}]
          /\ closed[d] = [f \in chart |-> (IF f \in Here(d) THEN {d} ELSE {})
                                           \cup UNION {closed[e][f] : e \in Subfolders(chart, d)}]
      BY <1>2, <1>3
    <3>2. \A f \in chart : {walk[e][f] : e \in Subfolders(chart, d)}
                            = {closed[e][f] : e \in Subfolders(chart, d)}
      BY <2>1
    <3> QED
      BY <3>1, <3>2
  <2> HIDE DEF walk, closed
  <2> QED
    BY <2>1, DepthInduction
<1>5. <<>> \in Folders(chart)
  BY DEF Folders
<1>6. CreateCrdYaml(chart) = walk[<<>>]
  BY DEF CreateCrdYaml
<1>7. \A f \in chart : Below(<<>>, f) = CrdsAbove(chart, f)
  <2>1. \A r \in Folders(chart) : Within(<<>>, r)
    <3> SUFFICES ASSUME NEW r \in Folders(chart) PROVE Within(<<>>, r)
      OBVIOUS
    <3>1. Len(r) \in Nat /\ Len(<<>>) = 0
      BY FoldersAreSequences
    <3>2. SubSeq(r, 1, 0) = <<>>
      BY SubSeqEmpty
    <3> QED
      BY <3>1, <3>2 DEF Within
  <2> QED
    BY <2>1 DEF CrdsAbove
<1> QED
  BY <1>4, <1>5, <1>6, <1>7

(* Such a folder begins the path of the file, so it is a folder of any     *)
(* chart with that file.                                                   *)
LEMMA AboveIsPrefix ==
  ASSUME NEW chart, Unpackable(chart), NEW f \in chart, NEW r \in CrdsAbove(chart, f)
  PROVE  Len(r) \in 1..(Len(f) - 1) /\ r = SubSeq(f, 1, Len(r))
<1>1. f \in Seq(STRING) /\ Len(f) \in Nat /\ Len(Folder(f)) = Len(f) - 1
  BY FileFolder, LenProperties DEF Unpackable
<1>2. r \in Seq(STRING) /\ r # <<>> /\ Within(r, Folder(f))
  BY FoldersAreSequences DEF CrdsAbove, IsCrds
<1>3. Len(r) \in Nat \ {0}
  BY <1>2, EmptySeq
<1>4. Len(r) \in 1..(Len(f) - 1)
  BY <1>1, <1>2, <1>3 DEF Within
<1>5. Len(r) \in 0..(Len(f) - 1) /\ Len(f) - 1 \in 0..Len(f)
  BY <1>1, <1>4
<1>6. SubSeq(Folder(f), 1, Len(r)) = SubSeq(f, 1, Len(r))
  BY <1>1, <1>5, PrefixOfPrefix DEF Folder
<1> QED
  BY <1>2, <1>4, <1>6 DEF Within

LEMMA AboveIsOwn ==
  ASSUME NEW chart, Unpackable(chart), NEW f \in chart
  PROVE  CrdsAbove(chart, f) \subseteq Folders({f})
<1>1. ASSUME NEW r \in CrdsAbove(chart, f) PROVE r \in Folders({f})
  <2>1. Len(r) \in 0..(Len(f) - 1) /\ r = SubSeq(f, 1, Len(r))
    BY AboveIsPrefix, LenProperties DEF Unpackable
  <2> QED
    BY <2>1 DEF Folders
<1> QED
  BY <1>1

(* A crds folder above a file is a place in its path where "crds" stands.  *)
THEOREM TimesBundled ==
  ASSUME NEW chart, Unpackable(chart), NEW f \in chart
  PROVE  Cardinality(CrdsAbove(chart, f)) = TimesWritten(f)
<1> DEFINE Places == {i \in 1..(Len(f) - 1) : f[i] = "crds"}
           prefix == [i \in Places |-> SubSeq(f, 1, i)]
<1>1. f \in Seq(STRING) /\ Len(f) \in Nat /\ Len(f) # 0
  BY LenProperties, EmptySeq DEF Unpackable
<1>2. Len(Folder(f)) = Len(f) - 1 /\ Folder(f) \in Folders(chart)
  BY FileFolder
<1>3. ASSUME NEW i \in 1..(Len(f) - 1)
      PROVE  /\ SubSeq(f, 1, i) \in Folders(chart) /\ Len(SubSeq(f, 1, i)) = i
             /\ Within(SubSeq(f, 1, i), Folder(f))
             /\ IsCrds(SubSeq(f, 1, i)) <=> f[i] = "crds"
  <2>1. i \in 0..Len(f) /\ i \in 0..(Len(f) - 1) /\ Len(f) - 1 \in 0..Len(f) /\ i \in 1..i
    BY <1>1
  <2>2. /\ SubSeq(f, 1, i) \in Seq(STRING) /\ Len(SubSeq(f, 1, i)) = i
        /\ SubSeq(f, 1, i)[i] = f[i]
    BY <1>1, <2>1, Prefix
  <2>3. SubSeq(Folder(f), 1, i) = SubSeq(f, 1, i)
    BY <1>1, <2>1, PrefixOfPrefix DEF Folder
  <2>4. SubSeq(f, 1, i) \in Folders(chart)
    BY <1>2, <2>1, <2>3, FoldersClosed
  <2>5. SubSeq(f, 1, i) # <<>>
    BY <2>2, EmptySeq
  <2> QED
    BY <1>2, <2>1, <2>2, <2>3, <2>4, <2>5 DEF Within, IsCrds
<1>4. ASSUME NEW r \in CrdsAbove(chart, f) PROVE \E i \in Places : r = SubSeq(f, 1, i)
  <2>1. Len(r) \in 1..(Len(f) - 1) /\ r = SubSeq(f, 1, Len(r)) /\ IsCrds(r)
    BY AboveIsPrefix DEF CrdsAbove
  <2>2. f[Len(r)] = "crds"
    BY <1>3, <2>1
  <2> QED
    BY <2>1, <2>2
<1>5. ExistsBijection(Places, CrdsAbove(chart, f))
  <2>1. prefix \in [Places -> CrdsAbove(chart, f)]
    BY <1>3 DEF CrdsAbove
  <2>2. \A i, j \in Places : prefix[i] = prefix[j] => i = j
    BY <1>3
  <2>3. \A r \in CrdsAbove(chart, f) : \E i \in Places : prefix[i] = r
    BY <1>4
  <2> HIDE DEF prefix, Places
  <2>4. prefix \in Injection(Places, CrdsAbove(chart, f))
    BY <2>1, <2>2 DEF Injection, IsInjective
  <2>5. prefix \in Surjection(Places, CrdsAbove(chart, f))
    BY <2>1, <2>3 DEF Surjection
  <2> QED
    BY <2>4, <2>5 DEF ExistsBijection, Bijection
<1>6. IsFiniteSet(Places)
  <2>1. IsFiniteSet(1..(Len(f) - 1))
    BY <1>1, FS_Interval
  <2> QED
    BY <2>1, FS_Subset
<1>7. Cardinality(CrdsAbove(chart, f)) = Cardinality(Places)
  <2> HIDE DEF Places
  <2> QED
    BY <1>5, <1>6, FS_Bijection
<1> QED
  BY <1>7 DEF TimesWritten
=============================================================================
