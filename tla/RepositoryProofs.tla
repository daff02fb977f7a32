-------------------------- MODULE RepositoryProofs --------------------------
(***************************************************************************)
(* The properties of Repository, proved for every value of its constants. *)
(***************************************************************************)
EXTENDS Repository, TLAPS

\* What maintainers leave is of the form the scripts read.
Typed ==
    /\ series \in Seq(PatchNames) /\ patches \in Directories
    /\ manifest \in Manifests
    /\ downstream \subseteq Paths
    /\ fileSystem \in FileSystems
    /\ SourceTree(source, fileSystem)

\* No file of a tree is above another.
NoneAbove(files) == \A p, q \in files : p \notin Parents(q)

\* Of the planned files that were copied none is named as a directory of
\* another: with it a copy can only fail because of one that is.
RepositoryInv ==
    /\ Typed
    /\ NoneAbove(downstream)
    /\ pc \in {"edit", "materialize", "MATERIALIZATION_COLLISION", "MATERIALIZATION_FAILURE"}
    /\ pc # "edit" =>
        /\ plan = downstream /\ Planned(plan) /\ todo \subseteq plan
        /\ \A p, q \in plan \ todo : Name(p) \notin Parents(Name(q))
    /\ pc \notin {"edit", "materialize"} => FileNamedAsDirectory
-----------------------------------------------------------------------------
\* Folding a path segment by segment keeps its length.
LEMMA FoldedPath ==
    ASSUME NEW f \in [Segments -> Segments], NEW p \in Seq(Segments)
    PROVE  /\ Folded(f, p) \in Seq(Segments)
           /\ Len(Folded(f, p)) = Len(p)
           /\ \A i \in 1 .. Len(p) : Folded(f, p)[i] = f[p[i]]
BY DEF Folded

\* A prefix is a path of the length asked for.
LEMMA PrefixPath ==
    ASSUME NEW p \in Seq(Segments), NEW n \in 1 .. Len(p) - 1
    PROVE  /\ Prefix(p, n) \in Seq(Segments)
           /\ Len(Prefix(p, n)) = n
           /\ \A i \in 1 .. n : Prefix(p, n)[i] = p[i]
BY DEF Prefix

\* Paths that a file system takes for one have one key.
LEMMA SameNameSameKey ==
    ASSUME NEW f \in FileSystems, NEW p \in Seq(Segments), NEW q \in Seq(Segments),
           Folded(f, p) = Folded(f, q)
    PROVE  Key(p) = Key(q)
<1>1. f \in [Segments -> Segments] /\ Fold \in [Segments -> Segments]
  BY RepositoryAssumption
<1>2. Len(p) = Len(q)
  BY <1>1, FoldedPath
<1>3. \A i \in 1 .. Len(p) : Fold[p[i]] = Fold[q[i]]
  <2> SUFFICES ASSUME NEW i \in 1 .. Len(p) PROVE Fold[p[i]] = Fold[q[i]]
    OBVIOUS
  <2>1. f[p[i]] = f[q[i]]
    BY <1>1, <1>2, FoldedPath
  <2>2. p[i] \in Segments /\ q[i] \in Segments
    BY <1>2
  <2> QED
    BY <2>1, <2>2, RepositoryAssumption
<1> QED
  BY <1>2, <1>3 DEF Key, Folded

\* A directory above the name of q has the name of a directory above q.
LEMMA NameAbove ==
    ASSUME NEW f \in [Segments -> Segments], NEW p \in Seq(Segments), NEW q \in Seq(Segments),
           Folded(f, p) \in Parents(Folded(f, q))
    PROVE  \E d \in Parents(q) : d \in Seq(Segments) /\ Folded(f, p) = Folded(f, d)
<1>1. PICK n \in 1 .. Len(Folded(f, q)) - 1 : Folded(f, p) = Prefix(Folded(f, q), n)
  BY DEF Parents
<1>2. n \in 1 .. Len(q) - 1 /\ Folded(f, q) \in Seq(Segments)
  BY FoldedPath
<1>3. Prefix(q, n) \in Seq(Segments) /\ Len(Prefix(q, n)) = n
  BY <1>2, PrefixPath
<1>4. \A i \in 1 .. n : f[Prefix(q, n)[i]] = Folded(f, q)[i]
  <2>1. \A i \in 1 .. n : Prefix(q, n)[i] = q[i]
    BY <1>2, PrefixPath
  <2>2. \A i \in 1 .. Len(q) : Folded(f, q)[i] = f[q[i]]
    BY FoldedPath
  <2> QED
    BY <1>2, <2>1, <2>2
<1>5. Folded(f, Prefix(q, n)) = Prefix(Folded(f, q), n)
  BY <1>3, <1>4 DEF Folded, Prefix
<1>6. Prefix(q, n) \in Parents(q)
  BY <1>2 DEF Parents
<1> QED
  BY <1>1, <1>3, <1>5, <1>6

\* Folding keeps what is above a path above it.
LEMMA FoldedAbove ==
    ASSUME NEW f \in [Segments -> Segments], NEW q \in Seq(Segments), NEW d \in Parents(q)
    PROVE  Folded(f, d) \in Parents(Folded(f, q))
<1>1. PICK n \in 1 .. Len(q) - 1 : d = Prefix(q, n)
  BY DEF Parents
<1>2. Folded(f, q) \in Seq(Segments) /\ Len(Folded(f, q)) = Len(q)
  BY FoldedPath
<1>3. \A i \in 1 .. n : f[Prefix(q, n)[i]] = Folded(f, q)[i]
  <2>1. \A i \in 1 .. n : Prefix(q, n)[i] = q[i]
    BY PrefixPath
  <2>2. \A i \in 1 .. Len(q) : Folded(f, q)[i] = f[q[i]]
    BY FoldedPath
  <2> QED
    BY <2>1, <2>2
<1>4. Len(Prefix(q, n)) = n
  BY PrefixPath
<1>5. Folded(f, Prefix(q, n)) = Prefix(Folded(f, q), n)
  BY <1>3, <1>4 DEF Folded, Prefix
<1> QED
  BY <1>1, <1>2, <1>5 DEF Parents

\* What is above in a file system is above among the keys.
LEMMA NameAboveKeyAbove ==
    ASSUME NEW f \in FileSystems, NEW p \in Seq(Segments), NEW q \in Seq(Segments),
           Folded(f, p) \in Parents(Folded(f, q))
    PROVE  Key(p) \in Parents(Key(q))
<1>1. f \in [Segments -> Segments] /\ Fold \in [Segments -> Segments]
  BY RepositoryAssumption
<1>2. PICK d \in Parents(q) : d \in Seq(Segments) /\ Folded(f, p) = Folded(f, d)
  BY <1>1, NameAbove
<1>3. Key(p) = Key(d)
  BY <1>2, SameNameSameKey
<1>4. Key(d) \in Parents(Key(q))
  BY <1>1, <1>2, FoldedAbove DEF Key
<1> QED
  BY <1>3, <1>4

\* No path is above itself.
LEMMA NotAboveItself ==
    ASSUME NEW p \in Seq(Segments)
    PROVE  p \notin Parents(p)
<1> SUFFICES ASSUME NEW n \in 1 .. Len(p) - 1, p = Prefix(p, n) PROVE FALSE
  BY DEF Parents
<1> QED
  BY PrefixPath
-----------------------------------------------------------------------------
\* A planned file has no name in common with a file of the source, nor is
\* one above the other.
LEMMA ApartFromSource ==
    ASSUME fileSystem \in FileSystems, SourceTree(source, fileSystem), Planned(plan),
           NEW p \in plan, p \in Seq(Segments), NEW q \in source.files
    PROVE  /\ Name(p) # Name(q)
           /\ Name(p) \notin Parents(Name(q))
           /\ Name(q) \notin Parents(Name(p))
<1>1. /\ Key(p) \notin Keys(source.files) \cup Keys(source.directories)
      /\ Parents(Key(p)) \cap Keys(source.files) = {}
  BY DEF Planned
<1>2. q \in Seq(Segments) /\ Parents(q) \subseteq source.directories
  BY DEF SourceTree
<1>3. Key(q) \in Keys(source.files)
  BY DEF Keys
<1>4. Name(p) # Name(q)
  BY <1>1, <1>2, <1>3, SameNameSameKey DEF Name
<1>5. Name(p) \notin Parents(Name(q))
  <2> SUFFICES ASSUME Name(p) \in Parents(Name(q)) PROVE FALSE
    OBVIOUS
  <2>1. PICK d \in Parents(q) : d \in Seq(Segments) /\ Name(p) = Name(d)
    BY <1>2, NameAbove, RepositoryAssumption DEF Name
  <2>2. Key(p) = Key(d)
    BY <2>1, SameNameSameKey DEF Name
  <2>3. Key(d) \in Keys(source.directories)
    BY <1>2 DEF Keys
  <2> QED
    BY <1>1, <2>2, <2>3
<1>6. Name(q) \notin Parents(Name(p))
  BY <1>1, <1>2, <1>3, NameAboveKeyAbove DEF Name
<1> QED
  BY <1>4, <1>5, <1>6

\* The invariant holds at the start, when nothing is planned.
LEMMA InitInv == Init => RepositoryInv
BY RepositoryAssumption
   DEF Init, RepositoryInv, Typed, NoneAbove

\* An edit keeps the form of what it edits, and the tree of downstream files.
LEMMA EditInv ==
    ASSUME RepositoryInv, Edit, Typed', NoneAbove(downstream)'
    PROVE  RepositoryInv'
BY DEF RepositoryInv, Edit, workspace

\* Every step keeps the invariant.
LEMMA NextInv == RepositoryInv /\ [Next]_vars => RepositoryInv'
<1> SUFFICES ASSUME RepositoryInv, [Next]_vars PROVE RepositoryInv'
  OBVIOUS
<1> USE RepositoryAssumption
<1>1. CASE EditSeries
  BY <1>1, EditInv DEF EditSeries, Edit, workspace, RepositoryInv, Typed
<1>2. CASE EditApproved
  BY <1>2, EditInv DEF EditApproved, Edit, workspace, RepositoryInv, Typed
<1>3. CASE \E n \in PatchNames : EditPatch(n)
  <2> PICK n \in PatchNames : EditPatch(n)
    BY <1>3
  <2>1. patches' \in Directories
    BY DEF EditPatch, Directories, RepositoryInv, Typed
  <2> QED
    BY <2>1, EditInv DEF EditPatch, Edit, workspace, RepositoryInv, Typed
<1>4. CASE \E n \in SettingNames : EditSetting(n)
  <2> PICK n \in SettingNames : EditSetting(n)
    BY <1>4
  <2>1. manifest' \in Manifests
    BY DEF EditSetting, Manifests, RepositoryInv, Typed
  <2> QED
    BY <2>1, EditInv DEF EditSetting, Edit, workspace, RepositoryInv, Typed
<1>5. CASE \E p \in Paths : AddFile(p)
  <2> PICK p \in Paths : AddFile(p)
    BY <1>5
  <2>1. downstream' = downstream \cup {p} /\ p \notin Parents(p)
    BY NotAboveItself DEF AddFile
  <2>2. NoneAbove(downstream')
    BY <2>1 DEF AddFile, RepositoryInv, NoneAbove
  <2> QED
    BY <2>1, <2>2, EditInv DEF AddFile, Edit, workspace, RepositoryInv, Typed
<1>6. CASE BuildMaterializationPlan
  BY <1>6 DEF BuildMaterializationPlan, repository, RepositoryInv, Typed, Planned
<1>7. CASE \E p \in todo : MaterializeFile(p)
  <2> PICK p \in todo : MaterializeFile(p)
    BY <1>7
  <2>1. /\ p \in plan /\ p \in Seq(Segments) /\ plan' = plan
        /\ plan' \ todo' = (plan \ todo) \cup {p}
    BY DEF MaterializeFile, RepositoryInv, Typed
  <2>2. Name(p) \notin Parents(Name(p))
    BY <2>1, FoldedPath, NotAboveItself DEF Name, RepositoryInv, Typed
  <2>3. \A q \in plan \ todo :
            Name(p) \notin Parents(Name(q)) /\ Name(q) \notin Parents(Name(p))
    BY DEF MaterializeFile, Occupied, Blocked, Tree
  <2>4. \A q, r \in plan' \ todo' : Name(q) \notin Parents(Name(r))
    BY <2>1, <2>2, <2>3 DEF RepositoryInv, MaterializeFile
  <2>5. \A q, r \in plan' \ todo' : (Name(q) \notin Parents(Name(r)))'
    BY <2>4 DEF Name, MaterializeFile
  <2> QED
    BY <2>1, <2>5 DEF MaterializeFile, repository, RepositoryInv, Typed, Planned
<1>8. CASE \E p \in todo : MaterializeFails(p)
  <2> PICK p \in todo : MaterializeFails(p)
    BY <1>8
  <2>1. pc = "materialize" /\ p \in plan /\ plan = downstream /\ p \in Seq(Segments)
    BY DEF MaterializeFails, RepositoryInv, Typed
  <2>2. PICK q \in Tree :
            Name(p) \in {Name(q)} \cup Parents(Name(q)) \/ Name(q) \in Parents(Name(p))
    BY DEF MaterializeFails, Occupied, Blocked
  <2>3. q \in plan \ todo
    BY <2>1, <2>2, ApartFromSource DEF Tree, RepositoryInv, Typed
  <2>4. Name(p) # Name(q)
    BY <2>1, <2>3, SameNameSameKey DEF RepositoryInv, Typed, Planned, Name
  <2>5. FileNamedAsDirectory
    BY <2>1, <2>2, <2>3, <2>4 DEF FileNamedAsDirectory, RepositoryInv, NoneAbove
  <2>6. FileNamedAsDirectory'
    BY <2>5 DEF FileNamedAsDirectory, Name, MaterializeFails
  <2> QED
    BY <2>1, <2>6 DEF MaterializeFails, repository, RepositoryInv, Typed, Planned, Name
<1>9. CASE UNCHANGED vars
  BY <1>9 DEF vars, repository, workspace, RepositoryInv, Typed, NoneAbove, Planned,
     FileNamedAsDirectory, Name
<1> QED
  BY <1>1, <1>2, <1>3, <1>4, <1>5, <1>6, <1>7, <1>8, <1>9 DEF Next

\* The invariant holds in every state.
LEMMA Invariance == Spec => []RepositoryInv
BY InitInv, NextInv, PTL DEF Spec
-----------------------------------------------------------------------------
\* The engine's reader and the validator judge every series alike, but for
\* the two kinds of difference that SeriesVerdictsAgree names.
THEOREM VerdictsAgree == Spec => []SeriesVerdictsAgree
<1>1. Typed => SeriesVerdictsAgree
  <2> SUFFICES ASSUME Typed PROVE SeriesVerdictsAgree
    OBVIOUS
  <2>1. /\ \A i \in DOMAIN series : series[i] \in PatchNames
        /\ \A n \in PatchNames : patches[n] # Null => patches[n] \in PatchFiles
    BY DEF Typed, Directories
  <2>2. ASSUME ReadPatchSeries(series, patches),
               \A n \in Existing(patches) : IsFile(patches, n)
        PROVE  ValidatePatches(series, patches)
    <3>1. Listed(series) = Existing(patches)
      BY <2>1, <2>2 DEF ReadPatchSeries, Listed, Existing, IsFile
    <3> QED
      BY <2>2, <3>1 DEF ReadPatchSeries, ValidatePatches, ValidatePatch
  <2>3. ASSUME ValidatePatches(series, patches),
               \A n \in Listed(series) :
                   /\ patches[n].kind = "FILE"
                   /\ patches[n].content \notin {"UNSUPPORTED", "UNPARSABLE"}
        PROVE  ReadPatchSeries(series, patches)
    <3>1. \A n \in PatchNames : IsFile(patches, n) => n \in Listed(series)
      BY <2>3 DEF ValidatePatches, Existing, IsFile
    <3>2. \A i \in DOMAIN series :
            /\ series[i] \in Existing(patches)
            /\ patches[series[i]] \in PatchFiles
            /\ patches[series[i]].kind = "FILE"
      BY <2>1, <2>3 DEF ValidatePatches, Existing, Listed
    <3>3. \A i \in DOMAIN series :
            IsFile(patches, series[i]) /\ patches[series[i]].content = "GOOD"
      BY <2>3, <3>2 DEF ValidatePatches, ValidatePatch, IsFile, Existing, Listed,
         PatchFiles, Contents
    <3> QED
      BY <2>3, <3>1, <3>2, <3>3 DEF ReadPatchSeries, ValidatePatches
  <2> QED
    BY <2>2, <2>3 DEF SeriesVerdictsAgree
<1> QED
  BY <1>1, Invariance, PTL DEF RepositoryInv

\* An accepted plan is carried out in every workspace, unless a downstream
\* file is named as a directory of another: what the plan checks is enough.
THEOREM PlanSuffices == Spec => []PlanCanBeCarriedOut
<1>1. RepositoryInv => PlanCanBeCarriedOut
  BY DEF RepositoryInv, PlanCanBeCarriedOut, FileNamedAsDirectory
<1> QED
  BY <1>1, Invariance, PTL

\* Two values are one when the scalars they make are.
LEMMA ScalarOne ==
    ASSUME NEW v, NEW w, Scalar(v) = Scalar(w) PROVE v = w
BY DEF Scalar

\* An argument that matches an accepted policy is the value the policy
\* expects, the baseline's where it has one, and empty for a credential.
THEOREM PolicyHolds == Spec => []AcceptedPolicyHolds
<1>1. Typed => AcceptedPolicyHolds
  <2> SUFFICES ASSUME Typed, LoadManifest(manifest, approved), Buildable(manifest),
                      NEW n \in Named(manifest), NEW v \in Values
               PROVE  LET answer == CompareArgument(manifest[n], v) IN
                      /\ answer = "MATCH" =>
                          /\ manifest[n].expected = Scalar(v)
                          /\ n \in Baseline => Required[n].expected = Scalar(v)
                          /\ n \in CredentialLike => v \in {False, Zero, EmptyText}
                      /\ manifest[n].expected = Scalar(v) => answer # "MISMATCH"
    BY DEF AcceptedPolicyHolds
  <2>1. n \in SettingNames /\ manifest[n] \in Settings
    BY DEF Typed, Manifests, Named
  <2>2. ValidateSetting(n, manifest[n], approved)
    BY DEF LoadManifest
  <2>3. manifest[n].requirement \in {"EXACT_VALUE", "REQUIRED_EMPTY_STRING"}
    BY DEF Buildable
  <2>4. PICK w \in Values : manifest[n].expected = Scalar(w)
    BY <2>2, <2>3, PolicyAssumption DEF ValidateSetting, ValidateExpectedValue, IsScalar
  <2>5. manifest[n].expected.values = {w}
    BY <2>4 DEF Scalar
  <2>6. Matches(manifest[n], v) <=> v = w
    BY <2>3, <2>5 DEF Matches, JsonValuesEqual
  <2>7. ASSUME CompareArgument(manifest[n], v) = "MATCH"
        PROVE  /\ manifest[n].expected = Scalar(v)
               /\ n \in Baseline => Required[n].expected = Scalar(v)
               /\ n \in CredentialLike => v \in {False, Zero, EmptyText}
    <3>1. manifest[n].expected = Scalar(v)
      BY <2>4, <2>6, <2>7 DEF CompareArgument
    <3>2. n \in Baseline => Required[n].expected = Scalar(v)
      BY <3>1 DEF LoadManifest, ValidateRequiredBaseline
    <3>3. n \in CredentialLike => v \in {False, Zero, EmptyText}
      BY <2>2, <3>1, ScalarOne DEF ValidateSetting
    <3> QED
      BY <3>1, <3>2, <3>3
  <2>8. manifest[n].expected = Scalar(v) => CompareArgument(manifest[n], v) # "MISMATCH"
    BY <2>4, <2>6, ScalarOne DEF CompareArgument
  <2> QED
    BY <2>7, <2>8
<1> QED
  BY <1>1, Invariance, PTL DEF RepositoryInv
=============================================================================
