----------------------------- MODULE Repository -----------------------------
(***************************************************************************)
(* What maintainers edit and the scripts judge: the patch series, the      *)
(* build policy and the downstream files of src/chromium.  When the engine *)
(* takes them, it plans where the downstream files go                      *)
(* (BuildMaterializationPlan) and copies them one by one into the          *)
(* integration tree (MaterializeDownstream of scripts/patch_qualify.py).   *)
(*                                                                         *)
(* The plan is made of casefolded paths; the copies meet the file system   *)
(* of the workspace, which calls the same whatever it does.  Failures of   *)
(* the file system itself are the subject of PatchEngine.                  *)
(***************************************************************************)
EXTENDS PatchSeries, BuildPolicy

CONSTANTS
    Segments,         \* of paths
    Unsafe,           \* those that ValidateSafeRelativePath refuses
    Fold,             \* str.casefold of each
    FileSystems,      \* for each kind: the segments it takes for one get one value
    Upstream,         \* source trees: their files and directories
    Paths,            \* where maintainers put downstream files
    SeriesVariants, PatchVariants, SettingVariants, ApprovedVariants,
    BaseSeries, BasePatches, BaseManifest,
    MaxEdits

\* NTFS and APFS take no two segments for one that str.casefold keeps apart.
ASSUME RepositoryAssumption ==
    /\ Unsafe \subseteq Segments
    /\ Fold \in [Segments -> Segments]
    /\ \A f \in FileSystems :
        /\ f \in [Segments -> Segments]
        /\ \A s, t \in Segments : f[s] = f[t] => Fold[s] = Fold[t]
    /\ Paths \subseteq Seq(Segments)
    /\ BaseSeries \in Seq(PatchNames) /\ SeriesVariants \subseteq Seq(PatchNames)
    /\ BasePatches \in Directories /\ PatchVariants \subseteq PatchFiles \cup {Null}
    /\ BaseManifest \in Manifests /\ SettingVariants \subseteq Settings

Prefix(p, n) == [i \in 1 .. n |-> p[i]]
Parents(p) == {Prefix(p, n) : n \in 1 .. Len(p) - 1}
Folded(f, p) == [i \in 1 .. Len(p) |-> f[p[i]]]
Key(p) == Folded(Fold, p)
Keys(ps) == {Key(p) : p \in ps}

\* A tree that EnumerateSafeTree took from a file system of the kind f.
SourceTree(u, f) ==
    /\ u.files \cup u.directories \subseteq Seq(Segments)
    /\ \A p \in u.files : Parents(p) \subseteq u.directories
    /\ \A p, q \in u.files \cup u.directories : Folded(f, p) = Folded(f, q) => p = q

VARIABLES
    series, patches, manifest, approved, downstream,
    edits,
    source, fileSystem,
    pc,         \* "edit", "materialize", or the failure class
    plan, todo

repository == <<series, patches, manifest, approved, downstream>>
workspace == <<source, fileSystem, pc, plan, todo>>
vars == <<repository, edits, workspace>>

Init ==
    /\ series = BaseSeries /\ patches = BasePatches
    /\ manifest = BaseManifest /\ approved \in ApprovedVariants
    /\ downstream = {} /\ edits = 0
    /\ source \in Upstream /\ fileSystem \in FileSystems
    /\ SourceTree(source, fileSystem)
    /\ pc = "edit" /\ plan = {} /\ todo = {}
-----------------------------------------------------------------------------
Edit ==
    /\ pc = "edit" /\ edits < MaxEdits
    /\ edits' = edits + 1
    /\ UNCHANGED workspace

EditSeries ==
    /\ Edit
    /\ series' \in SeriesVariants
    /\ UNCHANGED <<patches, manifest, approved, downstream>>

EditPatch(n) ==
    /\ Edit
    /\ \E p \in PatchVariants : patches' = [patches EXCEPT ![n] = p]
    /\ UNCHANGED <<series, manifest, approved, downstream>>

EditSetting(n) ==
    /\ Edit
    /\ \E s \in SettingVariants \cup {NoSetting} : manifest' = [manifest EXCEPT ![n] = s]
    /\ UNCHANGED <<series, patches, approved, downstream>>

\* By an edit of the network policy.
EditApproved ==
    /\ Edit
    /\ approved' \in ApprovedVariants
    /\ UNCHANGED <<series, patches, manifest, downstream>>

\* src/chromium is a tree: no file is above another.
AddFile(p) ==
    /\ Edit
    /\ p \notin downstream
    /\ \A q \in downstream : p \notin Parents(q) /\ q \notin Parents(p)
    /\ downstream' = downstream \cup {p}
    /\ UNCHANGED <<series, patches, manifest, approved>>
-----------------------------------------------------------------------------
SafePath(p) == \A i \in 1 .. Len(p) : p[i] \notin Unsafe

\* Mutated form: a file of the source may be the parent of a planned one.
PlannedWithoutParents(files) ==
    /\ \A p \in files : SafePath(p)
    /\ \A p, q \in files : Key(p) = Key(q) => p = q
    /\ \A p \in files : Key(p) \notin Keys(source.files) \cup Keys(source.directories)

Planned(files) ==
    /\ \A p \in files : SafePath(p)
    /\ \A p, q \in files : Key(p) = Key(q) => p = q
    /\ \A p \in files :
        /\ Key(p) \notin Keys(source.files) \cup Keys(source.directories)
        /\ Parents(Key(p)) \cap Keys(source.files) = {}

\* The engine reads the series and makes the plan; the source is copied.
BuildMaterializationPlan ==
    /\ pc = "edit"
    /\ ReadPatchSeries(series, patches)
    /\ Planned(downstream)
    /\ plan' = downstream /\ todo' = downstream
    /\ pc' = "materialize"
    /\ UNCHANGED <<repository, edits, source, fileSystem>>

Name(p) == Folded(fileSystem, p)

\* What the integration tree holds by now.
Tree == source.files \cup (plan \ todo)

\* Destination.exists(): as a file, or as a directory above one.
Occupied(p) == \E q \in Tree : Name(p) \in {Name(q)} \cup Parents(Name(q))

\* The parent directory cannot be made.
Blocked(p) == \E q \in Tree : Name(q) \in Parents(Name(p))

\* The order of the plan makes no difference here.
MaterializeFile(p) ==
    /\ pc = "materialize"
    /\ ~ Occupied(p) /\ ~ Blocked(p)
    /\ todo' = todo \ {p}
    /\ UNCHANGED <<repository, edits, source, fileSystem, pc, plan>>

MaterializeFails(p) ==
    /\ pc = "materialize"
    /\ \/ Occupied(p) /\ pc' = "MATERIALIZATION_COLLISION"
       \/ ~ Occupied(p) /\ Blocked(p) /\ pc' = "MATERIALIZATION_FAILURE"
    /\ UNCHANGED <<repository, edits, source, fileSystem, plan, todo>>

Next ==
    \/ EditSeries \/ EditApproved
    \/ \E n \in PatchNames : EditPatch(n)
    \/ \E n \in SettingNames : EditSetting(n)
    \/ \E p \in Paths : AddFile(p)
    \/ BuildMaterializationPlan
    \/ \E p \in todo : MaterializeFile(p) \/ MaterializeFails(p)

Spec == Init /\ [][Next]_vars
-----------------------------------------------------------------------------
\* The two readers of the series judge it alike: what the engine takes the
\* validator takes too, unless something that is no file is named like a
\* patch; what the validator takes the engine takes too, unless a patch is a
\* link, no file, or wrong in a way the validator does not look for.
\* ValidatePatches of validate_repo.py and ReadPatchSeries of
\* patch_qualify.py spell the rules of a series out twice.
SeriesVerdictsAgree ==
    /\ /\ ReadPatchSeries(series, patches)
       /\ \A n \in Existing(patches) : IsFile(patches, n)
       => ValidatePatches(series, patches)
    /\ /\ ValidatePatches(series, patches)
       /\ \A n \in Listed(series) :
            /\ patches[n].kind = "FILE"
            /\ patches[n].content \notin {"UNSUPPORTED", "UNPARSABLE"}
       => ReadPatchSeries(series, patches)

\* A downstream file with the name of a directory that others are in.
FileNamedAsDirectory == \E p, q \in plan : Name(p) \in Parents(Name(q)) /\ p \notin Parents(q)

\* A plan that was accepted can be carried out: no copy fails, whatever the
\* workspace's file system takes for the same path, unless the plan holds a
\* downstream file named as a directory of another, which the check of
\* patch_qualify.py:299-319 leaves out; and such a plan is never finished.
PlanCanBeCarriedOut ==
    /\ pc \notin {"edit", "materialize"} => FileNamedAsDirectory
    /\ pc = "materialize" /\ todo = {} => ~ FileNamedAsDirectory

\* What an accepted policy means to the build: an argument that is found to
\* match is the value the policy expects, down to its type; that is what the
\* baseline requires, and for a name like that of a credential it is empty.
\* And GN's answer matches when it repeats what BuildArguments wrote.
\* ValidateSetting, ValidateRequiredBaseline and Matches use three different
\* comparisons of Python.
AcceptedPolicyHolds ==
    LoadManifest(manifest, approved) /\ Buildable(manifest) =>
    \A n \in Named(manifest) : \A v \in Values :
        LET answer == CompareArgument(manifest[n], v) IN
        /\ answer = "MATCH" =>
            /\ manifest[n].expected = Scalar(v)
            /\ n \in Baseline => Required[n].expected = Scalar(v)
            /\ n \in CredentialLike => v \in {False, Zero, EmptyText}
        /\ manifest[n].expected = Scalar(v) => answer # "MISMATCH"
=============================================================================
